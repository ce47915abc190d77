-------------------------- MODULE UsbSessionProofs --------------------------
(* For every script of commands, any number of tries and any number of faults: who
   may use the handle, the transport and the usb pointer when, and what the adapter
   has accepted when frames are sent.

   The argument is about where the main thread is: it takes down in the order in
   which others may use what it takes, and each place on the way up and down says
   what is there.  An answer that is not to the latest try is marked as the try is
   made, so that a mode command is done only by the answer to its latest try, or
   by one that was misread. *)
EXTENDS UsbSession, SequenceTheorems, TLAPS

Talking == {"snapshot", "submit", "wait", "asleep"}

(* The receiver and the transport live in the same handle and together, and
   everybody else that uses the transport while it is there. *)
Sheltered ==
    /\ rx # "none" <=> tx = "up"
    /\ tx = "up" => usb = "ready"
    /\ heart # "none" \/ evdiUsb => tx = "up"

(* What is there, by where the main thread is. *)
Standing ==
    /\ pc = "open" => usb = "zero"
    /\ pc = "io" => usb = "ready" /\ tx = "down"
    /\ pc = "done" => usb = "zero" /\ tx = "down"
    /\ pc \in {"open", "io", "beat", "stopIo", "close", "closing", "done"} => heart = "none"
    /\ pc \in {"beat", "stopHeart", "stopIo", "close", "closing", "done"} \cup Talking => ~evdiUsb
    /\ pc \in {"beat", "evdi", "stream"} \cup Talking =>
          tx = "up" /\ ~stopRx /\ (rx = "exited" => rxError # "none")
    /\ pc = "stream" => evdiUsb
    /\ pc = "evdi" => how = "startup"
    /\ pc \in Talking \cup {"evdi"} =>
          IF how = "startup" THEN heart \in {"asleep", "posting"} ELSE heart = "none"
    /\ pc = "stream" => heart \in {"asleep", "posting"}
    /\ pc \in {"stream", "evdi"} \cup Talking /\ heart # "none" => ~hstop

(* Of this try, or marked as not. *)
Marked == /\ Awaiting => /\ \A k \in DOMAIN pending : pending[k].old \/ pending[k].cmd = cmd
                         /\ \A k \in DOMAIN rxMsg : rxMsg[k].old \/ rxMsg[k].cmd = cmd
          /\ \A k \in DOMAIN rxMsg :
                rxMsg[k].old \/ rxMsg[k].busy \/ rxMsg[k].cmd \in accepted

(* What is known of the modes: of all commands that are done, and of the one that is
   awaited once its answer is there. *)
AcceptedBelow(n) == \A i \in DOMAIN Script : i < n /\ Script[i] = "mode" => i \in accepted

Agreed == ~misread =>
    /\ pc \in Talking => AcceptedBelow(cmd)
    /\ Awaiting /\ Kind = "mode" /\ "mode" \in fresh /\ ~busy => cmd \in accepted
    /\ pc \in {"evdi", "stream"} => AcceptedBelow(Len(Script) + 1)
    /\ pc = "beat" => IF how = "startup" THEN cmd = 1 ELSE AcceptedBelow(Len(Script) + 1)

IInv == TypeOK /\ Sheltered /\ Standing /\ Marked /\ Agreed

USE SessionAssumption

LEMMA ScriptIs == /\ Len(Script) \in Nat \ {0} /\ DOMAIN Script = 1 .. Len(Script)
                  /\ \A i \in DOMAIN Script : Script[i] \in Kinds
OBVIOUS

LEMMA OutdatedAsked ==
    ASSUME NEW q \in Seq(Asked)
    PROVE  /\ Outdated(q) \in Seq(Asked) /\ DOMAIN Outdated(q) = DOMAIN q
           /\ \A k \in DOMAIN q : Outdated(q)[k].old
<1>1. q \in [1 .. Len(q) -> Asked] /\ Len(q) \in Nat /\ DOMAIN q = 1 .. Len(q)
  OBVIOUS
<1>2. \A k \in DOMAIN q : [q[k] EXCEPT !.old = TRUE] \in Asked /\ [q[k] EXCEPT !.old = TRUE].old
  BY <1>1 DEF Asked
<1>3. PICK r : r = Outdated(q)
  OBVIOUS
<1>4. /\ r \in [1 .. Len(q) -> Asked] /\ DOMAIN r = 1 .. Len(q)
      /\ \A k \in 1 .. Len(q) : r[k].old
  BY <1>1, <1>2, <1>3 DEF Outdated
<1>5. r \in Seq(Asked) /\ Len(r) = Len(q)
  BY <1>1, <1>4
<1>q. QED BY <1>1, <1>3, <1>4, <1>5

LEMMA OutdatedAnswers ==
    ASSUME NEW q \in Seq(Answers)
    PROVE  /\ Outdated(q) \in Seq(Answers) /\ DOMAIN Outdated(q) = DOMAIN q
           /\ Len(Outdated(q)) = Len(q)
           /\ \A k \in DOMAIN q : Outdated(q)[k].old
<1>1. q \in [1 .. Len(q) -> Answers] /\ Len(q) \in Nat /\ DOMAIN q = 1 .. Len(q)
  OBVIOUS
<1>2. \A k \in DOMAIN q : [q[k] EXCEPT !.old = TRUE] \in Answers /\ [q[k] EXCEPT !.old = TRUE].old
  BY <1>1 DEF Answers
<1>3. PICK r : r = Outdated(q)
  OBVIOUS
<1>4. /\ r \in [1 .. Len(q) -> Answers] /\ DOMAIN r = 1 .. Len(q)
      /\ \A k \in 1 .. Len(q) : r[k].old
  BY <1>1, <1>2, <1>3 DEF Outdated
<1>5. r \in Seq(Answers) /\ Len(r) = Len(q)
  BY <1>1, <1>4
<1>q. QED BY <1>1, <1>3, <1>4, <1>5

(* What the adapter is asked: this, after what it was asked before. *)
LEMMA ReceivedIs ==
    ASSUME TypeOK
    PROVE  /\ Received \in Seq(Asked)
           /\ \A k \in DOMAIN Received : \/ Received[k].cmd = cmd
                                         \/ k \in DOMAIN pending /\ Received[k] = pending[k]
<1>1. pending \in Seq(Asked) /\ [cmd |-> cmd, old |-> FALSE] \in Asked
  BY DEF TypeOK, CountsOK, MessagesOK, Asked
<1>2. CASE Kind = "post"
  BY <1>1, <1>2 DEF Received
<1>3. CASE Kind # "post"
  <2>. DEFINE m == [cmd |-> cmd, old |-> FALSE]
  <2>1. Received = Append(pending, m) /\ m.cmd = cmd
    BY <1>3 DEF Received
  <2>. HIDE DEF m
  <2>2. PICK q, a : q = pending /\ a = m
    OBVIOUS
  <2>3. q \in Seq(Asked) /\ a \in Asked
    BY <1>1, <2>2 DEF m
  <2>4. /\ Append(q, a) \in Seq(Asked) /\ Len(Append(q, a)) = Len(q) + 1
        /\ Append(q, a)[Len(q) + 1] = a /\ \A k \in 1 .. Len(q) : Append(q, a)[k] = q[k]
    BY <2>3, AppendProperties
  <2>5. /\ DOMAIN Append(q, a) = 1 .. Len(q) + 1 /\ DOMAIN q = 1 .. Len(q) /\ Len(q) \in Nat
    BY <2>3, <2>4
  <2>6. \A k \in DOMAIN Append(q, a) : Append(q, a)[k] = a \/ (k \in DOMAIN q /\ Append(q, a)[k] = q[k])
    BY <2>4, <2>5
  <2>q. QED BY <2>1, <2>2, <2>4, <2>6
<1>q. QED BY <1>2, <1>3

(* The one answer there is to publish. *)
LEMMA HeadOfAnswers ==
    ASSUME TypeOK, rx = "publish"
    PROVE  1 \in DOMAIN rxMsg /\ Head(rxMsg) = rxMsg[1] /\ Head(rxMsg) \in Answers
<1>. Len(rxMsg) = 1 /\ Len(<< >>) = 0 /\ 1 # 0
  BY DEF TypeOK, MessagesOK
<1>0. rxMsg # << >>
  BY Zenon
<1>1. PICK q : q = rxMsg
  OBVIOUS
<1>2. q \in Seq(Answers) /\ q # << >>
  BY <1>0, <1>1 DEF TypeOK, MessagesOK
<1>3. 1 \in DOMAIN q /\ Head(q) = q[1] /\ Head(q) \in Answers
  BY <1>2, HeadTailProperties
<1>q. QED BY <1>1, <1>3

(* The oldest thing the adapter was asked, and the rest. *)
LEMMA TailOfPending ==
    ASSUME TypeOK, pending # << >>
    PROVE  /\ Head(pending) \in Asked /\ 1 \in DOMAIN pending /\ Head(pending) = pending[1]
           /\ Tail(pending) \in Seq(Asked)
           /\ \A k \in DOMAIN Tail(pending) : /\ k + 1 \in DOMAIN pending
                                              /\ Tail(pending)[k] = pending[k + 1]
<1>1. PICK q : q = pending
  OBVIOUS
<1>2. q \in Seq(Asked) /\ q # << >>
  BY <1>1 DEF TypeOK, MessagesOK
<1>3. /\ Head(q) \in Asked /\ 1 \in DOMAIN q /\ Head(q) = q[1] /\ Tail(q) \in Seq(Asked)
      /\ \A k \in DOMAIN Tail(q) : k + 1 \in DOMAIN q /\ Tail(q)[k] = q[k + 1]
  BY <1>2, HeadTailProperties
<1>q. QED BY <1>1, <1>3

-----------------------------------------------------------------------------
LEMMA InitIInv == Init => IInv
<1> SUFFICES ASSUME Init PROVE IInv
  OBVIOUS
<1>1. StatesOK /\ FlagsOK
  BY DEF Init, StatesOK, FlagsOK, Places
<1>2. CountsOK /\ MessagesOK
  BY ScriptIs DEF Init, CountsOK, MessagesOK
<1>3. Sheltered /\ Standing
  BY DEF Init, Sheltered, Standing, Talking
<1>4. Marked
  BY DEF Init, Marked, Awaiting
<1>5. Agreed
  BY DEF Init, Agreed, Awaiting, Talking, AcceptedBelow
<1>q. QED BY <1>1, <1>2, <1>3, <1>4, <1>5 DEF IInv, TypeOK

-----------------------------------------------------------------------------
(* One lemma for each step of the main thread ... *)

LEMMA OpenStep == IInv /\ Open => IInv'
<1> SUFFICES ASSUME IInv, Open PROVE IInv'
  OBVIOUS
<1>1. StatesOK' /\ FlagsOK'
  <2>1. StatesOK'
    BY DEF IInv, TypeOK, StatesOK, Places, Open, Failed, Fault, NoFault, rxVars, restVars,
       history
  <2>2. FlagsOK'
    BY DEF IInv, TypeOK, FlagsOK, Open, Failed, Fault, NoFault, rxVars, restVars, history
  <2>q. QED BY <2>1, <2>2
<1>2. CountsOK'
  BY ScriptIs DEF IInv, TypeOK, CountsOK, Open, Failed, Fault, NoFault, rxVars, restVars,
     history
<1>3. MessagesOK'
  <2>1. pending' \in Seq(Asked)
    <3>1. pending \in Seq(Asked) /\ << >> \in Seq(Asked)
      BY DEF IInv, TypeOK, MessagesOK
    <3>2. pending' = pending \/ pending' = << >>
      BY DEF Open
    <3>q. QED BY <3>1, <3>2, Zenon
  <2>q. QED BY <2>1 DEF IInv, TypeOK, MessagesOK, Open, rxVars
<1>4. Sheltered' /\ Standing'
  BY DEF IInv, Sheltered, Standing, TypeOK, StatesOK, Talking, Open, Failed, Fault, NoFault,
     rxVars, restVars, history
<1>5. Marked'
  BY DEF IInv, Marked, Sheltered, Standing, TypeOK, MessagesOK, Awaiting, Open, Failed,
     Fault, NoFault, rxVars, restVars, history
<1>6. Agreed'
  BY ScriptIs DEF IInv, Agreed, Marked, Standing, TypeOK, CountsOK, MessagesOK,
     AcceptedBelow, Talking, Awaiting, Kind, Open, Failed, Fault, NoFault, rxVars, restVars,
     history
<1>q. QED BY <1>1, <1>2, <1>3, <1>4, <1>5, <1>6 DEF IInv, TypeOK

LEMMA StartIoStep == IInv /\ StartIo => IInv'
<1> SUFFICES ASSUME IInv, StartIo PROVE IInv'
  OBVIOUS
<1>1. StatesOK' /\ FlagsOK'
  <2>1. StatesOK'
    BY DEF IInv, TypeOK, StatesOK, Places, StartIo, Failed, Fault, NoFault, restVars
  <2>2. FlagsOK'
    BY DEF IInv, TypeOK, FlagsOK, StartIo, Failed, Fault, NoFault, restVars
  <2>q. QED BY <2>1, <2>2
<1>2. CountsOK'
  BY ScriptIs DEF IInv, TypeOK, CountsOK, StartIo, Failed, Fault, NoFault, restVars
<1>3. MessagesOK'
  <2>1. rx = "none" /\ rxMsg = << >>
    BY DEF IInv, TypeOK, MessagesOK, Sheltered, Standing, StartIo
  <2>q. QED BY <2>1 DEF IInv, TypeOK, MessagesOK, StartIo
<1>4. Sheltered' /\ Standing'
  BY DEF IInv, Sheltered, Standing, TypeOK, StatesOK, Talking, StartIo, Failed, Fault,
     NoFault, restVars
<1>5. Marked'
  <2>1. rxMsg = << >> /\ rxMsg' = << >> /\ ~Awaiting'
    BY DEF IInv, TypeOK, MessagesOK, Sheltered, Standing, StartIo, Awaiting, Failed
  <2>q. QED BY <2>1 DEF Marked
<1>6. Agreed'
  BY ScriptIs DEF IInv, Agreed, Marked, Standing, TypeOK, CountsOK, MessagesOK,
     AcceptedBelow, Talking, Awaiting, Kind, StartIo, Failed, Fault, NoFault, restVars
<1>q. QED BY <1>1, <1>2, <1>3, <1>4, <1>5, <1>6 DEF IInv, TypeOK

LEMMA StartHeartStep == IInv /\ StartHeart => IInv'
<1> SUFFICES ASSUME IInv, StartHeart PROVE IInv'
  OBVIOUS
<1>1. StatesOK' /\ FlagsOK'
  <2>1. StatesOK'
    BY DEF IInv, TypeOK, StatesOK, Places, StartHeart, Failed, Fault, NoFault, rxVars,
       restVars, history
  <2>2. FlagsOK'
    BY DEF IInv, TypeOK, FlagsOK, StartHeart, Failed, Fault, NoFault, rxVars, restVars,
       history
  <2>q. QED BY <2>1, <2>2
<1>2. CountsOK'
  BY ScriptIs DEF IInv, TypeOK, CountsOK, StartHeart, Failed, Fault, NoFault, rxVars,
     restVars, history
<1>3. MessagesOK'
  BY DEF IInv, TypeOK, StatesOK, MessagesOK, StartHeart, Failed, Fault, NoFault, rxVars,
     restVars, history
<1>4. Sheltered' /\ Standing'
  BY DEF IInv, Sheltered, Standing, TypeOK, StatesOK, Talking, StartHeart, Failed, Fault,
     NoFault, rxVars, restVars, history
<1>5. Marked'
  BY DEF IInv, Marked, Sheltered, Standing, TypeOK, MessagesOK, Awaiting, StartHeart,
     Failed, Fault, NoFault, rxVars, restVars, history
<1>6. Agreed'
  BY ScriptIs DEF IInv, Agreed, Marked, Standing, TypeOK, CountsOK, MessagesOK,
     AcceptedBelow, Talking, Awaiting, Kind, StartHeart, Failed, Fault, NoFault, rxVars,
     restVars, history
<1>q. QED BY <1>1, <1>2, <1>3, <1>4, <1>5, <1>6 DEF IInv, TypeOK

LEMMA StartEvdiStep == IInv /\ StartEvdi => IInv'
<1> SUFFICES ASSUME IInv, StartEvdi PROVE IInv'
  OBVIOUS
<1>1. StatesOK' /\ FlagsOK'
  <2>1. StatesOK'
    BY DEF IInv, TypeOK, StatesOK, Places, StartEvdi, Fault, NoFault, rxVars, history
  <2>2. FlagsOK'
    BY DEF IInv, TypeOK, FlagsOK, StartEvdi, Fault, NoFault, rxVars, history
  <2>q. QED BY <2>1, <2>2
<1>2. CountsOK'
  BY ScriptIs DEF IInv, TypeOK, CountsOK, StartEvdi, Fault, NoFault, rxVars, history
<1>3. MessagesOK'
  BY DEF IInv, TypeOK, StatesOK, MessagesOK, StartEvdi, Fault, NoFault, rxVars, history
<1>4. Sheltered' /\ Standing'
  BY DEF IInv, Sheltered, Standing, TypeOK, StatesOK, Talking, StartEvdi, Fault, NoFault,
     rxVars, history
<1>5. Marked'
  BY DEF IInv, Marked, Sheltered, Standing, TypeOK, MessagesOK, Awaiting, StartEvdi, Fault,
     NoFault, rxVars, history
<1>6. Agreed'
  BY ScriptIs DEF IInv, Agreed, Marked, Standing, TypeOK, CountsOK, MessagesOK,
     AcceptedBelow, Talking, Awaiting, Kind, StartEvdi, Fault, NoFault, rxVars, history
<1>q. QED BY <1>1, <1>2, <1>3, <1>4, <1>5, <1>6 DEF IInv, TypeOK

LEMMA SnapshotStep == IInv /\ Snapshot => IInv'
<1> SUFFICES ASSUME IInv, Snapshot PROVE IInv'
  OBVIOUS
<1>1. StatesOK' /\ FlagsOK'
  <2>1. StatesOK'
    BY DEF IInv, TypeOK, StatesOK, Places, Snapshot, Outdated, restVars, history
  <2>2. FlagsOK'
    BY DEF IInv, TypeOK, FlagsOK, Snapshot, Outdated, restVars, history
  <2>q. QED BY <2>1, <2>2
<1>2. CountsOK'
  BY ScriptIs DEF IInv, TypeOK, CountsOK, Snapshot, Outdated, restVars, history
<1>3. MessagesOK'
  <2>1. rxMsg \in Seq(Answers) /\ pending \in Seq(Asked)
    BY DEF IInv, TypeOK, MessagesOK
  <2>2. rxMsg = << >> => Len(rxMsg) = 0 /\ Len(Outdated(rxMsg)) = 0
    BY <2>1, OutdatedAnswers
  <2>3. Outdated(rxMsg) \in Seq(Answers) /\ Outdated(pending) \in Seq(Asked)
    BY <2>1, OutdatedAsked, OutdatedAnswers
  <2>4. rxMsg = << >> => Outdated(rxMsg) = << >>
    BY <2>2, <2>3
  <2>q. QED
    BY <2>1, <2>3, <2>4, OutdatedAnswers DEF IInv, TypeOK, MessagesOK, Snapshot
<1>4. Sheltered' /\ Standing'
  BY DEF IInv, Sheltered, Standing, TypeOK, StatesOK, Talking, Snapshot, Outdated, restVars,
     history
<1>5. Marked'
  <2>1. rxMsg \in Seq(Answers) /\ pending \in Seq(Asked)
    BY DEF IInv, TypeOK, MessagesOK
  <2>2. /\ \A k \in DOMAIN rxMsg' : rxMsg'[k].old
        /\ \A k \in DOMAIN pending' : pending'[k].old
    BY <2>1, OutdatedAsked, OutdatedAnswers DEF Snapshot
  <2>q. QED BY <2>2 DEF Marked
<1>6. Agreed'
  BY ScriptIs DEF IInv, Agreed, Marked, Standing, TypeOK, CountsOK, MessagesOK,
     AcceptedBelow, Talking, Awaiting, Kind, Snapshot, Outdated, restVars, history
<1>q. QED BY <1>1, <1>2, <1>3, <1>4, <1>5, <1>6 DEF IInv, TypeOK

LEMMA SubmitStep == IInv /\ Submit => IInv'
<1> SUFFICES ASSUME IInv, Submit PROVE IInv'
  OBVIOUS
<1>1. StatesOK' /\ FlagsOK'
  <2>1. StatesOK'
    BY DEF IInv, TypeOK, StatesOK, Places, Submit, CommandDone, CommandFails, Received,
       Fault, NoFault, rxVars, restVars, history, Failed
  <2>2. FlagsOK'
    BY DEF IInv, TypeOK, FlagsOK, Submit, CommandDone, CommandFails, Received, Fault,
       NoFault, rxVars, restVars, history, Failed
  <2>q. QED BY <2>1, <2>2
<1>2. CountsOK'
  BY ScriptIs DEF IInv, TypeOK, CountsOK, Submit, CommandDone, CommandFails, Received,
     Fault, NoFault, rxVars, restVars, history, Failed
<1>3. MessagesOK'
  <2>1. pending' \in Seq(Asked)
    BY ReceivedIs DEF IInv, TypeOK, MessagesOK, Submit
  <2>q. QED BY <2>1 DEF IInv, TypeOK, MessagesOK, Submit, rxVars
<1>4. Sheltered' /\ Standing'
  BY DEF IInv, Sheltered, Standing, TypeOK, StatesOK, Talking, Submit, CommandDone,
     CommandFails, Received, Fault, NoFault, rxVars, restVars, history, Failed
<1>5. Marked'
  <2>1. pc = "submit" /\ UNCHANGED <<rxMsg, accepted>>
    BY DEF Submit, rxVars, history
  <2>2. \A k \in DOMAIN pending' : \/ pending'[k].cmd = cmd
                                   \/ k \in DOMAIN pending /\ pending'[k] = pending[k]
    BY ReceivedIs DEF Submit, IInv
  <2>3. Awaiting' => cmd' = cmd
    BY DEF Submit, CommandDone, CommandFails, Awaiting, Failed
  <2>q. QED BY <2>1, <2>2, <2>3 DEF IInv, Marked, Awaiting
<1>6. Agreed'
  BY ScriptIs DEF IInv, Agreed, Marked, Standing, TypeOK, CountsOK, MessagesOK,
     AcceptedBelow, Talking, Awaiting, Kind, Submit, CommandDone, CommandFails, Received,
     Fault, NoFault, rxVars, restVars, history, Failed
<1>q. QED BY <1>1, <1>2, <1>3, <1>4, <1>5, <1>6 DEF IInv, TypeOK

LEMMA WaitAnsweredStep == IInv /\ WaitAnswered => IInv'
<1> SUFFICES ASSUME IInv, WaitAnswered PROVE IInv'
  OBVIOUS
<1>1. StatesOK' /\ FlagsOK'
  <2>1. StatesOK'
    BY DEF IInv, TypeOK, StatesOK, Places, WaitAnswered, CommandDone, CommandFails, rxVars,
       restVars, history, Failed
  <2>2. FlagsOK'
    BY DEF IInv, TypeOK, FlagsOK, WaitAnswered, CommandDone, CommandFails, rxVars, restVars,
       history, Failed
  <2>q. QED BY <2>1, <2>2
<1>2. CountsOK'
  BY ScriptIs DEF IInv, TypeOK, CountsOK, WaitAnswered, CommandDone, CommandFails, rxVars,
     restVars, history, Failed
<1>3. MessagesOK'
  BY DEF IInv, TypeOK, StatesOK, MessagesOK, WaitAnswered, CommandDone, CommandFails,
     rxVars, restVars, history, Failed
<1>4. Sheltered' /\ Standing'
  BY DEF IInv, Sheltered, Standing, TypeOK, StatesOK, Talking, WaitAnswered, CommandDone,
     CommandFails, rxVars, restVars, history, Failed
<1>5. Marked'
  BY DEF IInv, Marked, Sheltered, Standing, TypeOK, MessagesOK, Awaiting, WaitAnswered,
     CommandDone, CommandFails, rxVars, restVars, history, Failed
<1>6. Agreed'
  BY ScriptIs DEF IInv, Agreed, Marked, Standing, TypeOK, CountsOK, MessagesOK,
     AcceptedBelow, Talking, Awaiting, Kind, WaitAnswered, CommandDone, CommandFails,
     rxVars, restVars, history, Failed
<1>q. QED BY <1>1, <1>2, <1>3, <1>4, <1>5, <1>6 DEF IInv, TypeOK

LEMMA WaitSleepsStep == IInv /\ WaitSleeps => IInv'
<1> SUFFICES ASSUME IInv, WaitSleeps PROVE IInv'
  OBVIOUS
<1>1. StatesOK' /\ FlagsOK'
  <2>1. StatesOK'
    BY DEF IInv, TypeOK, StatesOK, Places, WaitSleeps, rxVars, restVars, history
  <2>2. FlagsOK'
    BY DEF IInv, TypeOK, FlagsOK, WaitSleeps, rxVars, restVars, history
  <2>q. QED BY <2>1, <2>2
<1>2. CountsOK'
  BY ScriptIs DEF IInv, TypeOK, CountsOK, WaitSleeps, rxVars, restVars, history
<1>3. MessagesOK'
  BY DEF IInv, TypeOK, StatesOK, MessagesOK, WaitSleeps, rxVars, restVars, history
<1>4. Sheltered' /\ Standing'
  BY DEF IInv, Sheltered, Standing, TypeOK, StatesOK, Talking, WaitSleeps, rxVars, restVars,
     history
<1>5. Marked'
  BY DEF IInv, Marked, Sheltered, Standing, TypeOK, MessagesOK, Awaiting, WaitSleeps,
     rxVars, restVars, history
<1>6. Agreed'
  BY ScriptIs DEF IInv, Agreed, Marked, Standing, TypeOK, CountsOK, MessagesOK,
     AcceptedBelow, Talking, Awaiting, Kind, WaitSleeps, rxVars, restVars, history
<1>q. QED BY <1>1, <1>2, <1>3, <1>4, <1>5, <1>6 DEF IInv, TypeOK

LEMMA WaitWakesStep == IInv /\ WaitWakes => IInv'
<1> SUFFICES ASSUME IInv, WaitWakes PROVE IInv'
  OBVIOUS
<1>1. StatesOK' /\ FlagsOK'
  <2>1. StatesOK'
    BY DEF IInv, TypeOK, StatesOK, Places, WaitWakes, rxVars, restVars, history
  <2>2. FlagsOK'
    BY DEF IInv, TypeOK, FlagsOK, WaitWakes, rxVars, restVars, history
  <2>q. QED BY <2>1, <2>2
<1>2. CountsOK'
  BY ScriptIs DEF IInv, TypeOK, CountsOK, WaitWakes, rxVars, restVars, history
<1>3. MessagesOK'
  BY DEF IInv, TypeOK, StatesOK, MessagesOK, WaitWakes, rxVars, restVars, history
<1>4. Sheltered' /\ Standing'
  BY DEF IInv, Sheltered, Standing, TypeOK, StatesOK, Talking, WaitWakes, rxVars, restVars,
     history
<1>5. Marked'
  BY DEF IInv, Marked, Sheltered, Standing, TypeOK, MessagesOK, Awaiting, WaitWakes, rxVars,
     restVars, history
<1>6. Agreed'
  BY ScriptIs DEF IInv, Agreed, Marked, Standing, TypeOK, CountsOK, MessagesOK,
     AcceptedBelow, Talking, Awaiting, Kind, WaitWakes, rxVars, restVars, history
<1>q. QED BY <1>1, <1>2, <1>3, <1>4, <1>5, <1>6 DEF IInv, TypeOK

LEMMA WaitTimesOutStep == IInv /\ WaitTimesOut => IInv'
<1> SUFFICES ASSUME IInv, WaitTimesOut PROVE IInv'
  OBVIOUS
<1>1. StatesOK' /\ FlagsOK'
  <2>1. StatesOK'
    BY DEF IInv, TypeOK, StatesOK, Places, WaitTimesOut, CommandDone, CommandFails, Fault,
       NoFault, rxVars, restVars, history, Failed
  <2>2. FlagsOK'
    BY DEF IInv, TypeOK, FlagsOK, WaitTimesOut, CommandDone, CommandFails, Fault, NoFault,
       rxVars, restVars, history, Failed
  <2>q. QED BY <2>1, <2>2
<1>2. CountsOK'
  BY ScriptIs DEF IInv, TypeOK, CountsOK, WaitTimesOut, CommandDone, CommandFails, Fault,
     NoFault, rxVars, restVars, history, Failed
<1>3. MessagesOK'
  BY DEF IInv, TypeOK, StatesOK, MessagesOK, WaitTimesOut, CommandDone, CommandFails, Fault,
     NoFault, rxVars, restVars, history, Failed
<1>4. Sheltered' /\ Standing'
  BY DEF IInv, Sheltered, Standing, TypeOK, StatesOK, Talking, WaitTimesOut, CommandDone,
     CommandFails, Fault, NoFault, rxVars, restVars, history, Failed
<1>5. Marked'
  BY DEF IInv, Marked, Sheltered, Standing, TypeOK, MessagesOK, Awaiting, WaitTimesOut,
     CommandDone, CommandFails, Fault, NoFault, rxVars, restVars, history, Failed
<1>6. Agreed'
  BY ScriptIs DEF IInv, Agreed, Marked, Standing, TypeOK, CountsOK, MessagesOK,
     AcceptedBelow, Talking, Awaiting, Kind, WaitTimesOut, CommandDone, CommandFails, Fault,
     NoFault, rxVars, restVars, history, Failed
<1>q. QED BY <1>1, <1>2, <1>3, <1>4, <1>5, <1>6 DEF IInv, TypeOK

LEMMA TakeRxErrorStep == IInv /\ TakeRxError => IInv'
<1> SUFFICES ASSUME IInv, TakeRxError PROVE IInv'
  OBVIOUS
<1>1. StatesOK' /\ FlagsOK'
  <2>1. StatesOK'
    BY DEF IInv, TypeOK, StatesOK, Places, TakeRxError, TryToRecover, restVars, history
  <2>2. FlagsOK'
    BY DEF IInv, TypeOK, FlagsOK, TakeRxError, TryToRecover, restVars, history
  <2>q. QED BY <2>1, <2>2
<1>2. CountsOK'
  BY ScriptIs DEF IInv, TypeOK, CountsOK, TakeRxError, TryToRecover, restVars, history
<1>3. MessagesOK'
  BY DEF IInv, TypeOK, StatesOK, MessagesOK, TakeRxError, TryToRecover, restVars, history
<1>4. Sheltered' /\ Standing'
  BY DEF IInv, Sheltered, Standing, TypeOK, StatesOK, Talking, TakeRxError, TryToRecover,
     restVars, history
<1>5. Marked'
  BY DEF IInv, Marked, Sheltered, Standing, TypeOK, MessagesOK, Awaiting, TakeRxError,
     TryToRecover, restVars, history
<1>6. Agreed'
  BY ScriptIs DEF IInv, Agreed, Marked, Standing, TypeOK, CountsOK, MessagesOK,
     AcceptedBelow, Talking, Awaiting, Kind, TakeRxError, TryToRecover, restVars, history
<1>q. QED BY <1>1, <1>2, <1>3, <1>4, <1>5, <1>6 DEF IInv, TypeOK

LEMMA StreamFailsStep == IInv /\ StreamFails => IInv'
<1> SUFFICES ASSUME IInv, StreamFails PROVE IInv'
  OBVIOUS
<1>1. StatesOK' /\ FlagsOK'
  <2>1. StatesOK'
    BY DEF IInv, TypeOK, StatesOK, Places, StreamFails, TryToRecover, Fault, rxVars,
       restVars, history
  <2>2. FlagsOK'
    BY DEF IInv, TypeOK, FlagsOK, StreamFails, TryToRecover, Fault, rxVars, restVars,
       history
  <2>q. QED BY <2>1, <2>2
<1>2. CountsOK'
  BY ScriptIs DEF IInv, TypeOK, CountsOK, StreamFails, TryToRecover, Fault, rxVars,
     restVars, history
<1>3. MessagesOK'
  BY DEF IInv, TypeOK, StatesOK, MessagesOK, StreamFails, TryToRecover, Fault, rxVars,
     restVars, history
<1>4. Sheltered' /\ Standing'
  BY DEF IInv, Sheltered, Standing, TypeOK, StatesOK, Talking, StreamFails, TryToRecover,
     Fault, rxVars, restVars, history
<1>5. Marked'
  BY DEF IInv, Marked, Sheltered, Standing, TypeOK, MessagesOK, Awaiting, StreamFails,
     TryToRecover, Fault, rxVars, restVars, history
<1>6. Agreed'
  BY ScriptIs DEF IInv, Agreed, Marked, Standing, TypeOK, CountsOK, MessagesOK,
     AcceptedBelow, Talking, Awaiting, Kind, StreamFails, TryToRecover, Fault, rxVars,
     restVars, history
<1>q. QED BY <1>1, <1>2, <1>3, <1>4, <1>5, <1>6 DEF IInv, TypeOK

LEMMA StreamEndsStep == IInv /\ StreamEnds => IInv'
<1> SUFFICES ASSUME IInv, StreamEnds PROVE IInv'
  OBVIOUS
<1>1. StatesOK' /\ FlagsOK'
  <2>1. StatesOK'
    BY DEF IInv, TypeOK, StatesOK, Places, StreamEnds, rxVars, restVars, history
  <2>2. FlagsOK'
    BY DEF IInv, TypeOK, FlagsOK, StreamEnds, rxVars, restVars, history
  <2>q. QED BY <2>1, <2>2
<1>2. CountsOK'
  BY ScriptIs DEF IInv, TypeOK, CountsOK, StreamEnds, rxVars, restVars, history
<1>3. MessagesOK'
  BY DEF IInv, TypeOK, StatesOK, MessagesOK, StreamEnds, rxVars, restVars, history
<1>4. Sheltered' /\ Standing'
  BY DEF IInv, Sheltered, Standing, TypeOK, StatesOK, Talking, StreamEnds, rxVars, restVars,
     history
<1>5. Marked'
  BY DEF IInv, Marked, Sheltered, Standing, TypeOK, MessagesOK, Awaiting, StreamEnds,
     rxVars, restVars, history
<1>6. Agreed'
  BY ScriptIs DEF IInv, Agreed, Marked, Standing, TypeOK, CountsOK, MessagesOK,
     AcceptedBelow, Talking, Awaiting, Kind, StreamEnds, rxVars, restVars, history
<1>q. QED BY <1>1, <1>2, <1>3, <1>4, <1>5, <1>6 DEF IInv, TypeOK

LEMMA AttemptStartsStep == IInv /\ AttemptStarts => IInv'
<1> SUFFICES ASSUME IInv, AttemptStarts PROVE IInv'
  OBVIOUS
<1>1. StatesOK' /\ FlagsOK'
  <2>1. StatesOK'
    BY DEF IInv, TypeOK, StatesOK, Places, AttemptStarts, rxVars, history
  <2>2. FlagsOK'
    BY DEF IInv, TypeOK, FlagsOK, AttemptStarts, rxVars, history
  <2>q. QED BY <2>1, <2>2
<1>2. CountsOK'
  BY ScriptIs DEF IInv, TypeOK, CountsOK, AttemptStarts, rxVars, history
<1>3. MessagesOK'
  BY DEF IInv, TypeOK, StatesOK, MessagesOK, AttemptStarts, rxVars, history
<1>4. Sheltered' /\ Standing'
  BY DEF IInv, Sheltered, Standing, TypeOK, StatesOK, Talking, AttemptStarts, rxVars,
     history
<1>5. Marked'
  BY DEF IInv, Marked, Sheltered, Standing, TypeOK, MessagesOK, Awaiting, AttemptStarts,
     rxVars, history
<1>6. Agreed'
  BY ScriptIs DEF IInv, Agreed, Marked, Standing, TypeOK, CountsOK, MessagesOK,
     AcceptedBelow, Talking, Awaiting, Kind, AttemptStarts, rxVars, history
<1>q. QED BY <1>1, <1>2, <1>3, <1>4, <1>5, <1>6 DEF IInv, TypeOK

LEMMA RecoveryStopsStep == IInv /\ RecoveryStops => IInv'
<1> SUFFICES ASSUME IInv, RecoveryStops PROVE IInv'
  OBVIOUS
<1>1. StatesOK' /\ FlagsOK'
  <2>1. StatesOK'
    BY DEF IInv, TypeOK, StatesOK, Places, RecoveryStops, rxVars, restVars, history
  <2>2. FlagsOK'
    BY DEF IInv, TypeOK, FlagsOK, RecoveryStops, rxVars, restVars, history
  <2>q. QED BY <2>1, <2>2
<1>2. CountsOK'
  BY ScriptIs DEF IInv, TypeOK, CountsOK, RecoveryStops, rxVars, restVars, history
<1>3. MessagesOK'
  BY DEF IInv, TypeOK, StatesOK, MessagesOK, RecoveryStops, rxVars, restVars, history
<1>4. Sheltered' /\ Standing'
  BY DEF IInv, Sheltered, Standing, TypeOK, StatesOK, Talking, RecoveryStops, rxVars,
     restVars, history
<1>5. Marked'
  BY DEF IInv, Marked, Sheltered, Standing, TypeOK, MessagesOK, Awaiting, RecoveryStops,
     rxVars, restVars, history
<1>6. Agreed'
  BY ScriptIs DEF IInv, Agreed, Marked, Standing, TypeOK, CountsOK, MessagesOK,
     AcceptedBelow, Talking, Awaiting, Kind, RecoveryStops, rxVars, restVars, history
<1>q. QED BY <1>1, <1>2, <1>3, <1>4, <1>5, <1>6 DEF IInv, TypeOK

LEMMA HeartJoinedStep == IInv /\ HeartJoined => IInv'
<1> SUFFICES ASSUME IInv, HeartJoined PROVE IInv'
  OBVIOUS
<1>1. StatesOK' /\ FlagsOK'
  <2>1. StatesOK'
    BY DEF IInv, TypeOK, StatesOK, Places, HeartJoined, Failed, history
  <2>2. FlagsOK'
    BY DEF IInv, TypeOK, FlagsOK, HeartJoined, Failed, history
  <2>q. QED BY <2>1, <2>2
<1>2. CountsOK'
  BY ScriptIs DEF IInv, TypeOK, CountsOK, HeartJoined, Failed, history
<1>3. MessagesOK'
  BY DEF IInv, TypeOK, StatesOK, MessagesOK, HeartJoined, Failed, history
<1>4. Sheltered' /\ Standing'
  BY DEF IInv, Sheltered, Standing, TypeOK, StatesOK, Talking, HeartJoined, Failed, history
<1>5. Marked'
  BY DEF IInv, Marked, Sheltered, Standing, TypeOK, MessagesOK, Awaiting, HeartJoined,
     Failed, history
<1>6. Agreed'
  BY ScriptIs DEF IInv, Agreed, Marked, Standing, TypeOK, CountsOK, MessagesOK,
     AcceptedBelow, Talking, Awaiting, Kind, HeartJoined, Failed, history
<1>q. QED BY <1>1, <1>2, <1>3, <1>4, <1>5, <1>6 DEF IInv, TypeOK

LEMMA ReconnectStep == IInv /\ Reconnect => IInv'
<1> SUFFICES ASSUME IInv, Reconnect PROVE IInv'
  OBVIOUS
<1>1. StatesOK' /\ FlagsOK'
  <2>1. StatesOK'
    BY DEF IInv, TypeOK, StatesOK, Places, Reconnect, Failed, Fault, NoFault, restVars,
       history
  <2>2. FlagsOK'
    BY DEF IInv, TypeOK, FlagsOK, Reconnect, Failed, Fault, NoFault, restVars, history
  <2>q. QED BY <2>1, <2>2
<1>2. CountsOK'
  BY ScriptIs DEF IInv, TypeOK, CountsOK, Reconnect, Failed, Fault, NoFault, restVars,
     history
<1>3. MessagesOK'
  BY DEF IInv, TypeOK, StatesOK, MessagesOK, Reconnect, Failed, Fault, NoFault, restVars,
     history
<1>4. Sheltered' /\ Standing'
  BY DEF IInv, Sheltered, Standing, TypeOK, StatesOK, Talking, Reconnect, Failed, Fault,
     NoFault, restVars, history
<1>5. Marked'
  BY DEF IInv, Marked, Sheltered, Standing, TypeOK, MessagesOK, Awaiting, Reconnect, Failed,
     Fault, NoFault, restVars, history
<1>6. Agreed'
  BY ScriptIs DEF IInv, Agreed, Marked, Standing, TypeOK, CountsOK, MessagesOK,
     AcceptedBelow, Talking, Awaiting, Kind, Reconnect, Failed, Fault, NoFault, restVars,
     history
<1>q. QED BY <1>1, <1>2, <1>3, <1>4, <1>5, <1>6 DEF IInv, TypeOK

LEMMA CloseBeginsStep == IInv /\ CloseBegins => IInv'
<1> SUFFICES ASSUME IInv, CloseBegins PROVE IInv'
  OBVIOUS
<1>1. StatesOK' /\ FlagsOK'
  <2>1. StatesOK'
    BY DEF IInv, TypeOK, StatesOK, Places, CloseBegins, restVars, history
  <2>2. FlagsOK'
    BY DEF IInv, TypeOK, FlagsOK, CloseBegins, restVars, history
  <2>q. QED BY <2>1, <2>2
<1>2. CountsOK'
  BY ScriptIs DEF IInv, TypeOK, CountsOK, CloseBegins, restVars, history
<1>3. MessagesOK'
  BY DEF IInv, TypeOK, StatesOK, MessagesOK, CloseBegins, restVars, history
<1>4. Sheltered' /\ Standing'
  BY DEF IInv, Sheltered, Standing, TypeOK, StatesOK, Talking, CloseBegins, restVars,
     history
<1>5. Marked'
  BY DEF IInv, Marked, Sheltered, Standing, TypeOK, MessagesOK, Awaiting, CloseBegins,
     restVars, history
<1>6. Agreed'
  BY ScriptIs DEF IInv, Agreed, Marked, Standing, TypeOK, CountsOK, MessagesOK,
     AcceptedBelow, Talking, Awaiting, Kind, CloseBegins, restVars, history
<1>q. QED BY <1>1, <1>2, <1>3, <1>4, <1>5, <1>6 DEF IInv, TypeOK

LEMMA CloseEndsStep == IInv /\ CloseEnds => IInv'
<1> SUFFICES ASSUME IInv, CloseEnds PROVE IInv'
  OBVIOUS
<1>1. StatesOK' /\ FlagsOK'
  <2>1. StatesOK'
    BY DEF IInv, TypeOK, StatesOK, Places, CloseEnds, restVars, history
  <2>2. FlagsOK'
    BY DEF IInv, TypeOK, FlagsOK, CloseEnds, restVars, history
  <2>q. QED BY <2>1, <2>2
<1>2. CountsOK'
  BY ScriptIs DEF IInv, TypeOK, CountsOK, CloseEnds, restVars, history
<1>3. MessagesOK'
  BY DEF IInv, TypeOK, StatesOK, MessagesOK, CloseEnds, restVars, history
<1>4. Sheltered' /\ Standing'
  BY DEF IInv, Sheltered, Standing, TypeOK, StatesOK, Talking, CloseEnds, restVars, history
<1>5. Marked'
  BY DEF IInv, Marked, Sheltered, Standing, TypeOK, MessagesOK, Awaiting, CloseEnds,
     restVars, history
<1>6. Agreed'
  BY ScriptIs DEF IInv, Agreed, Marked, Standing, TypeOK, CountsOK, MessagesOK,
     AcceptedBelow, Talking, Awaiting, Kind, CloseEnds, restVars, history
<1>q. QED BY <1>1, <1>2, <1>3, <1>4, <1>5, <1>6 DEF IInv, TypeOK

LEMMA LeaveStep == IInv /\ Leave => IInv'
<1> SUFFICES ASSUME IInv, Leave PROVE IInv'
  OBVIOUS
<1>1. StatesOK' /\ FlagsOK'
  <2>1. StatesOK'
    BY DEF IInv, TypeOK, StatesOK, Places, Leave, rxVars, history
  <2>2. FlagsOK'
    BY DEF IInv, TypeOK, FlagsOK, Leave, rxVars, history
  <2>q. QED BY <2>1, <2>2
<1>2. CountsOK'
  BY ScriptIs DEF IInv, TypeOK, CountsOK, Leave, rxVars, history
<1>3. MessagesOK'
  BY DEF IInv, TypeOK, StatesOK, MessagesOK, Leave, rxVars, history
<1>4. Sheltered' /\ Standing'
  BY DEF IInv, Sheltered, Standing, TypeOK, StatesOK, Talking, Leave, rxVars, history
<1>5. Marked'
  BY DEF IInv, Marked, Sheltered, Standing, TypeOK, MessagesOK, Awaiting, Leave, rxVars,
     history
<1>6. Agreed'
  BY ScriptIs DEF IInv, Agreed, Marked, Standing, TypeOK, CountsOK, MessagesOK,
     AcceptedBelow, Talking, Awaiting, Kind, Leave, rxVars, history
<1>q. QED BY <1>1, <1>2, <1>3, <1>4, <1>5, <1>6 DEF IInv, TypeOK

-----------------------------------------------------------------------------
(* ... and for each of the others. *)
LEMMA StopStep == IInv /\ Stop => IInv'
<1> SUFFICES ASSUME IInv, Stop PROVE IInv'
  OBVIOUS
<1>1. StatesOK' /\ FlagsOK'
  <2>1. StatesOK'
    BY DEF IInv, TypeOK, StatesOK, Places, Stop, mainVars, rxVars, restVars, history
  <2>2. FlagsOK'
    BY DEF IInv, TypeOK, FlagsOK, Stop, mainVars, rxVars, restVars, history
  <2>q. QED BY <2>1, <2>2
<1>2. CountsOK'
  BY ScriptIs DEF IInv, TypeOK, CountsOK, Stop, mainVars, rxVars, restVars, history
<1>3. MessagesOK'
  BY DEF IInv, TypeOK, StatesOK, MessagesOK, Stop, mainVars, rxVars, restVars, history
<1>4. Sheltered' /\ Standing'
  BY DEF IInv, Sheltered, Standing, TypeOK, StatesOK, Talking, Stop, mainVars, rxVars,
     restVars, history
<1>5. Marked'
  BY DEF IInv, Marked, Sheltered, Standing, TypeOK, MessagesOK, Awaiting, Stop, mainVars,
     rxVars, restVars, history
<1>6. Agreed'
  BY ScriptIs DEF IInv, Agreed, Marked, Standing, TypeOK, CountsOK, MessagesOK,
     AcceptedBelow, Talking, Awaiting, Kind, Stop, mainVars, rxVars, restVars, history
<1>q. QED BY <1>1, <1>2, <1>3, <1>4, <1>5, <1>6 DEF IInv, TypeOK

LEMMA RxCheckStep == IInv /\ RxCheck => IInv'
<1> SUFFICES ASSUME IInv, RxCheck PROVE IInv'
  OBVIOUS
<1>1. StatesOK' /\ FlagsOK'
  <2>1. StatesOK'
    BY DEF IInv, TypeOK, StatesOK, Places, RxCheck, mainVars, restVars, history
  <2>2. FlagsOK'
    BY DEF IInv, TypeOK, FlagsOK, RxCheck, mainVars, restVars, history
  <2>q. QED BY <2>1, <2>2
<1>2. CountsOK'
  BY ScriptIs DEF IInv, TypeOK, CountsOK, RxCheck, mainVars, restVars, history
<1>3. MessagesOK'
  BY DEF IInv, TypeOK, StatesOK, MessagesOK, RxCheck, mainVars, restVars, history
<1>4. Sheltered' /\ Standing'
  BY DEF IInv, Sheltered, Standing, TypeOK, StatesOK, Talking, RxCheck, mainVars, restVars,
     history
<1>5. Marked'
  BY DEF IInv, Marked, Sheltered, Standing, TypeOK, MessagesOK, Awaiting, RxCheck, mainVars,
     restVars, history
<1>6. Agreed'
  BY ScriptIs DEF IInv, Agreed, Marked, Standing, TypeOK, CountsOK, MessagesOK,
     AcceptedBelow, Talking, Awaiting, Kind, RxCheck, mainVars, restVars, history
<1>q. QED BY <1>1, <1>2, <1>3, <1>4, <1>5, <1>6 DEF IInv, TypeOK

LEMMA RxTimesOutStep == IInv /\ RxTimesOut => IInv'
<1> SUFFICES ASSUME IInv, RxTimesOut PROVE IInv'
  OBVIOUS
<1>1. StatesOK' /\ FlagsOK'
  <2>1. StatesOK'
    BY DEF IInv, TypeOK, StatesOK, Places, RxTimesOut, mainVars, restVars, history
  <2>2. FlagsOK'
    BY DEF IInv, TypeOK, FlagsOK, RxTimesOut, mainVars, restVars, history
  <2>q. QED BY <2>1, <2>2
<1>2. CountsOK'
  BY ScriptIs DEF IInv, TypeOK, CountsOK, RxTimesOut, mainVars, restVars, history
<1>3. MessagesOK'
  BY DEF IInv, TypeOK, StatesOK, MessagesOK, RxTimesOut, mainVars, restVars, history
<1>4. Sheltered' /\ Standing'
  BY DEF IInv, Sheltered, Standing, TypeOK, StatesOK, Talking, RxTimesOut, mainVars,
     restVars, history
<1>5. Marked'
  BY DEF IInv, Marked, Sheltered, Standing, TypeOK, MessagesOK, Awaiting, RxTimesOut,
     mainVars, restVars, history
<1>6. Agreed'
  BY ScriptIs DEF IInv, Agreed, Marked, Standing, TypeOK, CountsOK, MessagesOK,
     AcceptedBelow, Talking, Awaiting, Kind, RxTimesOut, mainVars, restVars, history
<1>q. QED BY <1>1, <1>2, <1>3, <1>4, <1>5, <1>6 DEF IInv, TypeOK

LEMMA RxReceivesStep == IInv /\ RxReceives => IInv'
<1> SUFFICES ASSUME IInv, RxReceives PROVE IInv'
  OBVIOUS
<1>1. StatesOK' /\ FlagsOK'
  <2>1. StatesOK'
    BY DEF IInv, TypeOK, StatesOK, Places, RxReceives, Fault, NoFault, mainVars, restVars
  <2>2. FlagsOK'
    BY DEF IInv, TypeOK, FlagsOK, RxReceives, Fault, NoFault, mainVars, restVars
  <2>q. QED BY <2>1, <2>2
<1>2. CountsOK'
  <2>1. Head(pending) \in Asked
    BY TailOfPending DEF IInv, RxReceives
  <2>2. accepted' \subseteq DOMAIN Script
    BY <2>1 DEF IInv, TypeOK, CountsOK, RxReceives, Asked
  <2>q. QED BY <2>2 DEF IInv, TypeOK, CountsOK, RxReceives, Fault, NoFault, mainVars
<1>3. MessagesOK'
  <2>1. Head(pending) \in Asked /\ Tail(pending) \in Seq(Asked)
    BY TailOfPending DEF IInv, RxReceives
  <2>2. PICK refused \in BOOLEAN :
           rxMsg' = << [cmd |-> Head(pending).cmd, old |-> Head(pending).old, busy |-> refused] >>
    BY DEF RxReceives
  <2>3. [cmd |-> Head(pending).cmd, old |-> Head(pending).old, busy |-> refused] \in Answers
    BY <2>1 DEF Asked, Answers
  <2>4. rxMsg' \in Seq(Answers) /\ Len(rxMsg') = 1
    BY <2>2, <2>3
  <2>q. QED BY <2>1, <2>4 DEF MessagesOK, RxReceives
<1>4. Sheltered' /\ Standing'
  BY DEF IInv, Sheltered, Standing, TypeOK, StatesOK, Talking, RxReceives, Fault, NoFault,
     mainVars, restVars
<1>5. Marked'
  <2>1. /\ 1 \in DOMAIN pending /\ Head(pending) = pending[1]
        /\ \A k \in DOMAIN Tail(pending) : /\ k + 1 \in DOMAIN pending
                                           /\ Tail(pending)[k] = pending[k + 1]
    BY TailOfPending DEF IInv, RxReceives
  <2>2. PICK refused \in BOOLEAN :
           /\ rxMsg' = << [cmd |-> Head(pending).cmd, old |-> Head(pending).old, busy |-> refused] >>
           /\ accepted' = IF Head(pending).old \/ refused THEN accepted
                          ELSE accepted \cup {Head(pending).cmd}
    BY DEF RxReceives
  <2>3. \A k \in DOMAIN rxMsg' : /\ rxMsg'[k].cmd = Head(pending).cmd
                                  /\ rxMsg'[k].old = Head(pending).old
                                  /\ rxMsg'[k].busy = refused
    BY <2>2
  <2>4. pending' = Tail(pending) /\ UNCHANGED <<pc, cmd>>
    BY DEF RxReceives, mainVars
  <2>q. QED BY <2>1, <2>2, <2>3, <2>4 DEF IInv, Marked, Awaiting
<1>6. Agreed'
  BY ScriptIs DEF IInv, Agreed, Marked, Standing, TypeOK, CountsOK, MessagesOK,
     AcceptedBelow, Talking, Awaiting, Kind, RxReceives, Fault, NoFault, mainVars, restVars
<1>q. QED BY <1>1, <1>2, <1>3, <1>4, <1>5, <1>6 DEF IInv, TypeOK

LEMMA RxPublishesStep == IInv /\ RxPublishes => IInv'
<1> SUFFICES ASSUME IInv, RxPublishes PROVE IInv'
  OBVIOUS
<1>1. StatesOK' /\ FlagsOK'
  <2>a. TypeOK /\ rx = "publish"
    BY DEF IInv, RxPublishes
  <2>1. 1 \in DOMAIN rxMsg /\ Head(rxMsg) = rxMsg[1] /\ Head(rxMsg) \in Answers
    BY <2>a, HeadOfAnswers
  <2>2. StatesOK'
    BY DEF IInv, TypeOK, StatesOK, RxPublishes, mainVars, restVars
  <2>3. Head(rxMsg).busy \in BOOLEAN
    BY <2>1 DEF Answers
  <2>4. busy' \in BOOLEAN
    BY <2>3 DEF IInv, TypeOK, FlagsOK, RxPublishes
  <2>5. misread' \in BOOLEAN
    BY Zenon DEF RxPublishes
  <2>q. QED BY <2>2, <2>4, <2>5 DEF IInv, TypeOK, FlagsOK, RxPublishes, restVars
<1>2. CountsOK'
  <2>a. TypeOK /\ rx = "publish"
    BY DEF IInv, RxPublishes
  <2>1. 1 \in DOMAIN rxMsg /\ Head(rxMsg) = rxMsg[1] /\ Head(rxMsg) \in Answers
    BY <2>a, HeadOfAnswers
  <2>2. Script[Head(rxMsg).cmd] \in Kinds
    BY <2>1, ScriptIs DEF Answers
  <2>q. QED BY <2>2 DEF IInv, TypeOK, CountsOK, RxPublishes, mainVars
<1>3. MessagesOK'
  BY DEF IInv, TypeOK, StatesOK, MessagesOK, RxPublishes, mainVars, restVars
<1>4. Sheltered' /\ Standing'
  BY DEF IInv, Sheltered, Standing, TypeOK, StatesOK, Talking, RxPublishes, mainVars,
     restVars
<1>5. Marked'
  BY DEF IInv, Marked, Sheltered, Standing, TypeOK, MessagesOK, Awaiting, RxPublishes,
     mainVars, restVars
<1>6. Agreed'
  <2>a. TypeOK /\ rx = "publish"
    BY DEF IInv, RxPublishes
  <2>1. 1 \in DOMAIN rxMsg /\ Head(rxMsg) = rxMsg[1] /\ Head(rxMsg) \in Answers
    BY <2>a, HeadOfAnswers
  <2>2. /\ fresh' = fresh \cup {Script[Head(rxMsg).cmd]}
        /\ busy' = IF Script[Head(rxMsg).cmd] = "mode" THEN Head(rxMsg).busy ELSE busy
        /\ misread' = (misread \/ (Awaiting /\ Head(rxMsg).old /\ Script[Head(rxMsg).cmd] = Kind))
        /\ UNCHANGED <<pc, how, cmd, accepted>>
    BY DEF RxPublishes, mainVars
  <2>3. \/ Head(rxMsg).old
        \/ /\ Awaiting => Head(rxMsg).cmd = cmd
           /\ Head(rxMsg).busy \/ Head(rxMsg).cmd \in accepted
    BY <2>1 DEF IInv, Marked
  <2>4. ASSUME ~misread', Awaiting, Kind = "mode", "mode" \in fresh', ~busy' PROVE cmd \in accepted
    <3>1. CASE Script[Head(rxMsg).cmd] = "mode"
      BY <2>2, <2>3, <2>4, <3>1
    <3>2. CASE Script[Head(rxMsg).cmd] # "mode"
      BY <2>2, <2>4, <3>2 DEF IInv, Agreed
    <3>q. QED BY <3>1, <3>2, Zenon
  <2>5. misread => misread'
    BY <2>2
  <2>q. QED BY <2>2, <2>4, <2>5 DEF IInv, Agreed, AcceptedBelow, Awaiting, Kind
<1>q. QED BY <1>1, <1>2, <1>3, <1>4, <1>5, <1>6 DEF IInv, TypeOK

LEMMA RxFailsStep == IInv /\ RxFails => IInv'
<1> SUFFICES ASSUME IInv, RxFails PROVE IInv'
  OBVIOUS
<1>1. StatesOK' /\ FlagsOK'
  <2>1. StatesOK'
    BY DEF IInv, TypeOK, StatesOK, Places, RxFails, Fault, mainVars, restVars, history
  <2>2. FlagsOK'
    BY DEF IInv, TypeOK, FlagsOK, RxFails, Fault, mainVars, restVars, history
  <2>q. QED BY <2>1, <2>2
<1>2. CountsOK'
  BY ScriptIs DEF IInv, TypeOK, CountsOK, RxFails, Fault, mainVars, restVars, history
<1>3. MessagesOK'
  BY DEF IInv, TypeOK, StatesOK, MessagesOK, RxFails, Fault, mainVars, restVars, history
<1>4. Sheltered' /\ Standing'
  BY DEF IInv, Sheltered, Standing, TypeOK, StatesOK, Talking, RxFails, Fault, mainVars,
     restVars, history
<1>5. Marked'
  BY DEF IInv, Marked, Sheltered, Standing, TypeOK, MessagesOK, Awaiting, RxFails, Fault,
     mainVars, restVars, history
<1>6. Agreed'
  BY ScriptIs DEF IInv, Agreed, Marked, Standing, TypeOK, CountsOK, MessagesOK,
     AcceptedBelow, Talking, Awaiting, Kind, RxFails, Fault, mainVars, restVars, history
<1>q. QED BY <1>1, <1>2, <1>3, <1>4, <1>5, <1>6 DEF IInv, TypeOK

LEMMA RxReportsStep == IInv /\ RxReports => IInv'
<1> SUFFICES ASSUME IInv, RxReports PROVE IInv'
  OBVIOUS
<1>1. StatesOK' /\ FlagsOK'
  <2>1. StatesOK'
    BY DEF IInv, TypeOK, StatesOK, Places, RxReports, mainVars, restVars, history
  <2>2. FlagsOK'
    BY DEF IInv, TypeOK, FlagsOK, RxReports, mainVars, restVars, history
  <2>q. QED BY <2>1, <2>2
<1>2. CountsOK'
  BY ScriptIs DEF IInv, TypeOK, CountsOK, RxReports, mainVars, restVars, history
<1>3. MessagesOK'
  BY DEF IInv, TypeOK, StatesOK, MessagesOK, RxReports, mainVars, restVars, history
<1>4. Sheltered' /\ Standing'
  BY DEF IInv, Sheltered, Standing, TypeOK, StatesOK, Talking, RxReports, mainVars,
     restVars, history
<1>5. Marked'
  BY DEF IInv, Marked, Sheltered, Standing, TypeOK, MessagesOK, Awaiting, RxReports,
     mainVars, restVars, history
<1>6. Agreed'
  BY ScriptIs DEF IInv, Agreed, Marked, Standing, TypeOK, CountsOK, MessagesOK,
     AcceptedBelow, Talking, Awaiting, Kind, RxReports, mainVars, restVars, history
<1>q. QED BY <1>1, <1>2, <1>3, <1>4, <1>5, <1>6 DEF IInv, TypeOK

LEMMA AnswerLostStep == IInv /\ AnswerLost => IInv'
<1> SUFFICES ASSUME IInv, AnswerLost PROVE IInv'
  OBVIOUS
<1>1. StatesOK' /\ FlagsOK'
  <2>1. StatesOK'
    BY DEF IInv, TypeOK, StatesOK, Places, AnswerLost, Fault, mainVars, rxVars, restVars,
       history
  <2>2. FlagsOK'
    BY DEF IInv, TypeOK, FlagsOK, AnswerLost, Fault, mainVars, rxVars, restVars, history
  <2>q. QED BY <2>1, <2>2
<1>2. CountsOK'
  BY ScriptIs DEF IInv, TypeOK, CountsOK, AnswerLost, Fault, mainVars, rxVars, restVars,
     history
<1>3. MessagesOK'
  <2>1. Tail(pending) \in Seq(Asked)
    BY TailOfPending DEF IInv, AnswerLost
  <2>q. QED BY <2>1 DEF IInv, TypeOK, MessagesOK, AnswerLost, rxVars
<1>4. Sheltered' /\ Standing'
  BY DEF IInv, Sheltered, Standing, TypeOK, StatesOK, Talking, AnswerLost, Fault, mainVars,
     rxVars, restVars, history
<1>5. Marked'
  <2>1. \A k \in DOMAIN Tail(pending) : /\ k + 1 \in DOMAIN pending
                                        /\ Tail(pending)[k] = pending[k + 1]
    BY TailOfPending DEF IInv, AnswerLost
  <2>q. QED BY <2>1 DEF IInv, Marked, Awaiting, AnswerLost, mainVars, rxVars, history
<1>6. Agreed'
  BY ScriptIs DEF IInv, Agreed, Marked, Standing, TypeOK, CountsOK, MessagesOK,
     AcceptedBelow, Talking, Awaiting, Kind, AnswerLost, Fault, mainVars, rxVars, restVars,
     history
<1>q. QED BY <1>1, <1>2, <1>3, <1>4, <1>5, <1>6 DEF IInv, TypeOK

LEMMA HeartWakesStep == IInv /\ HeartWakes => IInv'
<1> SUFFICES ASSUME IInv, HeartWakes PROVE IInv'
  OBVIOUS
<1>1. StatesOK' /\ FlagsOK'
  <2>1. StatesOK'
    BY DEF IInv, TypeOK, StatesOK, Places, HeartWakes, mainVars, rxVars, history
  <2>2. FlagsOK'
    BY DEF IInv, TypeOK, FlagsOK, HeartWakes, mainVars, rxVars, history
  <2>q. QED BY <2>1, <2>2
<1>2. CountsOK'
  BY ScriptIs DEF IInv, TypeOK, CountsOK, HeartWakes, mainVars, rxVars, history
<1>3. MessagesOK'
  BY DEF IInv, TypeOK, StatesOK, MessagesOK, HeartWakes, mainVars, rxVars, history
<1>4. Sheltered' /\ Standing'
  BY DEF IInv, Sheltered, Standing, TypeOK, StatesOK, Talking, HeartWakes, mainVars, rxVars,
     history
<1>5. Marked'
  BY DEF IInv, Marked, Sheltered, Standing, TypeOK, MessagesOK, Awaiting, HeartWakes,
     mainVars, rxVars, history
<1>6. Agreed'
  BY ScriptIs DEF IInv, Agreed, Marked, Standing, TypeOK, CountsOK, MessagesOK,
     AcceptedBelow, Talking, Awaiting, Kind, HeartWakes, mainVars, rxVars, history
<1>q. QED BY <1>1, <1>2, <1>3, <1>4, <1>5, <1>6 DEF IInv, TypeOK

LEMMA HeartPostsStep == IInv /\ HeartPosts => IInv'
<1> SUFFICES ASSUME IInv, HeartPosts PROVE IInv'
  OBVIOUS
<1>1. StatesOK' /\ FlagsOK'
  <2>1. StatesOK'
    BY DEF IInv, TypeOK, StatesOK, Places, HeartPosts, mainVars, rxVars, history
  <2>2. FlagsOK'
    BY DEF IInv, TypeOK, FlagsOK, HeartPosts, mainVars, rxVars, history
  <2>q. QED BY <2>1, <2>2
<1>2. CountsOK'
  BY ScriptIs DEF IInv, TypeOK, CountsOK, HeartPosts, mainVars, rxVars, history
<1>3. MessagesOK'
  BY DEF IInv, TypeOK, StatesOK, MessagesOK, HeartPosts, mainVars, rxVars, history
<1>4. Sheltered' /\ Standing'
  BY DEF IInv, Sheltered, Standing, TypeOK, StatesOK, Talking, HeartPosts, mainVars, rxVars,
     history
<1>5. Marked'
  BY DEF IInv, Marked, Sheltered, Standing, TypeOK, MessagesOK, Awaiting, HeartPosts,
     mainVars, rxVars, history
<1>6. Agreed'
  BY ScriptIs DEF IInv, Agreed, Marked, Standing, TypeOK, CountsOK, MessagesOK,
     AcceptedBelow, Talking, Awaiting, Kind, HeartPosts, mainVars, rxVars, history
<1>q. QED BY <1>1, <1>2, <1>3, <1>4, <1>5, <1>6 DEF IInv, TypeOK

-----------------------------------------------------------------------------
LEMMA NextIInv == IInv /\ [Next]_vars => IInv'
<1> SUFFICES ASSUME IInv, [Next]_vars PROVE IInv'
  OBVIOUS
<1>1. CASE Main
  BY <1>1, OpenStep, StartIoStep, StartHeartStep, StartEvdiStep, SnapshotStep, SubmitStep,
     WaitAnsweredStep, WaitSleepsStep, WaitWakesStep, WaitTimesOutStep, TakeRxErrorStep,
     StreamFailsStep, StreamEndsStep, AttemptStartsStep, RecoveryStopsStep, HeartJoinedStep,
     ReconnectStep, CloseBeginsStep, CloseEndsStep, LeaveStep DEF Main
<1>2. CASE Stop \/ Receiver \/ AnswerLost \/ Heart
  BY <1>2, StopStep, RxCheckStep, RxTimesOutStep, RxReceivesStep, RxPublishesStep,
     RxFailsStep, RxReportsStep, AnswerLostStep, HeartWakesStep, HeartPostsStep
  DEF Receiver, Heart
<1>3. CASE UNCHANGED vars
  <2>1. UNCHANGED <<pc, how, cmd, try, stop, usb, tx, rx, rxMsg, stopRx, rxError, fresh, busy,
                    heart, hstop, evdiUsb, pending, accepted, misread, faults>>
    BY <1>3 DEF vars, mainVars, rxVars, restVars, history
  <2>2. TypeOK'
    BY <2>1 DEF IInv, TypeOK, StatesOK, FlagsOK, CountsOK, MessagesOK
  <2>3. Sheltered' /\ Standing'
    BY <2>1 DEF IInv, Sheltered, Standing
  <2>4. Marked' /\ Agreed'
    BY <2>1 DEF IInv, Marked, Agreed, Awaiting, AcceptedBelow, Kind
  <2>q. QED BY <2>2, <2>3, <2>4 DEF IInv
<1>q. QED BY <1>1, <1>2, <1>3 DEF Next, Finished

LEMMA AlwaysIInv == Spec => []IInv
<1>1. Init => IInv
  BY InitIInv
<1>2. IInv /\ [Next]_vars => IInv'
  BY NextIInv
<1>q. QED BY <1>1, <1>2, PTL DEF Spec

(* Whichever call of whichever attempt fails, the receiver, the heartbeat and the
   holders of the usb pointer use what is open, and nothing is left when the program
   ends (usb.c:247-294, main.c:894-938, 1418-1421). *)
THEOREM SessionResources == Spec => []ResourcesInOrder
<1>1. IInv => ResourcesInOrder
  BY DEF IInv, ResourcesInOrder, NothingClosedInUse, EverythingReleased, Sheltered, Standing
<1>q. QED BY <1>1, AlwaysIInv, PTL

(* Whatever path built the session, frames are sent in a whole one, and a receiver
   that has ended has left its error (usb.c:219-224, main.c:1184-1195). *)
THEOREM SessionWhole == Spec => []StreamsInWholeSession
<1>1. IInv => StreamsInWholeSession
  BY DEF IInv, StreamsInWholeSession, Sheltered, Standing
<1>q. QED BY <1>1, AlwaysIInv, PTL

(* For every script, any number of tries and lost or late answers: when frames are
   sent, the adapter has accepted the latest try of every mode command, or an answer
   to an earlier one was misread (usb.c:400-444). *)
THEOREM SessionModes == Spec => []ModesAcceptedUnlessMisread
<1>1. IInv => ModesAcceptedUnlessMisread
  <2> SUFFICES ASSUME IInv, pc = "stream", ~misread, NEW i \in DOMAIN Script, Script[i] = "mode"
               PROVE  i \in accepted
    BY DEF ModesAcceptedUnlessMisread
  <2>q. QED BY ScriptIs DEF IInv, Agreed, AcceptedBelow
<1>q. QED BY <1>1, AlwaysIInv, PTL
=============================================================================
