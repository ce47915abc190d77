-------------------------- MODULE FrameLoopProofs ---------------------------
(* For every set of streams and pictures, every range of indexes and any number of
   mode changes, DPMS events and faults: the adapter gets the frames of a stream
   in order, and no note between the threads is lost.

   The argument: a frame is submitted only when the one before has arrived, so that
   of a stream at most one packet is on its way, under the index that follows the
   last one shown.  And what a panel shows or is about to show is what the
   framebuffer of its stream holds, or a note that says otherwise is somewhere
   between the stream's thread and the submission. *)
EXTENDS FrameLoop, FiniteSetTheorems, SequenceTheorems, TLAPS

(* The frame between its plan and its submission. *)
Staged ==
    /\ pc \in {"consumeBlank", "consumeDirty", "decide", "idle", "jitBlank", "jitDirty", "plan"}
          => plan = NoPlan /\ DOMAIN built = {}
    /\ pc \in {"build", "lateBlank", "lateDirty", "submit"}
          => dirty \subseteq plan.send /\ plan.black \subseteq blank
    /\ pc \in {"lateBlank", "lateDirty", "submit"} => DOMAIN built = plan.send
    /\ pc \in {"lateBlank", "lateDirty", "submit"} \/ late => inflight = << >> /\ ~failed

NextOf(i) == IF i = 0 THEN 2 ELSE i + 1

OnTheWay(s) == \E k \in DOMAIN inflight : inflight[k].stream = s

(* The counters, the packets built and on their way, and the last frame shown. *)
Counted ==
    /\ \A s \in DOMAIN built : built[s].stream = s /\ built[s].seq = seq[s]
    /\ \A k \in DOMAIN inflight :
          LET p == inflight[k] IN p.seq # 0 /\ p.seq = NextOf(lastIndex[p.stream])
    /\ ~failed => /\ \A k \in DOMAIN inflight :
                        seq[inflight[k].stream] = (inflight[k].seq + 1) % IndexMod
                  /\ \A s \in Streams :
                        OnTheWay(s) \/ seq[s] = NextOf(lastIndex[s]) % IndexMod
    /\ pc # "recover" => \A s \in Streams : seq[s] # 0

(* The hash is that of the framebuffer, and the framebuffer is behind the desktop
   only with an update to come. *)
Hashed(s) == hash[s] # NoBuffer => fb[s] = hash[s]
Grabbed(s) == damage[s] \/ fb[s] = desk[s]

(* What the panel of s will show when all that was submitted has arrived. *)
Latest(s, pict) == /\ \A k \in DOMAIN inflight : inflight[k].stream = s => inflight[k].pict = pict
                   /\ OnTheWay(s) \/ panel[s] = pict

(* The thread of s has something to tell, or has told it. *)
Telling(s) == at[s] \in {"publish", "dpms", "dpmsNote"} \/ s \in dirtyTiles

Broken == failed \/ pc = "recover"

(* While the display is on, its framebuffer is what its panel shows and what is
   built for it, or the difference is noted. *)
OnNoted(s) == on[s] => \/ fb[s] = NoBuffer \/ Telling(s) \/ s \in dirty \cup ghost
                       \/ Latest(s, fb[s]) \/ Broken

BuiltNoted(s) ==
    s \in DOMAIN built => IF s \in plan.black THEN built[s].pict = Black
                          ELSE on[s] => built[s].pict = fb[s] \/ Telling(s)

(* While it is off, its panel is black, or the note to blank it is on its way. *)
OffNoted(s) ==
    ~on[s] => \/ at[s] \in {"dpms", "dpmsNote"} /\ old[s]
              \/ s \in blankTiles \cup blank \cup recovered
              \/ s \notin dirty \cup plan.send /\ Latest(s, Black)
              \/ Broken

IInv == /\ TypeOK /\ Staged /\ Counted
        /\ \A s \in Streams : /\ Hashed(s) /\ Grabbed(s) /\ OnNoted(s)
                              /\ BuiltNoted(s) /\ OffNoted(s)

USE FrameLoopAssumption

-----------------------------------------------------------------------------
LEMMA InitIInv == Init => IInv
<1> SUFFICES ASSUME Init PROVE IInv
  OBVIOUS
<1>1. /\ inflight = << >> /\ DOMAIN inflight = {} /\ inflight \in Seq(Packets)
      /\ built = << >> /\ DOMAIN built = {} /\ plan = NoPlan
  BY DEF Init
<1>2. TypeOK
  <2>1. damage \in [Streams -> BOOLEAN] /\ asked \in [Streams -> BOOLEAN]
    BY DEF Init
  <2>2. on \in [Streams -> BOOLEAN] /\ old \in [Streams -> BOOLEAN]
    BY DEF Init
  <2>3. requested \in [Streams -> BOOLEAN] /\ late \in BOOLEAN /\ failed \in BOOLEAN
    BY DEF Init
  <2>4. seq \in [Streams -> 0 .. IndexMod - 1] /\ lastIndex \in [Streams -> 0 .. IndexMod - 1]
    BY DEF Init
  <2>5. plan \in [send : SUBSET Streams, black : SUBSET Streams] /\ plan.black \subseteq plan.send
    BY <1>1 DEF NoPlan
  <2>6. /\ fb \in [Streams -> Frames \cup {NoBuffer}] /\ hash \in [Streams -> Pictures \cup {NoBuffer}]
        /\ at \in [Streams -> Places] /\ pc \in Steps /\ panel \in [Streams -> Frames \cup {Unknown}]
    BY DEF Init, Places, Steps
  <2>7. /\ dirtyTiles = {} /\ blankTiles = {} /\ dirty = Streams /\ blank = {}
        /\ ghost = {} /\ recovered = {} /\ desk \in [Streams -> Pictures]
    BY DEF Init
  <2>q. QED BY <1>1, <2>1, <2>2, <2>3, <2>4, <2>5, <2>6, <2>7 DEF TypeOK
<1>3. Staged
  BY <1>1 DEF Init, Staged
<1>4. Counted
  <2>1. \A s \in Streams : seq[s] = 2 /\ lastIndex[s] = 0
    BY DEF Init
  <2>2. NextOf(0) % IndexMod = 2
    BY DEF NextOf
  <2>q. QED BY <1>1, <2>1, <2>2 DEF Counted
<1>5. ASSUME NEW s \in Streams
      PROVE  Hashed(s) /\ Grabbed(s) /\ OnNoted(s) /\ BuiltNoted(s) /\ OffNoted(s)
  BY <1>1 DEF Init, Hashed, Grabbed, OnNoted, BuiltNoted, OffNoted
<1>q. QED BY <1>2, <1>3, <1>4, <1>5 DEF IInv

-----------------------------------------------------------------------------
(* A stream that a step of another one leaves as it is. *)
Same(t) == /\ desk'[t] = desk[t] /\ damage'[t] = damage[t]
           /\ fb'[t] = fb[t] /\ hash'[t] = hash[t] /\ on'[t] = on[t] /\ old'[t] = old[t]
           /\ at'[t] = at[t]
           /\ (t \in dirtyTiles' <=> t \in dirtyTiles)
           /\ (t \in blankTiles' <=> t \in blankTiles)
           /\ (t \in recovered' <=> t \in recovered)

(* The step of a stream's thread, or an event at its display: nothing changes for
   the main thread and on the wire. *)
LEMMA EvdiStep ==
    ASSUME IInv, NEW s \in Streams, UNCHANGED <<pc, localVars, mainVars, wireVars, ghost>>,
           desk' \in [Streams -> Pictures],
           damage' \in [Streams -> BOOLEAN], asked' \in [Streams -> BOOLEAN],
           fb' \in [Streams -> Frames \cup {NoBuffer}],
           hash' \in [Streams -> Pictures \cup {NoBuffer}],
           on' \in [Streams -> BOOLEAN], old' \in [Streams -> BOOLEAN],
           requested' \in [Streams -> BOOLEAN], at' \in [Streams -> Places],
           dirtyTiles' \subseteq Streams, blankTiles' \subseteq Streams,
           recovered' \subseteq Streams,
           \A t \in Streams \ {s} : Same(t),
           Hashed(s)', Grabbed(s)', OnNoted(s)', BuiltNoted(s)', OffNoted(s)'
    PROVE  IInv'
<1>1. UNCHANGED <<pc, dirty, blank, plan, late, built, seq, inflight, failed, panel,
                  lastIndex, ghost>>
  BY DEF localVars, mainVars, wireVars
<1>2. TypeOK'
  BY <1>1 DEF IInv, TypeOK
<1>3. Staged' /\ Counted'
  BY <1>1 DEF IInv, Staged, Counted, OnTheWay
<1>4. ASSUME NEW t \in Streams
      PROVE  Hashed(t)' /\ Grabbed(t)' /\ OnNoted(t)' /\ BuiltNoted(t)' /\ OffNoted(t)'
  <2>1. CASE t = s
    BY <2>1
  <2>2. CASE t # s
    <3>1. Same(t) /\ Hashed(t) /\ Grabbed(t) /\ OnNoted(t) /\ BuiltNoted(t) /\ OffNoted(t)
      BY <2>2 DEF IInv
    <3>2. Hashed(t)' /\ Grabbed(t)'
      BY <3>1 DEF Same, Hashed, Grabbed
    <3>3. OnNoted(t)'
      BY <1>1, <3>1 DEF Same, OnNoted, Telling, Latest, OnTheWay, Broken
    <3>4. BuiltNoted(t)'
      BY <1>1, <3>1 DEF Same, BuiltNoted, Telling
    <3>5. OffNoted(t)'
      BY <1>1, <3>1 DEF Same, OffNoted, Latest, OnTheWay, Broken
    <3>q. QED BY <3>2, <3>3, <3>4, <3>5
  <2>q. QED BY <2>1, <2>2
<1>q. QED BY <1>2, <1>3, <1>4 DEF IInv

LEMMA StreamStep ==
    ASSUME IInv, NEW s \in Streams, Events(s) \/ Evdi(s)
    PROVE  IInv'
<1>1. TypeOK /\ Hashed(s) /\ Grabbed(s) /\ OnNoted(s) /\ BuiltNoted(s) /\ OffNoted(s)
  BY DEF IInv
<1>2. /\ desk \in [Streams -> Pictures]
      /\ damage \in [Streams -> BOOLEAN] /\ asked \in [Streams -> BOOLEAN]
      /\ fb \in [Streams -> Frames \cup {NoBuffer}]
      /\ hash \in [Streams -> Pictures \cup {NoBuffer}]
      /\ on \in [Streams -> BOOLEAN] /\ old \in [Streams -> BOOLEAN]
      /\ requested \in [Streams -> BOOLEAN] /\ at \in [Streams -> Places]
      /\ dirtyTiles \subseteq Streams /\ blankTiles \subseteq Streams
      /\ recovered \subseteq Streams
  BY <1>1 DEF TypeOK
<1>3. CASE Draw(s)
  <2>1. UNCHANGED <<pc, localVars, mainVars, wireVars, ghost>>
    BY <1>3 DEF Draw, histVars
  <2>2. UNCHANGED <<pc, dirty, blank, plan, built, inflight, failed, panel>>
    BY <2>1 DEF localVars, mainVars, wireVars
  <2>3. \A t \in Streams \ {s} : Same(t)
    BY <1>2, <1>3 DEF Draw, Same, Set, Clear, kernelVars, streamVars, noteVars, histVars
  <2>4. Hashed(s)' /\ Grabbed(s)'
    BY <1>1, <1>2, <1>3 DEF Draw, Hashed, Grabbed, Set, Clear, kernelVars, streamVars
  <2>5. OnNoted(s)'
    BY <1>1, <1>2, <1>3, <2>2
    DEF Draw, OnNoted, Telling, Latest, OnTheWay, Broken, Hashed, Set, Clear,
        kernelVars, streamVars, noteVars, histVars
  <2>6. BuiltNoted(s)'
    BY <1>1, <1>2, <1>3, <2>2
    DEF Draw, BuiltNoted, Telling, Hashed, Set, Clear, kernelVars, streamVars, noteVars
  <2>7. OffNoted(s)'
    BY <1>1, <1>2, <1>3, <2>2
    DEF Draw, OffNoted, Latest, OnTheWay, Broken, Set, Clear,
        kernelVars, streamVars, noteVars, histVars
  <2>q. QED
    BY <1>2, <1>3, <2>1, <2>3, <2>4, <2>5, <2>6, <2>7, EvdiStep
    DEF Draw, Set, Clear, kernelVars, streamVars, noteVars, histVars, Frames, Places
<1>4. CASE FirstMode(s)
  <2>1. UNCHANGED <<pc, localVars, mainVars, wireVars, ghost>>
    BY <1>4 DEF Mode, FirstMode, histVars
  <2>2. UNCHANGED <<pc, dirty, blank, plan, built, inflight, failed, panel>>
    BY <2>1 DEF localVars, mainVars, wireVars
  <2>3. \A t \in Streams \ {s} : Same(t)
    BY <1>2, <1>4 DEF Mode, FirstMode, Same, Set, Clear, kernelVars, streamVars, noteVars, histVars
  <2>4. Hashed(s)' /\ Grabbed(s)'
    BY <1>1, <1>2, <1>4 DEF Mode, FirstMode, Hashed, Grabbed, Set, Clear, kernelVars, streamVars
  <2>5. OnNoted(s)'
    BY <1>1, <1>2, <1>4, <2>2
    DEF Mode, FirstMode, OnNoted, Telling, Latest, OnTheWay, Broken, Hashed, Set, Clear,
        kernelVars, streamVars, noteVars, histVars
  <2>6. BuiltNoted(s)'
    BY <1>1, <1>2, <1>4, <2>2
    DEF Mode, FirstMode, BuiltNoted, Telling, Hashed, Set, Clear, kernelVars, streamVars, noteVars
  <2>7. OffNoted(s)'
    BY <1>1, <1>2, <1>4, <2>2
    DEF Mode, FirstMode, OffNoted, Latest, OnTheWay, Broken, Set, Clear,
        kernelVars, streamVars, noteVars, histVars
  <2>q. QED
    BY <1>2, <1>4, <2>1, <2>3, <2>4, <2>5, <2>6, <2>7, EvdiStep
    DEF Mode, FirstMode, Set, Clear, kernelVars, streamVars, noteVars, histVars, Frames, Places
<1>5. CASE NewMode(s)
  <2>1. UNCHANGED <<pc, localVars, mainVars, wireVars, ghost>>
    BY <1>5 DEF Mode, NewMode, histVars
  <2>2. UNCHANGED <<pc, dirty, blank, plan, built, inflight, failed, panel>>
    BY <2>1 DEF localVars, mainVars, wireVars
  <2>3. \A t \in Streams \ {s} : Same(t)
    BY <1>2, <1>5 DEF Mode, NewMode, Same, Set, Clear, kernelVars, streamVars, noteVars, histVars
  <2>4. Hashed(s)' /\ Grabbed(s)'
    BY <1>1, <1>2, <1>5 DEF Mode, NewMode, Hashed, Grabbed, Set, Clear, kernelVars, streamVars
  <2>5. OnNoted(s)'
    BY <1>1, <1>2, <1>5, <2>2
    DEF Mode, NewMode, OnNoted, Telling, Latest, OnTheWay, Broken, Hashed, Set, Clear,
        kernelVars, streamVars, noteVars, histVars
  <2>6. BuiltNoted(s)'
    BY <1>1, <1>2, <1>5, <2>2
    DEF Mode, NewMode, BuiltNoted, Telling, Hashed, Set, Clear, kernelVars, streamVars, noteVars
  <2>7. OffNoted(s)'
    BY <1>1, <1>2, <1>5, <2>2
    DEF Mode, NewMode, OffNoted, Latest, OnTheWay, Broken, Set, Clear,
        kernelVars, streamVars, noteVars, histVars
  <2>q. QED
    BY <1>2, <1>5, <2>1, <2>3, <2>4, <2>5, <2>6, <2>7, EvdiStep
    DEF Mode, NewMode, Set, Clear, kernelVars, streamVars, noteVars, histVars, Frames, Places
<1>6. CASE Request(s)
  <2>1. UNCHANGED <<pc, localVars, mainVars, wireVars, ghost>>
    BY <1>6 DEF Request, histVars
  <2>2. UNCHANGED <<pc, dirty, blank, plan, built, inflight, failed, panel>>
    BY <2>1 DEF localVars, mainVars, wireVars
  <2>3. \A t \in Streams \ {s} : Same(t)
    BY <1>2, <1>6 DEF Request, Same, Set, Clear, kernelVars, streamVars, noteVars, histVars
  <2>4. Hashed(s)' /\ Grabbed(s)'
    BY <1>1, <1>2, <1>6 DEF Request, Hashed, Grabbed, Set, Clear, kernelVars, streamVars
  <2>5. OnNoted(s)'
    BY <1>1, <1>2, <1>6, <2>2
    DEF Request, OnNoted, Telling, Latest, OnTheWay, Broken, Hashed, Set, Clear,
        kernelVars, streamVars, noteVars, histVars
  <2>6. BuiltNoted(s)'
    BY <1>1, <1>2, <1>6, <2>2
    DEF Request, BuiltNoted, Telling, Hashed, Set, Clear, kernelVars, streamVars, noteVars
  <2>7. OffNoted(s)'
    BY <1>1, <1>2, <1>6, <2>2
    DEF Request, OffNoted, Latest, OnTheWay, Broken, Set, Clear,
        kernelVars, streamVars, noteVars, histVars
  <2>8. /\ requested' \in [Streams -> BOOLEAN] /\ asked' \in [Streams -> BOOLEAN]
        /\ at' \in [Streams -> Places]
    BY <1>2, <1>6 DEF Request, Set, Clear, Places, Frames
  <2>q. QED
    BY <1>2, <1>6, <2>1, <2>3, <2>4, <2>5, <2>6, <2>7, <2>8, EvdiStep
    DEF Request, kernelVars, streamVars, noteVars, histVars
<1>7. CASE Announced(s)
  <2>1. UNCHANGED <<pc, localVars, mainVars, wireVars, ghost>>
    BY <1>7 DEF Announced, histVars
  <2>2. UNCHANGED <<pc, dirty, blank, plan, built, inflight, failed, panel>>
    BY <2>1 DEF localVars, mainVars, wireVars
  <2>3. \A t \in Streams \ {s} : Same(t)
    BY <1>2, <1>7 DEF Announced, Same, Set, Clear, kernelVars, streamVars, noteVars, histVars
  <2>4. Hashed(s)' /\ Grabbed(s)'
    BY <1>1, <1>2, <1>7 DEF Announced, Hashed, Grabbed, Set, Clear, kernelVars, streamVars
  <2>5. OnNoted(s)'
    BY <1>1, <1>2, <1>7, <2>2
    DEF Announced, OnNoted, Telling, Latest, OnTheWay, Broken, Hashed, Set, Clear,
        kernelVars, streamVars, noteVars, histVars
  <2>6. BuiltNoted(s)'
    BY <1>1, <1>2, <1>7, <2>2
    DEF Announced, BuiltNoted, Telling, Hashed, Set, Clear, kernelVars, streamVars, noteVars
  <2>7. OffNoted(s)'
    BY <1>1, <1>2, <1>7, <2>2
    DEF Announced, OffNoted, Latest, OnTheWay, Broken, Set, Clear,
        kernelVars, streamVars, noteVars, histVars
  <2>q. QED
    BY <1>2, <1>7, <2>1, <2>3, <2>4, <2>5, <2>6, <2>7, EvdiStep
    DEF Announced, Set, Clear, kernelVars, streamVars, noteVars, histVars, Frames, Places
<1>8. CASE UpdateOff(s)
  <2>1. UNCHANGED <<pc, localVars, mainVars, wireVars, ghost>>
    BY <1>8 DEF UpdateOff, histVars
  <2>2. UNCHANGED <<pc, dirty, blank, plan, built, inflight, failed, panel>>
    BY <2>1 DEF localVars, mainVars, wireVars
  <2>3. \A t \in Streams \ {s} : Same(t)
    BY <1>2, <1>8 DEF UpdateOff, Same, Set, Clear, kernelVars, streamVars, noteVars, histVars
  <2>4. Hashed(s)' /\ Grabbed(s)'
    BY <1>1, <1>2, <1>8 DEF UpdateOff, Hashed, Grabbed, Set, Clear, kernelVars, streamVars
  <2>5. OnNoted(s)'
    BY <1>1, <1>2, <1>8, <2>2
    DEF UpdateOff, OnNoted, Telling, Latest, OnTheWay, Broken, Hashed, Set, Clear,
        kernelVars, streamVars, noteVars, histVars
  <2>6. BuiltNoted(s)'
    BY <1>1, <1>2, <1>8, <2>2
    DEF UpdateOff, BuiltNoted, Telling, Hashed, Set, Clear, kernelVars, streamVars, noteVars
  <2>7. OffNoted(s)'
    BY <1>1, <1>2, <1>8, <2>2
    DEF UpdateOff, OffNoted, Latest, OnTheWay, Broken, Set, Clear,
        kernelVars, streamVars, noteVars, histVars
  <2>q. QED
    BY <1>2, <1>8, <2>1, <2>3, <2>4, <2>5, <2>6, <2>7, EvdiStep
    DEF UpdateOff, Set, Clear, kernelVars, streamVars, noteVars, histVars, Frames, Places
<1>9. CASE Grab(s)
  <2>1. UNCHANGED <<pc, localVars, mainVars, wireVars, ghost>>
    BY <1>9 DEF Grab, histVars
  <2>2. UNCHANGED <<pc, dirty, blank, plan, built, inflight, failed, panel>>
    BY <2>1 DEF localVars, mainVars, wireVars
  <2>3. \A t \in Streams \ {s} : Same(t)
    BY <1>2, <1>9 DEF Grab, Same, Set, Clear, kernelVars, streamVars, noteVars, histVars
  <2>4. Hashed(s)' /\ Grabbed(s)'
    BY <1>1, <1>2, <1>9 DEF Grab, Hashed, Grabbed, Set, Clear, kernelVars, streamVars
  <2>5. OnNoted(s)'
    BY <1>1, <1>2, <1>9, <2>2
    DEF Grab, OnNoted, Telling, Latest, OnTheWay, Broken, Hashed, Set, Clear,
        kernelVars, streamVars, noteVars, histVars
  <2>6. BuiltNoted(s)'
    BY <1>1, <1>2, <1>9, <2>2
    DEF Grab, BuiltNoted, Telling, Hashed, Set, Clear, kernelVars, streamVars, noteVars
  <2>7. OffNoted(s)'
    BY <1>1, <1>2, <1>9, <2>2
    DEF Grab, OffNoted, Latest, OnTheWay, Broken, Set, Clear,
        kernelVars, streamVars, noteVars, histVars
  <2>8. /\ requested' \in [Streams -> BOOLEAN] /\ damage' \in [Streams -> BOOLEAN]
        /\ at' \in [Streams -> Places] /\ hash' \in [Streams -> Pictures \cup {NoBuffer}]
        /\ fb' \in [Streams -> Frames \cup {NoBuffer}]
    BY <1>2, <1>9 DEF Grab, Set, Clear, Places, Frames
  <2>q. QED
    BY <1>2, <1>9, <2>1, <2>3, <2>4, <2>5, <2>6, <2>7, <2>8, EvdiStep
    DEF Grab, kernelVars, streamVars, noteVars, histVars
<1>10. CASE Publish(s)
  <2>1. UNCHANGED <<pc, localVars, mainVars, wireVars, ghost>>
    BY <1>10 DEF Publish, histVars
  <2>2. UNCHANGED <<pc, dirty, blank, plan, built, inflight, failed, panel>>
    BY <2>1 DEF localVars, mainVars, wireVars
  <2>3. \A t \in Streams \ {s} : Same(t)
    BY <1>2, <1>10 DEF Publish, Same, Set, Clear, kernelVars, streamVars, noteVars, histVars
  <2>4. Hashed(s)' /\ Grabbed(s)'
    BY <1>1, <1>2, <1>10 DEF Publish, Hashed, Grabbed, Set, Clear, kernelVars, streamVars
  <2>5. OnNoted(s)'
    BY <1>1, <1>2, <1>10, <2>2
    DEF Publish, OnNoted, Telling, Latest, OnTheWay, Broken, Hashed, Set, Clear,
        kernelVars, streamVars, noteVars, histVars
  <2>6. BuiltNoted(s)'
    BY <1>1, <1>2, <1>10, <2>2
    DEF Publish, BuiltNoted, Telling, Hashed, Set, Clear, kernelVars, streamVars, noteVars
  <2>7. OffNoted(s)'
    BY <1>1, <1>2, <1>10, <2>2
    DEF Publish, OffNoted, Latest, OnTheWay, Broken, Set, Clear,
        kernelVars, streamVars, noteVars, histVars
  <2>q. QED
    BY <1>2, <1>10, <2>1, <2>3, <2>4, <2>5, <2>6, <2>7, EvdiStep
    DEF Publish, Set, Clear, kernelVars, streamVars, noteVars, histVars, Frames, Places
<1>11. CASE Dpms(s)
  <2>1. UNCHANGED <<pc, localVars, mainVars, wireVars, ghost>>
    BY <1>11 DEF Dpms, histVars
  <2>2. UNCHANGED <<pc, dirty, blank, plan, built, inflight, failed, panel>>
    BY <2>1 DEF localVars, mainVars, wireVars
  <2>3. \A t \in Streams \ {s} : Same(t)
    BY <1>2, <1>11 DEF Dpms, Same, Set, Clear, kernelVars, streamVars, noteVars, histVars
  <2>4. Hashed(s)' /\ Grabbed(s)'
    BY <1>1, <1>2, <1>11 DEF Dpms, Hashed, Grabbed, Set, Clear, kernelVars, streamVars
  <2>5. OnNoted(s)'
    BY <1>1, <1>2, <1>11, <2>2
    DEF Dpms, OnNoted, Telling, Latest, OnTheWay, Broken, Hashed, Set, Clear,
        kernelVars, streamVars, noteVars, histVars
  <2>6. BuiltNoted(s)'
    BY <1>1, <1>2, <1>11, <2>2
    DEF Dpms, BuiltNoted, Telling, Hashed, Set, Clear, kernelVars, streamVars, noteVars
  <2>7. OffNoted(s)'
    BY <1>1, <1>2, <1>11, <2>2
    DEF Dpms, OffNoted, Latest, OnTheWay, Broken, Set, Clear,
        kernelVars, streamVars, noteVars, histVars
  <2>q. QED
    BY <1>2, <1>11, <2>1, <2>3, <2>4, <2>5, <2>6, <2>7, EvdiStep
    DEF Dpms, Set, Clear, kernelVars, streamVars, noteVars, histVars, Frames, Places
<1>12. CASE DpmsWithdraw(s)
  <2>1. UNCHANGED <<pc, localVars, mainVars, wireVars, ghost>>
    BY <1>12 DEF DpmsWithdraw, histVars
  <2>2. UNCHANGED <<pc, dirty, blank, plan, built, inflight, failed, panel>>
    BY <2>1 DEF localVars, mainVars, wireVars
  <2>3. \A t \in Streams \ {s} : Same(t)
    BY <1>2, <1>12 DEF DpmsWithdraw, Same, Set, Clear, kernelVars, streamVars, noteVars, histVars
  <2>4. Hashed(s)' /\ Grabbed(s)'
    BY <1>1, <1>2, <1>12 DEF DpmsWithdraw, Hashed, Grabbed, Set, Clear, kernelVars, streamVars
  <2>5. OnNoted(s)'
    BY <1>1, <1>2, <1>12, <2>2
    DEF DpmsWithdraw, OnNoted, Telling, Latest, OnTheWay, Broken, Hashed, Set, Clear,
        kernelVars, streamVars, noteVars, histVars
  <2>6. BuiltNoted(s)'
    BY <1>1, <1>2, <1>12, <2>2
    DEF DpmsWithdraw, BuiltNoted, Telling, Hashed, Set, Clear, kernelVars, streamVars, noteVars
  <2>7. OffNoted(s)'
    BY <1>1, <1>2, <1>12, <2>2
    DEF DpmsWithdraw, OffNoted, Latest, OnTheWay, Broken, Set, Clear,
        kernelVars, streamVars, noteVars, histVars
  <2>q. QED
    BY <1>2, <1>12, <2>1, <2>3, <2>4, <2>5, <2>6, <2>7, EvdiStep
    DEF DpmsWithdraw, Set, Clear, kernelVars, streamVars, noteVars, histVars, Frames, Places
<1>13. CASE DpmsNote(s)
  <2>1. UNCHANGED <<pc, localVars, mainVars, wireVars, ghost>>
    BY <1>13 DEF DpmsNote, histVars
  <2>2. UNCHANGED <<pc, dirty, blank, plan, built, inflight, failed, panel>>
    BY <2>1 DEF localVars, mainVars, wireVars
  <2>3. \A t \in Streams \ {s} : Same(t)
    BY <1>2, <1>13 DEF DpmsNote, Same, Set, Clear, kernelVars, streamVars, noteVars, histVars
  <2>4. Hashed(s)' /\ Grabbed(s)'
    BY <1>1, <1>2, <1>13 DEF DpmsNote, Hashed, Grabbed, Set, Clear, kernelVars, streamVars
  <2>5. OnNoted(s)'
    BY <1>1, <1>2, <1>13, <2>2
    DEF DpmsNote, OnNoted, Telling, Latest, OnTheWay, Broken, Hashed, Set, Clear,
        kernelVars, streamVars, noteVars, histVars
  <2>6. BuiltNoted(s)'
    BY <1>1, <1>2, <1>13, <2>2
    DEF DpmsNote, BuiltNoted, Telling, Hashed, Set, Clear, kernelVars, streamVars, noteVars
  <2>7. OffNoted(s)'
    BY <1>1, <1>2, <1>13, <2>2
    DEF DpmsNote, OffNoted, Latest, OnTheWay, Broken, Set, Clear,
        kernelVars, streamVars, noteVars, histVars
  <2>q. QED
    BY <1>2, <1>13, <2>1, <2>3, <2>4, <2>5, <2>6, <2>7, EvdiStep
    DEF DpmsNote, Set, Clear, kernelVars, streamVars, noteVars, histVars, Frames, Places
<1>q. QED BY <1>3, <1>4, <1>5, <1>6, <1>7, <1>8, <1>9, <1>10, <1>11, <1>12, <1>13 DEF Events, Evdi

-----------------------------------------------------------------------------
(* The main thread goes to another place. *)
LEMMA PcStep ==
    ASSUME IInv, pc # "recover", pc' \in Steps, Staged',
           UNCHANGED <<kernelVars, streamVars, noteVars, localVars, mainVars, wireVars, histVars>>
    PROVE  IInv'
<1>1. UNCHANGED <<desk, damage, asked, fb, hash, on, old, requested, at, dirtyTiles, blankTiles,
                  dirty, blank, plan, late, built, seq, inflight, failed, panel, lastIndex,
                  ghost, recovered>>
  BY DEF kernelVars, streamVars, noteVars, localVars, mainVars, wireVars, histVars
<1>2. TypeOK'
  BY <1>1 DEF IInv, TypeOK
<1>3. Counted'
  BY <1>1 DEF IInv, Counted, OnTheWay
<1>4. ASSUME NEW t \in Streams
      PROVE  Hashed(t)' /\ Grabbed(t)' /\ OnNoted(t)' /\ BuiltNoted(t)' /\ OffNoted(t)'
  BY <1>1 DEF IInv, Hashed, Grabbed, OnNoted, BuiltNoted, OffNoted, Telling, Latest, OnTheWay,
              Broken
<1>q. QED BY <1>2, <1>3, <1>4 DEF IInv

LEMMA ConsumeBlankStep == IInv /\ ConsumeBlank => IInv'
<1> SUFFICES ASSUME IInv, ConsumeBlank PROVE IInv'
  OBVIOUS
<1>1. /\ pc \in {"consumeBlank", "jitBlank", "lateBlank"}
      /\ blank' = blank \cup blankTiles /\ blankTiles' = {}
      /\ pc' = CASE pc = "consumeBlank" -> "consumeDirty"
                 [] pc = "jitBlank" -> "jitDirty"
                 [] pc = "lateBlank" -> "lateDirty"
      /\ UNCHANGED <<desk, damage, asked, fb, hash, on, old, requested, at, dirtyTiles,
                     dirty, plan, late, built, seq, inflight, failed, panel, lastIndex,
                     ghost, recovered>>
  BY DEF ConsumeBlank, TakeBlank, kernelVars, streamVars, mainVars, wireVars, histVars
<1>2. /\ pc = "consumeBlank" => pc' = "consumeDirty"
      /\ pc = "jitBlank" => pc' = "jitDirty"
      /\ pc = "lateBlank" => pc' = "lateDirty"
  BY <1>1
<1>3. TypeOK'
  BY <1>1, <1>2 DEF IInv, TypeOK, Steps
<1>4. Staged'
  BY <1>1, <1>2 DEF IInv, Staged
<1>5. Counted'
  BY <1>1, <1>2 DEF IInv, Counted, OnTheWay
<1>6. ASSUME NEW t \in Streams
      PROVE  Hashed(t)' /\ Grabbed(t)' /\ OnNoted(t)' /\ BuiltNoted(t)' /\ OffNoted(t)'
  BY <1>1, <1>2 DEF IInv, Hashed, Grabbed, OnNoted, BuiltNoted, OffNoted, Telling, Latest,
                    OnTheWay, Broken
<1>q. QED BY <1>3, <1>4, <1>5, <1>6 DEF IInv

LEMMA ConsumeDirtyStep == IInv /\ ConsumeDirty => IInv'
<1> SUFFICES ASSUME IInv, ConsumeDirty PROVE IInv'
  OBVIOUS
<1>1. /\ pc \in {"consumeDirty", "jitDirty"}
      /\ dirty' = dirty \cup Consumed \cup blank /\ dirtyTiles' = {}
      /\ pc' \in {"plan", "decide"}
      /\ UNCHANGED <<desk, damage, asked, fb, hash, on, old, requested, at, blankTiles,
                     blank, plan, late, built, seq, inflight, failed, panel, lastIndex,
                     ghost, recovered>>
  BY DEF ConsumeDirty, TakeDirty, kernelVars, streamVars, mainVars, wireVars, histVars
<1>2. plan = NoPlan /\ DOMAIN built = {}
  BY <1>1 DEF IInv, Staged
<1>3. TypeOK'
  BY <1>1 DEF IInv, TypeOK, Steps, Consumed
<1>4. Staged'
  BY <1>1, <1>2 DEF IInv, Staged
<1>5. Counted'
  BY <1>1 DEF IInv, Counted, OnTheWay
<1>6. ASSUME NEW t \in Streams
      PROVE  Hashed(t)' /\ Grabbed(t)' /\ OnNoted(t)' /\ BuiltNoted(t)' /\ OffNoted(t)'
  BY <1>1, <1>2 DEF IInv, Hashed, Grabbed, OnNoted, BuiltNoted, OffNoted, Telling, Latest,
                    OnTheWay, Broken, Consumed
<1>q. QED BY <1>3, <1>4, <1>5, <1>6 DEF IInv

LEMMA PlanStep == IInv /\ Plan => IInv'
<1> SUFFICES ASSUME IInv, Plan PROVE IInv'
  OBVIOUS
<1>1. /\ pc \in {"plan", "decide"} /\ pc' = "build" /\ late' = FALSE
      /\ plan' = [send |-> dirty \cup blank, black |-> blank] /\ DOMAIN built' = {}
      /\ UNCHANGED <<desk, damage, asked, fb, hash, on, old, requested, at, dirtyTiles, blankTiles,
                     dirty, blank, seq, inflight, failed, panel, lastIndex,
                     ghost, recovered>>
  BY DEF Plan, MakePlan, kernelVars, streamVars, noteVars, localVars, wireVars, histVars
<1>2. plan = NoPlan
  BY <1>1 DEF IInv, Staged
<1>3. TypeOK'
  BY <1>1 DEF IInv, TypeOK, Steps
<1>4. Staged'
  BY <1>1 DEF IInv, Staged
<1>5. Counted'
  BY <1>1 DEF IInv, Counted, OnTheWay
<1>6. ASSUME NEW t \in Streams
      PROVE  Hashed(t)' /\ Grabbed(t)' /\ OnNoted(t)' /\ BuiltNoted(t)' /\ OffNoted(t)'
  BY <1>1, <1>2 DEF IInv, Hashed, Grabbed, OnNoted, BuiltNoted, OffNoted, Telling, Latest,
                    OnTheWay, Broken, NoPlan
<1>q. QED BY <1>3, <1>4, <1>5, <1>6 DEF IInv

LEMMA BuildStep ==
    ASSUME IInv, NEW s \in Streams, Build(s)
    PROVE  IInv'
<1>1. /\ pc = "build" /\ s \in plan.send /\ s \notin DOMAIN built
      /\ s \in plan.black \/ fb[s] # NoBuffer
      /\ built' = [t \in DOMAIN built \cup {s} |-> IF t = s THEN Packet(s) ELSE built[t]]
      /\ UNCHANGED <<desk, damage, asked, fb, hash, on, old, requested, at, dirtyTiles, blankTiles,
                     pc, dirty, blank, plan, late, seq, inflight, failed, panel, lastIndex,
                     ghost, recovered>>
  BY DEF Build, kernelVars, streamVars, noteVars, localVars, wireVars, histVars
<1>2. /\ DOMAIN built' = DOMAIN built \cup {s} /\ built'[s] = Packet(s)
      /\ \A t \in DOMAIN built : built'[t] = built[t]
  BY <1>1
<1>3. Packet(s) \in Packets
  BY <1>1 DEF Packet, Packets, Frames, IInv, TypeOK
<1>4. TypeOK'
  BY <1>1, <1>2, <1>3 DEF IInv, TypeOK
<1>5. Staged'
  BY <1>1, <1>2 DEF IInv, Staged
<1>6. Counted'
  BY <1>1, <1>2 DEF IInv, Counted, OnTheWay, Packet
<1>7. ASSUME NEW t \in Streams
      PROVE  Hashed(t)' /\ Grabbed(t)' /\ OnNoted(t)' /\ BuiltNoted(t)' /\ OffNoted(t)'
  <2>1. Hashed(t)' /\ Grabbed(t)' /\ OnNoted(t)' /\ OffNoted(t)'
    BY <1>1 DEF IInv, Hashed, Grabbed, OnNoted, OffNoted, Telling, Latest, OnTheWay, Broken
  <2>2. BuiltNoted(t)'
    BY <1>1, <1>2 DEF IInv, BuiltNoted, Telling, Packet
  <2>q. QED BY <2>1, <2>2
<1>q. QED BY <1>4, <1>5, <1>6, <1>7 DEF IInv

(* A plan made late: what was noted until then is in it. *)
LEMMA LateDirtyStep == IInv /\ LateDirty => IInv'
<1> SUFFICES ASSUME IInv, LateDirty PROVE IInv'
  OBVIOUS
<1>1. /\ pc = "lateDirty" /\ dirtyTiles' = {}
      /\ UNCHANGED <<desk, damage, asked, fb, hash, on, old, requested, at, blankTiles,
                     blank, seq, inflight, failed, panel, lastIndex, ghost, recovered>>
  BY DEF LateDirty, kernelVars, streamVars, wireVars, histVars
<1>2. CASE /\ dirty' = dirty \cup Consumed \cup blank
           /\ MakePlan(dirty') /\ late' = TRUE /\ pc' = "build"
  <2>1. plan' = [send |-> dirty' \cup blank, black |-> blank] /\ DOMAIN built' = {}
    BY <1>2 DEF MakePlan
  <2>2. TypeOK'
    BY <1>1, <1>2, <2>1 DEF IInv, TypeOK, Steps, Consumed
  <2>3. Staged'
    BY <1>1, <1>2, <2>1 DEF IInv, Staged
  <2>4. Counted'
    BY <1>1, <1>2, <2>1 DEF IInv, Counted, OnTheWay
  <2>5. ASSUME NEW t \in Streams
        PROVE  Hashed(t)' /\ Grabbed(t)' /\ OnNoted(t)' /\ BuiltNoted(t)' /\ OffNoted(t)'
    BY <1>1, <1>2, <2>1 DEF IInv, Hashed, Grabbed, OnNoted, BuiltNoted, OffNoted, Telling, Latest,
                            OnTheWay, Broken, Consumed
  <2>q. QED BY <2>2, <2>3, <2>4, <2>5 DEF IInv
<1>3. CASE Consumed = {} /\ pc' = "submit" /\ UNCHANGED <<dirty, plan, late, built>>
  <2>2. TypeOK'
    BY <1>1, <1>3 DEF IInv, TypeOK, Steps
  <2>3. Staged'
    BY <1>1, <1>3 DEF IInv, Staged
  <2>4. Counted'
    BY <1>1, <1>3 DEF IInv, Counted, OnTheWay
  <2>5. ASSUME NEW t \in Streams
        PROVE  Hashed(t)' /\ Grabbed(t)' /\ OnNoted(t)' /\ BuiltNoted(t)' /\ OffNoted(t)'
    <3>1. t \notin Consumed
      BY <1>3
    <3>q. QED
      BY <1>1, <1>3, <3>1 DEF IInv, Hashed, Grabbed, OnNoted, BuiltNoted, OffNoted, Telling,
                              Latest, OnTheWay, Broken, Consumed
  <2>q. QED BY <2>2, <2>3, <2>4, <2>5 DEF IInv
<1>q. QED BY <1>2, <1>3 DEF LateDirty

LEMMA RecoverStep == IInv /\ Recover => IInv'
<1> SUFFICES ASSUME IInv, Recover PROVE IInv'
  OBVIOUS
<1>1. /\ pc' = "consumeBlank" /\ dirty' = Streams /\ plan' = NoPlan /\ DOMAIN built' = {}
      /\ late' = FALSE /\ inflight' = << >> /\ DOMAIN inflight' = {} /\ failed' = FALSE
      /\ inflight' \in Seq(Packets) /\ recovered' = Streams
      /\ UNCHANGED <<desk, damage, asked, fb, hash, on, old, requested, at, dirtyTiles,
                     blankTiles, blank, ghost>>
  BY DEF Recover, RefreshAll, kernelVars, streamVars, noteVars
<1>2. /\ \A s \in Streams : seq'[s] = 2 /\ lastIndex'[s] = 0
      /\ seq' \in [Streams -> 0 .. IndexMod - 1] /\ lastIndex' \in [Streams -> 0 .. IndexMod - 1]
      /\ panel' \in [Streams -> Frames \cup {Unknown}]
  BY DEF Recover, FirstIndex
<1>3. TypeOK'
  BY <1>1, <1>2 DEF IInv, TypeOK, Steps, NoPlan
<1>4. Staged'
  BY <1>1 DEF Staged
<1>5. Counted'
  <2>1. NextOf(0) % IndexMod = 2
    BY DEF NextOf
  <2>q. QED BY <1>1, <1>2, <2>1 DEF Counted
<1>6. ASSUME NEW t \in Streams
      PROVE  Hashed(t)' /\ Grabbed(t)' /\ OnNoted(t)' /\ BuiltNoted(t)' /\ OffNoted(t)'
  BY <1>1 DEF IInv, Hashed, Grabbed, OnNoted, BuiltNoted, OffNoted
<1>q. QED BY <1>3, <1>4, <1>5, <1>6 DEF IInv

-----------------------------------------------------------------------------
(* The elements of a finite set in a sequence: each of them, once. *)
LEMMA SetToSeqOnce ==
    ASSUME NEW S, IsFiniteSet(S), NEW f, f = SetToSeq(S)
    PROVE  /\ f \in Seq(S)
           /\ \A j, k \in DOMAIN f : f[j] = f[k] => j = k
           /\ \A x \in S : \E k \in DOMAIN f : f[k] = x
<1>1. Cardinality(S) \in Nat /\ ExistsBijection(1 .. Cardinality(S), S)
  BY FS_CardinalityType
<1>2. PICK g : g \in Bijection(1 .. Cardinality(S), S)
  BY <1>1 DEF ExistsBijection
<1>3. g \in [1 .. Cardinality(S) -> S] /\ IsInjective(g)
  BY <1>2 DEF Bijection, Injection, IsInjective
<1>4. f \in [1 .. Cardinality(S) -> S] /\ IsInjective(f)
  BY <1>3 DEF SetToSeq
<1>5. f \in Seq(S) /\ DOMAIN f = 1 .. Cardinality(S)
  BY <1>1, <1>4
<1>6. \A j, k \in DOMAIN f : f[j] = f[k] => j = k
  BY <1>4 DEF IsInjective
<1>7. f \in Injection(1 .. Cardinality(S), S)
  BY <1>4 DEF Injection, IsInjective
<1>8. Cardinality(1 .. Cardinality(S)) = Cardinality(S) /\ IsFiniteSet(1 .. Cardinality(S))
  BY <1>1, FS_Interval
<1>9. f \in Surjection(1 .. Cardinality(S), S)
  BY <1>1, <1>7, <1>8, FS_Injection
<1>10. \A x \in S : \E k \in DOMAIN f : f[k] = x
  BY <1>5, <1>9 DEF Surjection
<1>q. QED BY <1>5, <1>6, <1>10

(* What is submitted: the packets built, one of each stream. *)
LEMMA FrameOfBuilt ==
    ASSUME TypeOK, \A s \in DOMAIN built : built[s].stream = s,
           NEW frame, frame = SetToSeq(Range(built))
    PROVE  /\ frame \in Seq(Packets)
           /\ \A k \in DOMAIN frame : /\ frame[k].stream \in DOMAIN built
                                      /\ frame[k] = built[frame[k].stream]
           /\ \A j, k \in DOMAIN frame : frame[j].stream = frame[k].stream => j = k
           /\ \A s \in DOMAIN built : \E k \in DOMAIN frame : frame[k].stream = s
<1>. DEFINE S == Range(built)
            f == [s \in DOMAIN built |-> built[s]]
<1>1. DOMAIN built \subseteq Streams /\ IsFiniteSet(DOMAIN built)
  <2>1. DOMAIN built \subseteq Streams
    BY DEF TypeOK
  <2>q. QED BY <2>1, FS_Subset
<1>2. f \in Surjection(DOMAIN built, S)
  BY DEF Surjection, Range
<1>3. IsFiniteSet(S)
  BY <1>1, <1>2, FS_Surjection
<1>4. S \subseteq Packets /\ \A p \in S : p.stream \in DOMAIN built /\ p = built[p.stream]
  BY DEF S, Range, TypeOK
<1>5. \A s \in DOMAIN built : built[s] \in S
  BY DEF S, Range
<1>6. frame = SetToSeq(S)
  OBVIOUS
<1>. HIDE DEF S, f
<1>7. /\ frame \in Seq(S)
      /\ \A j, k \in DOMAIN frame : frame[j] = frame[k] => j = k
      /\ \A x \in S : \E k \in DOMAIN frame : frame[k] = x
  BY <1>3, <1>6, SetToSeqOnce
<1>8. frame \in Seq(Packets) /\ \A k \in DOMAIN frame : frame[k] \in S
  BY <1>4, <1>7
<1>9. \A s \in DOMAIN built : \E k \in DOMAIN frame : frame[k].stream = s
  BY <1>5, <1>7
<1>q. QED BY <1>4, <1>7, <1>8, <1>9

LEMMA SubmitStep == IInv /\ Submit => IInv'
<1> SUFFICES ASSUME IInv, Submit PROVE IInv'
  OBVIOUS
<1>1. /\ pc = "submit" /\ inflight = << >> /\ DOMAIN inflight = {} /\ ~failed
      /\ DOMAIN built = plan.send /\ dirty \subseteq plan.send
      /\ \A s \in Streams : seq[s] # 0
      /\ \A s \in DOMAIN built : built[s].stream = s /\ built[s].seq = seq[s]
      /\ \A s \in Streams : seq[s] = NextOf(lastIndex[s]) % IndexMod
  BY DEF Submit, IInv, Staged, Counted, OnTheWay
<1>2. /\ blank' = blank \ plan.black /\ dirty' = {} /\ plan' = NoPlan /\ DOMAIN built' = {}
      /\ late' = FALSE /\ pc' \in {"recover", "consumeBlank"}
      /\ pc' # "recover" => \A s \in Streams : seq'[s] # 0
      /\ seq' = [s \in Streams |-> IF s \in plan.send THEN (seq[s] + 1) % IndexMod ELSE seq[s]]
      /\ ghost' = (ghost \ plan.send) \cup {s \in plan.black : on[s]}
      /\ UNCHANGED <<desk, damage, asked, fb, hash, on, old, requested, at, dirtyTiles, blankTiles,
                     failed, panel, lastIndex, recovered>>
  BY DEF Submit, ClearBlank, ClearDirty, NextIndex, Wrapped, kernelVars, streamVars, noteVars
<1>3. /\ inflight' \in Seq(Packets)
      /\ \A k \in DOMAIN inflight' : /\ inflight'[k].stream \in DOMAIN built
                                     /\ inflight'[k] = built[inflight'[k].stream]
      /\ \A j, k \in DOMAIN inflight' : inflight'[j].stream = inflight'[k].stream => j = k
      /\ \A s \in DOMAIN built : \E k \in DOMAIN inflight' : inflight'[k].stream = s
  <2>1. PICK frame : frame = SetToSeq(Range(built))
    OBVIOUS
  <2>2. /\ frame \in Seq(Packets)
        /\ \A k \in DOMAIN frame : /\ frame[k].stream \in DOMAIN built
                                   /\ frame[k] = built[frame[k].stream]
        /\ \A j, k \in DOMAIN frame : frame[j].stream = frame[k].stream => j = k
        /\ \A s \in DOMAIN built : \E k \in DOMAIN frame : frame[k].stream = s
    BY <1>1, <2>1, FrameOfBuilt DEF IInv
  <2>3. inflight' = << >> \o frame
    BY <1>1, <2>1 DEF Submit
  <2>4. inflight' = frame
    BY <2>2, <2>3
  <2>q. QED BY <2>2, <2>4
<1>4. /\ plan.send \subseteq Streams /\ plan.black \subseteq plan.send
      /\ seq \in [Streams -> 0 .. IndexMod - 1] /\ lastIndex \in [Streams -> 0 .. IndexMod - 1]
  BY DEF IInv, TypeOK
<1>5. TypeOK'
  <2>1. seq' \in [Streams -> 0 .. IndexMod - 1]
    BY <1>2, <1>4
  <2>q. QED BY <1>2, <1>3, <1>4, <2>1 DEF IInv, TypeOK, Steps, NoPlan
<1>6. Staged'
  BY <1>2 DEF Staged
<1>7. Counted'
  <2>1. ASSUME NEW s \in plan.send PROVE seq[s] # 0 /\ seq[s] = NextOf(lastIndex[s])
    <3>1. /\ seq[s] # 0 /\ seq[s] = NextOf(lastIndex[s]) % IndexMod
          /\ NextOf(lastIndex[s]) \in 1 .. IndexMod
      BY <1>1, <1>4 DEF NextOf
    <3>q. QED BY <3>1
  <2>2. ASSUME NEW k \in DOMAIN inflight'
        PROVE  /\ inflight'[k].seq # 0 /\ inflight'[k].seq = NextOf(lastIndex'[inflight'[k].stream])
               /\ seq'[inflight'[k].stream] = (inflight'[k].seq + 1) % IndexMod
    <3>1. PICK s \in plan.send : s = inflight'[k].stream
      BY <1>1, <1>3
    <3>2. inflight'[k].seq = seq[s]
      BY <1>1, <1>3, <3>1
    <3>3. seq'[s] = (seq[s] + 1) % IndexMod /\ lastIndex'[s] = lastIndex[s]
      BY <1>2, <1>4
    <3>q. QED BY <2>1, <3>1, <3>2, <3>3
  <2>3. ASSUME NEW s \in Streams
        PROVE  OnTheWay(s)' \/ seq'[s] = NextOf(lastIndex'[s]) % IndexMod
    BY <1>1, <1>2, <1>3 DEF OnTheWay
  <2>q. QED BY <1>2, <2>2, <2>3 DEF Counted
<1>8. ASSUME NEW t \in Streams
      PROVE  Hashed(t)' /\ Grabbed(t)' /\ OnNoted(t)' /\ BuiltNoted(t)' /\ OffNoted(t)'
  <2>0. Hashed(t) /\ Grabbed(t) /\ OnNoted(t) /\ BuiltNoted(t) /\ OffNoted(t)
    BY DEF IInv
  <2>1. Hashed(t)' /\ Grabbed(t)' /\ BuiltNoted(t)'
    BY <1>2, <2>0 DEF Hashed, Grabbed, BuiltNoted
  <2>2. CASE t \in plan.send
    <3>1. \A x : built[t].pict = x => Latest(t, x)'
      BY <1>1, <1>3, <2>2 DEF Latest, OnTheWay
    <3>2. OnNoted(t)'
      BY <1>1, <1>2, <2>0, <2>2, <3>1 DEF OnNoted, BuiltNoted, Telling
    <3>3. OffNoted(t)'
      BY <1>1, <1>2, <2>0, <2>2, <3>1 DEF OffNoted, BuiltNoted, Broken, NoPlan
    <3>q. QED BY <2>1, <3>2, <3>3
  <2>3. CASE t \notin plan.send
    <3>1. \A x : Latest(t, x) => Latest(t, x)'
      BY <1>1, <1>2, <1>3, <2>3 DEF Latest, OnTheWay
    <3>2. OnNoted(t)'
      BY <1>1, <1>2, <2>0, <2>3, <3>1 DEF OnNoted, Telling, Broken
    <3>3. OffNoted(t)'
      BY <1>1, <1>2, <1>4, <2>0, <2>3, <3>1 DEF OffNoted, Broken, NoPlan
    <3>q. QED BY <2>1, <3>2, <3>3
  <2>q. QED BY <2>2, <2>3
<1>q. QED BY <1>5, <1>6, <1>7, <1>8 DEF IInv

-----------------------------------------------------------------------------
(* The rest of the frame on its way, after its first packet. *)
LEMMA TailOfFrame ==
    ASSUME TypeOK, inflight # << >>
    PROVE  /\ Head(inflight) \in Packets /\ 1 \in DOMAIN inflight
           /\ Head(inflight) = inflight[1]
           /\ Tail(inflight) \in Seq(Packets)
           /\ \A k \in DOMAIN Tail(inflight) : /\ k + 1 \in DOMAIN inflight
                                               /\ Tail(inflight)[k] = inflight[k + 1]
                                               /\ k + 1 # 1
           /\ \A k \in DOMAIN inflight :
                 k = 1 \/ (k - 1 \in DOMAIN Tail(inflight) /\ Tail(inflight)[k - 1] = inflight[k])
<1>1. inflight \in Seq(Packets)
  BY DEF TypeOK
<1>2. PICK q : q = inflight
  OBVIOUS
<1>3. q \in Seq(Packets) /\ q # << >>
  BY <1>1, <1>2
<1>4. /\ Head(q) \in Packets /\ 1 \in DOMAIN q /\ Head(q) = q[1]
      /\ Tail(q) \in Seq(Packets)
      /\ \A k \in DOMAIN Tail(q) : k + 1 \in DOMAIN q /\ Tail(q)[k] = q[k + 1] /\ k + 1 # 1
      /\ \A k \in DOMAIN q : k = 1 \/ (k - 1 \in DOMAIN Tail(q) /\ Tail(q)[k - 1] = q[k])
  BY <1>3, HeadTailProperties
<1>q. QED BY <1>2, <1>4

LEMMA DeliverStep == IInv /\ Deliver => IInv'
<1> SUFFICES ASSUME IInv, Deliver PROVE IInv'
  OBVIOUS
<1>1. PICK p : p = Head(inflight)
  OBVIOUS
<1>2. /\ inflight # << >> /\ inflight' = Tail(inflight)
      /\ panel' = [panel EXCEPT ![p.stream] = p.pict]
      /\ lastIndex' = [lastIndex EXCEPT ![p.stream] = p.seq]
      /\ UNCHANGED <<desk, damage, asked, fb, hash, on, old, requested, at, dirtyTiles, blankTiles,
                     pc, dirty, blank, plan, late, built, seq, failed, ghost, recovered>>
  BY <1>1 DEF Deliver, kernelVars, streamVars, noteVars, localVars, mainVars, histVars
<1>3. /\ p \in Packets /\ 1 \in DOMAIN inflight /\ p = inflight[1]
      /\ inflight' \in Seq(Packets)
      /\ \A k \in DOMAIN inflight' : /\ k + 1 \in DOMAIN inflight
                                     /\ inflight'[k] = inflight[k + 1] /\ k + 1 # 1
      /\ \A k \in DOMAIN inflight :
            k = 1 \/ (k - 1 \in DOMAIN inflight' /\ inflight'[k - 1] = inflight[k])
  BY <1>1, <1>2, TailOfFrame DEF IInv
<1>4. p.stream \in Streams /\ p.seq \in 0 .. IndexMod - 1 /\ p.pict \in Frames
  BY <1>3 DEF Packets
<1>5. \A j, k \in DOMAIN inflight : inflight[j].stream = inflight[k].stream => j = k
  BY DEF IInv, TypeOK
<1>6. \A k \in DOMAIN inflight' : inflight'[k].stream # p.stream
  BY <1>3, <1>5
<1>7. /\ panel \in [Streams -> Frames \cup {Unknown}] /\ lastIndex \in [Streams -> 0 .. IndexMod - 1]
      /\ panel' \in [Streams -> Frames \cup {Unknown}] /\ lastIndex' \in [Streams -> 0 .. IndexMod - 1]
  BY <1>2, <1>4 DEF IInv, TypeOK
<1>8. TypeOK'
  <2>1. \A j, k \in DOMAIN inflight' : inflight'[j].stream = inflight'[k].stream => j = k
    <3> TAKE j, k \in DOMAIN inflight'
    <3>1. j \in Nat /\ k \in Nat
      BY <1>3
    <3>q. QED BY <1>3, <1>5, <3>1
  <2>q. QED BY <1>2, <1>3, <1>7, <2>1 DEF IInv, TypeOK
<1>9. Staged'
  BY <1>2 DEF IInv, Staged
<1>10. Counted'
  <2>1. /\ \A s \in DOMAIN built : built[s].stream = s /\ built[s].seq = seq[s]
        /\ \A k \in DOMAIN inflight :
              inflight[k].seq # 0 /\ inflight[k].seq = NextOf(lastIndex[inflight[k].stream])
        /\ ~failed => /\ \A k \in DOMAIN inflight :
                            seq[inflight[k].stream] = (inflight[k].seq + 1) % IndexMod
                      /\ \A s \in Streams :
                            OnTheWay(s) \/ seq[s] = NextOf(lastIndex[s]) % IndexMod
        /\ pc # "recover" => \A s \in Streams : seq[s] # 0
    BY DEF IInv, Counted
  <2>2. ASSUME NEW k \in DOMAIN inflight'
        PROVE  /\ inflight'[k].seq # 0
               /\ inflight'[k].seq = NextOf(lastIndex'[inflight'[k].stream])
    BY <1>2, <1>3, <1>6, <1>7, <2>1
  <2>3. ASSUME ~failed, NEW k \in DOMAIN inflight'
        PROVE  seq[inflight'[k].stream] = (inflight'[k].seq + 1) % IndexMod
    BY <1>3, <2>1, <2>3
  <2>4. ASSUME ~failed, NEW s \in Streams
        PROVE  OnTheWay(s)' \/ seq[s] = NextOf(lastIndex'[s]) % IndexMod
    <3>1. CASE s = p.stream
      <4>1. lastIndex'[s] = p.seq /\ p.seq # 0 /\ seq[s] = (p.seq + 1) % IndexMod
        BY <1>2, <1>3, <1>7, <2>1, <2>4, <3>1
      <4>q. QED BY <4>1 DEF NextOf
    <3>2. CASE s # p.stream
      <4>1. lastIndex'[s] = lastIndex[s]
        BY <1>2, <1>7, <3>2
      <4>2. OnTheWay(s) => OnTheWay(s)'
        BY <1>3, <3>2 DEF OnTheWay
      <4>q. QED BY <2>1, <2>4, <4>1, <4>2
    <3>q. QED BY <3>1, <3>2
  <2>q. QED BY <1>2, <2>1, <2>2, <2>3, <2>4 DEF Counted
<1>11. ASSUME NEW t \in Streams
       PROVE  Hashed(t)' /\ Grabbed(t)' /\ OnNoted(t)' /\ BuiltNoted(t)' /\ OffNoted(t)'
  <2>0. Hashed(t) /\ Grabbed(t) /\ OnNoted(t) /\ BuiltNoted(t) /\ OffNoted(t)
    BY DEF IInv
  <2>1. \A x : Latest(t, x) => Latest(t, x)'
    <3> SUFFICES ASSUME NEW x, Latest(t, x) PROVE Latest(t, x)'
      OBVIOUS
    <3>1. CASE t = p.stream
      <4>1. panel'[t] = p.pict /\ p.pict = x
        BY <1>2, <1>3, <1>7, <3>1 DEF Latest
      <4>q. QED BY <1>6, <3>1, <4>1 DEF Latest, OnTheWay
    <3>2. CASE t # p.stream
      <4>1. panel'[t] = panel[t]
        BY <1>2, <1>7, <3>2
      <4>2. OnTheWay(t) => OnTheWay(t)'
        BY <1>3, <3>2 DEF OnTheWay
      <4>3. \A k \in DOMAIN inflight' : inflight'[k].stream = t => inflight'[k].pict = x
        BY <1>3 DEF Latest
      <4>q. QED BY <4>1, <4>2, <4>3 DEF Latest
    <3>q. QED BY <3>1, <3>2
  <2>2. Hashed(t)' /\ Grabbed(t)' /\ BuiltNoted(t)'
    BY <1>2, <2>0 DEF Hashed, Grabbed, BuiltNoted, Telling
  <2>3. OnNoted(t)' /\ OffNoted(t)'
    BY <1>2, <2>0, <2>1 DEF OnNoted, OffNoted, Telling, Broken
  <2>q. QED BY <2>2, <2>3
<1>q. QED BY <1>8, <1>9, <1>10, <1>11 DEF IInv

LEMMA TransferFailsStep == IInv /\ TransferFails => IInv'
<1> SUFFICES ASSUME IInv, TransferFails PROVE IInv'
  OBVIOUS
<1>2. /\ inflight # << >> /\ inflight' = Tail(inflight) /\ failed' = TRUE
      /\ UNCHANGED <<desk, damage, asked, fb, hash, on, old, requested, at, dirtyTiles, blankTiles,
                     pc, dirty, blank, plan, late, built, seq, panel, lastIndex, ghost, recovered>>
  BY DEF TransferFails, kernelVars, streamVars, noteVars, localVars, mainVars, histVars
<1>3. /\ inflight' \in Seq(Packets)
      /\ \A k \in DOMAIN inflight' : k + 1 \in DOMAIN inflight /\ inflight'[k] = inflight[k + 1]
  BY <1>2, TailOfFrame DEF IInv
<1>4. TypeOK'
  <2>1. \A j, k \in DOMAIN inflight' : inflight'[j].stream = inflight'[k].stream => j = k
    <3> TAKE j, k \in DOMAIN inflight'
    <3>1. j \in Nat /\ k \in Nat
      BY <1>3
    <3>2. inflight[j + 1].stream = inflight[k + 1].stream => j + 1 = k + 1
      BY <1>3 DEF IInv, TypeOK
    <3>q. QED BY <1>3, <3>1, <3>2
  <2>q. QED BY <1>2, <1>3, <2>1 DEF IInv, TypeOK
<1>5. Staged'
  BY <1>2 DEF IInv, Staged
<1>6. Counted'
  BY <1>2, <1>3 DEF IInv, Counted
<1>7. ASSUME NEW t \in Streams
      PROVE  Hashed(t)' /\ Grabbed(t)' /\ OnNoted(t)' /\ BuiltNoted(t)' /\ OffNoted(t)'
  BY <1>2 DEF IInv, Hashed, Grabbed, OnNoted, BuiltNoted, OffNoted, Telling, Broken
<1>q. QED BY <1>4, <1>5, <1>6, <1>7 DEF IInv

-----------------------------------------------------------------------------
LEMMA NextIInv == IInv /\ [Next]_vars => IInv'
<1> SUFFICES ASSUME IInv, [Next]_vars PROVE IInv'
  OBVIOUS
<1>1. ASSUME NEW s \in Streams, Events(s) \/ Evdi(s) PROVE IInv'
  BY <1>1, StreamStep
<1>2. ASSUME NEW from, NEW to, Step(from, to), from \in {"decide", "idle", "build"},
             to \in Steps, Staged' PROVE IInv'
  BY <1>2, PcStep DEF Step
<1>3. CASE Sleep
  <2>1. Staged'
    BY <1>3 DEF Sleep, Step, Staged, IInv, localVars, mainVars, wireVars
  <2>q. QED BY <1>2, <1>3, <2>1 DEF Sleep, Steps
<1>4. CASE Idle
  <2>1. Staged'
    BY <1>4 DEF Idle, Step, Staged, IInv, localVars, mainVars, wireVars
  <2>q. QED BY <1>2, <1>4, <2>1 DEF Idle, Steps
<1>5. CASE WaitIdle
  BY <1>2, <1>5 DEF WaitIdle, Step, Steps, Staged, IInv, mainVars, wireVars
<1>6. CASE GoJit
  <2>1. Staged'
    BY <1>6 DEF GoJit, Step, Staged, IInv, localVars, mainVars, wireVars
  <2>q. QED BY <1>2, <1>6, <2>1 DEF GoJit, Steps
<1>7. ASSUME NEW s \in Streams, BuildNothing(s) PROVE IInv'
  BY <1>2, <1>7 DEF BuildNothing, Step, Steps, Staged, IInv, mainVars, wireVars
<1>8. CASE WaitPrevious
  BY <1>2, <1>8 DEF WaitPrevious, Step, Steps, Staged, IInv, mainVars, wireVars, localVars
<1>9. CASE Rebuilt
  BY <1>2, <1>9 DEF Rebuilt, Step, Steps, Staged, IInv, mainVars, wireVars, localVars
<1>10. CASE ReceiverError \/ BuildFails
  BY <1>10, PcStep DEF ReceiverError, BuildFails, Steps, Staged, IInv, mainVars, wireVars
<1>11. CASE ConsumeBlank \/ ConsumeDirty \/ Plan
  BY <1>11, ConsumeBlankStep, ConsumeDirtyStep, PlanStep
<1>12. ASSUME NEW s \in Streams, Build(s) PROVE IInv'
  BY <1>12, BuildStep
<1>13. CASE LateDirty \/ Submit \/ Recover
  BY <1>13, LateDirtyStep, SubmitStep, RecoverStep
<1>14. CASE Deliver \/ TransferFails
  BY <1>14, DeliverStep, TransferFailsStep
<1>15. CASE UNCHANGED vars
  <2>1. UNCHANGED <<kernelVars, streamVars, noteVars, pc, localVars, mainVars, wireVars, histVars>>
    BY <1>15 DEF vars
  <2>2. /\ UNCHANGED <<desk, damage, asked, fb, hash, on, old, requested, at, dirtyTiles,
                       blankTiles>>
        /\ UNCHANGED <<pc, dirty, blank, plan, late, built, seq, inflight, failed, panel,
                       lastIndex, ghost, recovered>>
    BY <2>1 DEF kernelVars, streamVars, noteVars, localVars, mainVars, wireVars, histVars
  <2>3. TypeOK'
    BY <2>2 DEF IInv, TypeOK
  <2>4. Staged' /\ Counted'
    BY <2>2 DEF IInv, Staged, Counted, OnTheWay
  <2>5. ASSUME NEW t \in Streams
        PROVE  Hashed(t)' /\ Grabbed(t)' /\ OnNoted(t)' /\ BuiltNoted(t)' /\ OffNoted(t)'
    BY <2>2 DEF IInv, Hashed, Grabbed, OnNoted, BuiltNoted, OffNoted, Telling, Latest, OnTheWay,
                Broken
  <2>q. QED BY <2>3, <2>4, <2>5 DEF IInv
<1>q. QED
  BY <1>1, <1>3, <1>4, <1>5, <1>6, <1>7, <1>8, <1>9, <1>10, <1>11, <1>12, <1>13, <1>14, <1>15
  DEF Next, Main, Faults

LEMMA AlwaysIInv == Spec => []IInv
<1>1. Init => IInv
  BY InitIInv
<1>2. IInv /\ [Next]_vars => IInv'
  BY NextIInv
<1>q. QED BY <1>1, <1>2, PTL DEF Spec

(* For every range of indexes: in a session the frames of a stream arrive under the
   indexes 2, 3, ... without a gap and never under 0, and in one flight there is one
   packet of a stream at most (main.c:941-949, 989-997, 1369-1395; README.md:89-90). *)
THEOREM FrameIndexesInOrder == Spec => []IndexesInOrder
<1>1. IInv => IndexesInOrder
  <2> SUFFICES ASSUME IInv PROVE IndexesInOrder
    OBVIOUS
  <2>1. TypeOK
    BY DEF IInv
  <2>2. ASSUME inflight # << >>
        PROVE  /\ Head(inflight).seq # 0
               /\ Head(inflight).seq = NextOf(lastIndex[Head(inflight).stream])
    BY <2>1, <2>2, TailOfFrame DEF IInv, Counted
  <2>q. QED BY <2>1, <2>2 DEF IndexesInOrder, NextOf
<1>q. QED BY <1>1, AlwaysIInv, PTL

(* However the threads of the streams, the main loop, the wire and the faults
   interleave: a panel that shows the wrong picture has a correction under way
   (main.c:1153-1154, 1220-1225, 1298-1319, 1343-1375; evdi_source.c:930-975). *)
THEOREM NothingIsForgotten == Spec => []NothingForgotten
<1>1. IInv => NothingForgotten
  <2> SUFFICES ASSUME IInv, NEW s \in Streams, ~Pending(s) PROVE Right(s)
    BY DEF NothingForgotten
  <2>1. /\ at[s] = "loop" /\ fb[s] # NoBuffer /\ (on[s] => ~damage[s]) /\ ~Broken /\ ~Telling(s)
        /\ s \notin dirtyTiles \cup blankTiles \cup dirty \cup blank
        /\ ~OnTheWay(s)
    <3>1. OnTheWay(s) => \E p \in Range(inflight) : p.stream = s
      BY DEF OnTheWay, Range
    <3>q. QED BY <3>1 DEF Pending, Broken, Telling
  <2>2. Hashed(s) /\ Grabbed(s) /\ OnNoted(s) /\ OffNoted(s)
    BY DEF IInv
  <2>3. CASE on[s]
    BY <2>1, <2>2, <2>3 DEF Right, Grabbed, OnNoted, Latest
  <2>4. CASE ~on[s]
    BY <2>1, <2>2, <2>4 DEF Right, OffNoted, Latest
  <2>q. QED BY <2>3, <2>4
<1>q. QED BY <1>1, AlwaysIInv, PTL
=============================================================================
