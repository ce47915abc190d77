--------------------------- MODULE RetainedProofs ---------------------------
(* For every number of bands and pictures and every period: what the main loop
   notes of its packets is what the adapter has retained of them, and so no
   companion is laid over another picture than its band's hash says, unless a
   full picture was noted under the hash of another one.

   The argument: a frame is submitted only when the one before has arrived, so
   that of a band at most one packet is on its way, and the newest hash noted
   is the one of that packet.  All older hashes are of the pictures that will
   be as old when it has arrived.

   From that follows that no damage is lost: a band that nothing marks as dirty
   was grabbed before it was planned, so it is built as it is shown, and its
   companion is laid over the same picture. *)
EXTENDS RetainedBands, FiniteSetTheorems, SequenceTheorems, TLAPS

(* The frame that is built is built as it was planned. *)
Planned ==
    /\ \A b \in DOMAIN packet : packet[b].band = b
    /\ pc \in {"ack", "submit"} => DOMAIN packet = Bands
    /\ pc \in {"build", "rebuild", "ack", "submit"} =>
          /\ plan \in Plans
          /\ plan.black => plan.companion = {}
          /\ \A b \in DOMAIN packet : /\ packet[b].hash = plan.hash[b]
                                      /\ packet[b].companion = (b \in plan.companion)
                                      /\ plan.black \/ packet[b].pict \in Pictures
          /\ \A b \in plan.companion : /\ Len(retained[b]) = Period
                                       /\ Head(retained[b]).hash = plan.hash[b]

(* From the wait for the previous frame to the submission nothing is on its
   way, and an uncertain frame is built with nothing noted. *)
Quiet ==
    /\ pc \in {"ack", "submit", "replan", "rebuild"} => inflight = << >> /\ ~failed
    /\ pc \in {"build", "ack", "submit"} => ~uncertain
    /\ pc \in {"replan", "rebuild"} /\ uncertain => \A b \in Bands : retained[b] = << >>

OneOfEach == \A j, k \in DOMAIN inflight : inflight[j].band = inflight[k].band => j = k

OnTheWay(b) == \E k \in DOMAIN inflight : inflight[k].band = b

(* Of one band, with its notes and the pictures kept of it: *)
IsOf(note, picture, any) == /\ note.pict = picture.patch
                            /\ any \/ note.hash = picture.body

ArrivedIn(notes, views, any) ==
    \A i \in 1 .. Len(notes) : IsOf(notes[i], views[Period - Len(notes) + i], any)

ComingIn(p, notes, views, any) ==
    /\ \A i \in 1 .. Len(notes) - 1 : IsOf(notes[i], views[Period - Len(notes) + i + 1], any)
    /\ Len(notes) > 0 => /\ notes[Len(notes)] = [hash |-> p.hash, pict |-> p.pict]
                         /\ any \/ p.companion \/ p.pict = p.hash

Arrived(b) == ArrivedIn(retained[b], kept[b], raced)
Coming(p)  == ComingIn(p, retained[p.band], kept[p.band], raced)

InStep == ~failed => /\ \A b \in Bands : OnTheWay(b) \/ Arrived(b)
                     /\ \A k \in DOMAIN inflight : Coming(inflight[k])

Based == \A k \in DOMAIN inflight :
            raced \/ ~inflight[k].companion
                  \/ Head(kept[inflight[k].band]).body = inflight[k].hash

IInv == TypeOK /\ Planned /\ Quiet /\ OneOfEach /\ InStep /\ Based

USE RetainedAssumption

-----------------------------------------------------------------------------
FramePackets == {packet[b] : b \in Bands}

(* A packet of every band, in some order: one of each. *)
LEMMA OneFrame ==
    ASSUME DOMAIN packet = Bands, \A b \in Bands : packet[b] \in Packets /\ packet[b].band = b,
           NEW frame, frame = SetToSeq(FramePackets)
    PROVE  /\ frame \in Seq(Packets) /\ Len(frame) <= Cardinality(Bands)
           /\ \A k \in DOMAIN frame : frame[k].band \in Bands /\ frame[k] = packet[frame[k].band]
           /\ \A j, k \in DOMAIN frame : frame[j].band = frame[k].band => j = k
           /\ \A b \in Bands : \E k \in DOMAIN frame : frame[k].band = b
<1>. DEFINE S == {packet[b] : b \in Bands}
            f == [b \in Bands |-> packet[b]]
<1>1. f \in Surjection(Bands, S)
  BY DEF Surjection
<1>2. IsFiniteSet(S) /\ Cardinality(S) <= Cardinality(Bands)
  BY <1>1, FS_Surjection
<1>3. Cardinality(S) \in Nat /\ ExistsBijection(1 .. Cardinality(S), S)
  BY <1>2, FS_CardinalityType
<1>. HIDE DEF S, f
<1>4. PICK g : g \in Bijection(1 .. Cardinality(S), S)
  BY <1>3 DEF ExistsBijection
<1>5. g \in [1 .. Cardinality(S) -> S] /\ IsInjective(g)
  BY <1>4 DEF Bijection, Injection, IsInjective
<1>6. frame \in [1 .. Cardinality(S) -> S] /\ IsInjective(frame)
  BY <1>5 DEF SetToSeq, S, FramePackets
<1>7. S \subseteq Packets /\ \A p \in S : p.band \in Bands /\ p = packet[p.band]
  BY DEF S
<1>8. frame \in Seq(Packets) /\ Len(frame) = Cardinality(S) /\ DOMAIN frame = 1 .. Cardinality(S)
  BY <1>3, <1>6, <1>7
<1>9. \A k \in DOMAIN frame : frame[k].band \in Bands /\ frame[k] = packet[frame[k].band]
  BY <1>6, <1>7, <1>8
<1>10. \A j, k \in DOMAIN frame : frame[j].band = frame[k].band => j = k
  <2> SUFFICES ASSUME NEW j \in DOMAIN frame, NEW k \in DOMAIN frame,
                      frame[j].band = frame[k].band
               PROVE  j = k
    OBVIOUS
  <2>1. frame[j] = frame[k]
    BY <1>9
  <2>q. QED BY <1>6, <2>1 DEF IsInjective
<1>11. ASSUME NEW b \in Bands PROVE \E k \in DOMAIN frame : frame[k].band = b
  <2>1. frame \in Injection(1 .. Cardinality(S), S)
    BY <1>6 DEF Injection, IsInjective
  <2>0. Cardinality(1 .. Cardinality(S)) = Cardinality(S)
    BY <1>3, FS_Interval
  <2>2. frame \in Surjection(1 .. Cardinality(S), S)
    BY <1>2, <1>3, <2>1, <2>0, FS_Injection
  <2>3. packet[b] \in S
    BY DEF S
  <2>4. \E k \in 1 .. Cardinality(S) : frame[k] = packet[b]
    BY <2>2, <2>3 DEF Surjection
  <2>q. QED BY <1>8, <2>4
<1>q. QED BY <1>2, <1>3, <1>8, <1>9, <1>10, <1>11

-----------------------------------------------------------------------------
LEMMA InitIInv == Init => IInv
<1> SUFFICES ASSUME Init PROVE IInv
  OBVIOUS
<1>1. /\ inflight = << >> /\ Len(inflight) = 0 /\ DOMAIN inflight = {}
      /\ inflight \in Seq(Packets) /\ packet = << >> /\ DOMAIN packet = {}
  BY DEF Init, NoPackets
<1>2. ASSUME NEW b \in Bands
      PROVE  /\ retained[b] = << >> /\ Len(retained[b]) = 0 /\ retained[b] \in Seq(Notes)
             /\ kept[b] \in Seq(Retained) /\ Len(kept[b]) = Period
  <2>1. retained[b] = << >> /\ kept[b] = [i \in 1 .. Period |-> Whole(Unknown)]
    BY DEF Init
  <2>2. Whole(Unknown) \in Retained
    BY DEF Whole, Retained, Shown
  <2>3. kept[b] \in [1 .. Period -> Retained]
    BY <2>1, <2>2
  <2>q. QED BY <2>1, <2>3
<1>3. Cardinality(Bands) \in Nat
  BY FS_CardinalityType
<1>4. TypeOK
  <2>1. /\ on \in BOOLEAN /\ blankTiles \in BOOLEAN /\ blank \in BOOLEAN
        /\ uncertain \in BOOLEAN /\ failed \in BOOLEAN /\ raced \in BOOLEAN
    BY DEF Init
  <2>2. /\ fb \in [Bands -> Pictures]
        /\ grabbed \subseteq Bands /\ dirtyTiles \subseteq Bands /\ dirty \subseteq Bands
        /\ pc = "top" /\ plan = NoPlan
    BY DEF Init
  <2>3. \A b \in Bands : /\ retained[b] \in Seq(Notes)
                         /\ Len(retained[b]) <= Period
                         /\ kept[b] \in Seq(Retained)
                         /\ Len(kept[b]) = Period
    BY <1>2
  <2>4. Len(inflight) <= Cardinality(Bands)
    BY <1>1, <1>3
  <2>5. DOMAIN packet \subseteq Bands /\ \A b \in DOMAIN packet : packet[b] \in Packets
    BY <1>1
  <2>q. QED BY <1>1, <2>1, <2>2, <2>3, <2>4, <2>5 DEF TypeOK
<1>5. Planned /\ Quiet
  BY <1>1 DEF Init, Planned, Quiet
<1>6. OneOfEach /\ Based
  BY <1>1 DEF OneOfEach, Based
<1>7. InStep
  <2>1. \A b \in Bands : Arrived(b)
    BY <1>2 DEF Arrived, ArrivedIn
  <2>q. QED BY <1>1, <2>1 DEF InStep
<1>q. QED BY <1>4, <1>5, <1>6, <1>7 DEF IInv

-----------------------------------------------------------------------------
(* The parts of the invariant are about few variables: a step that leaves
   those alone keeps the part. *)
LEMMA StepApart ==
    ASSUME IInv, UNCHANGED <<retained, kept, inflight, failed, raced>>
    PROVE  OneOfEach' /\ InStep' /\ Based'
<1>1. OneOfEach'
  BY DEF IInv, OneOfEach
<1>2. InStep'
  <2>1. \A b : OnTheWay(b)' = OnTheWay(b) /\ Arrived(b)' = Arrived(b)
    BY DEF OnTheWay, Arrived
  <2>2. \A p : Coming(p)' = Coming(p)
    BY DEF Coming
  <2>q. QED BY <2>1, <2>2 DEF IInv, InStep
<1>3. Based'
  BY DEF IInv, Based
<1>q. QED BY <1>1, <1>2, <1>3

(* What a step of the stream's thread may change. *)
LEMMA EvdiStep ==
    ASSUME IInv, UNCHANGED <<mainVars, wireVars>>,
           fb' \in [Bands -> Pictures], grabbed' \subseteq Bands, dirtyTiles' \subseteq Bands,
           on' \in BOOLEAN, blankTiles' \in BOOLEAN
    PROVE  IInv'
<1>1. UNCHANGED <<pc, dirty, blank, uncertain, plan, packet, retained, raced,
                  inflight, failed, kept>>
  BY DEF mainVars, wireVars
<1>2. TypeOK'
  BY <1>1 DEF IInv, TypeOK
<1>3. Planned' /\ Quiet'
  BY <1>1 DEF IInv, Planned, Quiet
<1>q. QED BY <1>1, <1>2, <1>3, StepApart DEF IInv

(* The main thread looks at its notes, waits, or gives up: nothing is built. *)
LEMMA MainStep ==
    ASSUME IInv, UNCHANGED <<fb, grabbed, on, retained, raced, inflight, failed, kept>>,
           dirty' \subseteq Bands, dirtyTiles' \subseteq Bands,
           blank' \in BOOLEAN, blankTiles' \in BOOLEAN,
           uncertain' \in BOOLEAN,
           UNCHANGED <<plan, packet>>,
           pc' \in {"top", "idle", "plan", "ack", "replan", "submit", "recover"},
           Quiet', pc' \in {"ack", "submit"} => pc \in {"build", "ack"} /\ DOMAIN packet = Bands
    PROVE  IInv'
<1>1. TypeOK'
  BY DEF IInv, TypeOK
<1>2. Planned'
  BY DEF IInv, Planned
<1>q. QED BY <1>1, <1>2, StepApart DEF IInv

LEMMA ConsumeTypes ==
    ASSUME TypeOK, Consume
    PROVE  /\ dirty' \subseteq Bands /\ dirtyTiles' \subseteq Bands
           /\ blank' \in BOOLEAN /\ blankTiles' \in BOOLEAN
<1>1. Consumed \subseteq Bands
  BY DEF TypeOK, Consumed
<1>2. dirty' \subseteq Bands /\ dirtyTiles' \subseteq Bands
  BY <1>1 DEF TypeOK, Consume
<1>3. blank' \in BOOLEAN /\ blankTiles' \in BOOLEAN
  BY Zenon DEF TypeOK, Consume
<1>q. QED BY <1>2, <1>3

-----------------------------------------------------------------------------
LEMMA PlanStep ==
    ASSUME IInv, MakePlan, UNCHANGED <<evdiVars, dirty, blank, retained, raced, wireVars>>,
           \/ pc = "plan" /\ pc' = "build" /\ uncertain' = FALSE
           \/ pc = "replan" /\ pc' = "rebuild" /\ uncertain' = uncertain
    PROVE  IInv'
<1>1. UNCHANGED <<fb, grabbed, on, dirtyTiles, blankTiles, dirty, blank, retained, raced,
                  inflight, failed, kept>>
  BY DEF evdiVars, wireVars
<1>2. /\ fb \in [Bands -> Pictures] /\ blank \in BOOLEAN /\ uncertain' \in BOOLEAN
  BY DEF IInv, TypeOK
<1>3. /\ plan'.hash = fb /\ plan'.black = blank /\ packet' = << >> /\ DOMAIN packet' = {}
      /\ plan'.companion = IF blank THEN {}
                           ELSE {b \in Bands \ dirty : BaseMatches(b, fb[b])}
      /\ plan' \in Plans
  BY <1>2 DEF MakePlan, NoPackets, Plans
<1>4. TypeOK'
  BY <1>1, <1>2, <1>3 DEF IInv, TypeOK
<1>5. Planned'
  BY <1>1, <1>3 DEF Planned, BaseMatches
<1>6. Quiet'
  BY <1>1 DEF IInv, Quiet
<1>q. QED BY <1>1, <1>4, <1>5, <1>6, StepApart DEF IInv

LEMMA BuildStep ==
    ASSUME IInv, NEW b \in Bands, BuildBand(b)
    PROVE  IInv'
<1>1. /\ pc \in {"build", "rebuild"} /\ b \notin DOMAIN packet
      /\ packet' = [c \in DOMAIN packet \cup {b} |-> IF c = b THEN Built(b) ELSE packet[c]]
      /\ UNCHANGED <<fb, grabbed, on, dirtyTiles, blankTiles, pc, dirty, blank, uncertain, plan,
                     retained, raced, inflight, failed, kept>>
  BY DEF BuildBand, evdiVars, wireVars
<1>2. plan \in Plans /\ fb \in [Bands -> Pictures]
  BY <1>1 DEF IInv, Planned, TypeOK
<1>3. /\ Built(b) \in Packets
      /\ Built(b).band = b /\ Built(b).hash = plan.hash[b]
      /\ Built(b).companion = (b \in plan.companion)
      /\ plan.black \/ Built(b).pict \in Pictures
  BY <1>2 DEF Built, Packets, Plans
<1>4. /\ DOMAIN packet' = DOMAIN packet \cup {b} /\ packet'[b] = Built(b)
      /\ \A c \in DOMAIN packet : packet'[c] = packet[c]
  BY <1>1
<1>5. TypeOK'
  BY <1>1, <1>3, <1>4 DEF IInv, TypeOK
<1>6. Planned'
  BY <1>1, <1>3, <1>4 DEF IInv, Planned
<1>7. Quiet'
  BY <1>1 DEF IInv, Quiet
<1>q. QED BY <1>1, <1>5, <1>6, <1>7, StepApart DEF IInv

(* With nothing noted every claim about what is noted holds. *)
LEMMA NothingNoted ==
    ASSUME IInv, ResetRetained
    PROVE  /\ \A b \in Bands : /\ retained'[b] = << >> /\ Len(retained'[b]) = 0
                                /\ retained'[b] \in Seq(Notes) /\ Len(retained'[b]) <= Period
           /\ \A b \in Bands : Arrived(b)'
           /\ raced' = FALSE
<1>1. ASSUME NEW b \in Bands PROVE retained'[b] = << >>
  BY DEF ResetRetained
<1>2. ASSUME NEW b \in Bands PROVE Len(retained'[b]) = 0 /\ retained'[b] \in Seq(Notes)
  <2>1. << >> \in Seq(Notes) /\ Len(<< >>) = 0
    OBVIOUS
  <2>q. QED BY <1>1, <2>1
<1>3. raced' = FALSE
  BY DEF ResetRetained
<1>4. ASSUME NEW b \in Bands PROVE Arrived(b)'
  <2>1. Len(retained'[b]) = 0
    BY <1>2
  <2>q. QED BY <2>1 DEF Arrived, ArrivedIn
<1>q. QED BY <1>1, <1>2, <1>3, <1>4

LEMMA AckUncertainStep == IInv /\ AckUncertain => IInv'
<1> SUFFICES ASSUME IInv, AckUncertain PROVE IInv'
  OBVIOUS
<1>1. /\ pc = "ack" /\ pc' = "replan" /\ uncertain' = TRUE
      /\ UNCHANGED <<fb, grabbed, on, plan, packet, inflight, failed, kept>>
      /\ inflight = << >> /\ ~failed /\ DOMAIN inflight = {}
  BY DEF AckUncertain, wireVars, IInv, Quiet
<1>2. /\ dirty' \subseteq Bands /\ dirtyTiles' \subseteq Bands
      /\ blank' \in BOOLEAN /\ blankTiles' \in BOOLEAN
  BY ConsumeTypes DEF AckUncertain, IInv
<1>3. /\ \A b \in Bands : /\ retained'[b] = << >> /\ Len(retained'[b]) = 0
                           /\ retained'[b] \in Seq(Notes) /\ Len(retained'[b]) <= Period
      /\ \A b \in Bands : Arrived(b)'
      /\ raced' = FALSE
  BY NothingNoted DEF AckUncertain
<1>4. TypeOK'
  BY <1>1, <1>2, <1>3 DEF IInv, TypeOK
<1>5. Planned' /\ Quiet'
  BY <1>1, <1>3 DEF IInv, Planned, Quiet
<1>6. OneOfEach' /\ InStep' /\ Based'
  BY <1>1, <1>3 DEF OneOfEach, InStep, Based
<1>q. QED BY <1>4, <1>5, <1>6 DEF IInv

LEMMA RecoverStep == IInv /\ Recover => IInv'
<1> SUFFICES ASSUME IInv, Recover PROVE IInv'
  OBVIOUS
<1>1. /\ pc' = "top" /\ dirty' = Bands /\ failed' = FALSE
      /\ inflight' = << >> /\ DOMAIN inflight' = {}
      /\ inflight' \in Seq(Packets) /\ Len(inflight') = 0
      /\ plan' = NoPlan /\ packet' = << >> /\ DOMAIN packet' = {}
      /\ UNCHANGED <<fb, grabbed, on, dirtyTiles, blankTiles, blank, uncertain>>
  BY DEF Recover, NoPackets, evdiVars
<1>2. ASSUME NEW b \in Bands PROVE kept'[b] \in Seq(Retained) /\ Len(kept'[b]) = Period
  <2>1. kept'[b] = [i \in 1 .. Period |-> Whole(Unknown)]
    BY DEF Recover
  <2>2. Whole(Unknown) \in Retained
    BY DEF Whole, Retained, Shown
  <2>3. kept'[b] \in [1 .. Period -> Retained]
    BY <2>1, <2>2
  <2>q. QED BY <2>1, <2>3
<1>3. /\ \A b \in Bands : /\ retained'[b] = << >> /\ Len(retained'[b]) = 0
                           /\ retained'[b] \in Seq(Notes) /\ Len(retained'[b]) <= Period
      /\ \A b \in Bands : Arrived(b)'
      /\ raced' = FALSE
  BY NothingNoted DEF Recover
<1>4. TypeOK'
  <2>1. Len(inflight') <= Cardinality(Bands)
    BY <1>1, FS_CardinalityType
  <2>2. \A p \in DOMAIN packet' : packet'[p] \in Packets
    BY <1>1
  <2>q. QED BY <1>1, <1>2, <1>3, <2>1, <2>2 DEF IInv, TypeOK
<1>5. Planned' /\ Quiet'
  BY <1>1 DEF Planned, Quiet
<1>6. OneOfEach' /\ InStep' /\ Based'
  BY <1>1, <1>3 DEF OneOfEach, InStep, Based
<1>q. QED BY <1>4, <1>5, <1>6 DEF IInv

-----------------------------------------------------------------------------
LEMMA HeadAndTail ==
    ASSUME IInv, inflight # << >>
    PROVE  /\ Head(inflight) = inflight[1] /\ 1 \in DOMAIN inflight
           /\ Head(inflight) \in Packets
           /\ Tail(inflight) \in Seq(Packets) /\ Len(Tail(inflight)) <= Cardinality(Bands)
           /\ \A k \in DOMAIN Tail(inflight) :
                 /\ k + 1 \in DOMAIN inflight /\ k + 1 # 1
                 /\ Tail(inflight)[k] = inflight[k + 1] /\ inflight[k + 1] \in Packets
           /\ \A k \in DOMAIN inflight : k # 1 => \E j \in DOMAIN Tail(inflight) : k = j + 1
<1>1. inflight \in Seq(Packets) /\ Len(inflight) <= Cardinality(Bands)
  BY DEF IInv, TypeOK
<1>2. Cardinality(Bands) \in Nat
  BY FS_CardinalityType
<1>3. /\ Len(inflight) \in Nat \ {0} /\ DOMAIN inflight = 1 .. Len(inflight)
      /\ \A k \in 1 .. Len(inflight) : inflight[k] \in Packets
  BY <1>1
<1>4. /\ Tail(inflight) \in Seq(Packets) /\ Len(Tail(inflight)) = Len(inflight) - 1
      /\ DOMAIN Tail(inflight) = 1 .. Len(inflight) - 1
      /\ \A k \in 1 .. Len(inflight) - 1 : Tail(inflight)[k] = inflight[k + 1]
  BY <1>1, <1>3
<1>5. Head(inflight) = inflight[1]
  BY <1>1, <1>3
<1>6. ASSUME NEW k \in DOMAIN inflight, k # 1
      PROVE  \E j \in DOMAIN Tail(inflight) : k = j + 1
  <2>1. k - 1 \in DOMAIN Tail(inflight) /\ k = (k - 1) + 1
    BY <1>3, <1>4, <1>6
  <2>q. QED BY <2>1
<1>q. QED BY <1>1, <1>2, <1>3, <1>4, <1>5, <1>6

(* Without its first packet the frame in flight is still one of each band. *)
LEMMA TailOneOfEach ==
    ASSUME IInv, inflight # << >>, inflight' = Tail(inflight)
    PROVE  OneOfEach' /\ \A k \in DOMAIN inflight' : inflight'[k].band # Head(inflight).band
<1>1. ASSUME NEW j \in DOMAIN inflight', NEW k \in DOMAIN inflight',
             inflight'[j].band = inflight'[k].band
      PROVE  j = k
  <2>1. j + 1 = k + 1
    BY <1>1, HeadAndTail DEF IInv, OneOfEach
  <2>2. j \in Int /\ k \in Int
    BY HeadAndTail
  <2>q. QED BY <2>1, <2>2
<1>2. ASSUME NEW k \in DOMAIN inflight', inflight'[k].band = Head(inflight).band
      PROVE  FALSE
  BY <1>2, HeadAndTail DEF IInv, OneOfEach
<1>q. QED BY <1>1, <1>2 DEF OneOfEach

LEMMA TransferFailsStep == IInv /\ TransferFails => IInv'
<1> SUFFICES ASSUME IInv, TransferFails PROVE IInv'
  OBVIOUS
<1>1. /\ inflight # << >> /\ inflight' = Tail(inflight) /\ failed' = TRUE
      /\ UNCHANGED <<fb, grabbed, on, dirtyTiles, blankTiles, pc, dirty, blank, uncertain, plan,
                     packet, retained, raced, kept>>
  BY DEF TransferFails, evdiVars, mainVars
<1>2. TypeOK'
  BY <1>1, HeadAndTail DEF IInv, TypeOK
<1>3. Planned'
  BY <1>1 DEF IInv, Planned
<1>4. Quiet'
  BY <1>1 DEF IInv, Quiet
<1>5. OneOfEach'
  BY <1>1, TailOneOfEach
<1>6. InStep'
  BY <1>1 DEF InStep
<1>7. Based'
  BY <1>1, HeadAndTail DEF IInv, Based
<1>q. QED BY <1>2, <1>3, <1>4, <1>5, <1>6, <1>7 DEF IInv

(* Of the band of the packet that arrives, every retained picture is one older
   now, and the newest is the packet's. *)
LEMMA KeptAfter ==
    ASSUME IInv, Deliver, NEW p, p = Head(inflight)
    PROVE  /\ p \in Packets
           /\ kept'[p.band] \in Seq(Retained) /\ Len(kept'[p.band]) = Period
           /\ \A i \in 1 .. Period - 1 : kept'[p.band][i] = kept[p.band][i + 1]
           /\ kept'[p.band][Period] = PictureOf(p)
           /\ \A b \in Bands \ {p.band} : kept'[b] = kept[b]
<1>1. p \in Packets /\ p.band \in Bands /\ inflight # << >>
  BY HeadAndTail DEF Deliver, Packets
<1>2. kept[p.band] \in Seq(Retained) /\ Len(kept[p.band]) = Period
  BY <1>1 DEF IInv, TypeOK
<1>3. Head(kept[p.band]) \in Retained
  BY <1>2
<1>4. PictureOf(p) \in Retained
  BY <1>1, <1>3 DEF PictureOf, Retained, Packets, Shown
<1>5. kept'[p.band] = Append(Tail(kept[p.band]), PictureOf(p))
  BY <1>1 DEF Deliver
<1>6. ASSUME NEW q \in Seq(Retained), Len(q) = Period, NEW n \in Retained
      PROVE  /\ Append(Tail(q), n) \in Seq(Retained) /\ Len(Append(Tail(q), n)) = Period
             /\ \A i \in 1 .. Period - 1 : Append(Tail(q), n)[i] = q[i + 1]
             /\ Append(Tail(q), n)[Period] = n
  <2>1. Tail(q) \in Seq(Retained) /\ Len(Tail(q)) = Period - 1
        /\ \A i \in 1 .. Period - 1 : Tail(q)[i] = q[i + 1]
    BY <1>6
  <2>q. QED BY <1>6, <2>1
<1>7. \A b \in Bands \ {p.band} : kept'[b] = kept[b]
  BY DEF Deliver
<1>q. QED BY <1>1, <1>2, <1>4, <1>5, <1>6, <1>7

LEMMA DeliverStep == IInv /\ Deliver => IInv'
<1> SUFFICES ASSUME IInv, Deliver PROVE IInv'
  OBVIOUS
<1>0. PICK p : p = Head(inflight)
  OBVIOUS
<1>1. /\ inflight # << >> /\ inflight' = Tail(inflight)
      /\ UNCHANGED <<fb, grabbed, on, dirtyTiles, blankTiles, pc, dirty, blank, uncertain, plan,
                     packet, retained, raced, failed>>
  BY DEF Deliver, evdiVars, mainVars
<1>2. /\ p \in Packets /\ p.band \in Bands /\ p = inflight[1] /\ 1 \in DOMAIN inflight
      /\ kept'[p.band] \in Seq(Retained) /\ Len(kept'[p.band]) = Period
      /\ \A i \in 1 .. Period - 1 : kept'[p.band][i] = kept[p.band][i + 1]
      /\ kept'[p.band][Period] = PictureOf(p)
      /\ \A b \in Bands \ {p.band} : kept'[b] = kept[b]
  BY <1>0, <1>1, KeptAfter, HeadAndTail DEF Packets
<1>3. /\ \A k \in DOMAIN inflight' : /\ inflight'[k].band # p.band
                                    /\ inflight'[k].band \in Bands
                                    /\ \E j \in DOMAIN inflight : inflight'[k] = inflight[j]
      /\ \A j \in DOMAIN inflight : j # 1 => \E k \in DOMAIN inflight' : inflight'[k] = inflight[j]
  BY <1>0, <1>1, HeadAndTail, TailOneOfEach DEF Packets
<1>4. TypeOK'
  <2>1. \A b \in Bands : kept'[b] \in Seq(Retained) /\ Len(kept'[b]) = Period
    BY <1>2 DEF IInv, TypeOK
  <2>q. QED BY <1>1, <2>1, HeadAndTail DEF IInv, TypeOK
<1>5. Planned'
  BY <1>1 DEF IInv, Planned
<1>6. Quiet'
  BY <1>1 DEF IInv, Quiet
<1>7. OneOfEach'
  BY <1>1, TailOneOfEach
<1>8. Based'
  BY <1>1, <1>2, <1>3 DEF IInv, Based
<1>9. InStep'
  <2> SUFFICES ASSUME ~failed PROVE (\A b \in Bands : OnTheWay(b)' \/ Arrived(b)')
                                    /\ (\A k \in DOMAIN inflight' : Coming(inflight[k])')
    BY <1>1 DEF InStep
  <2>1. ASSUME NEW k \in DOMAIN inflight' PROVE Coming(inflight[k])'
    <3>1. PICK j \in DOMAIN inflight : inflight'[k] = inflight[j]
      BY <1>3
    <3>2. PICK q : q = inflight[j]
      OBVIOUS
    <3>3. /\ Coming(q) /\ q.band \in Bands /\ kept'[q.band] = kept[q.band]
          /\ retained' = retained /\ raced' = raced /\ q = inflight'[k]
      BY <1>1, <1>2, <1>3, <3>1, <3>2 DEF IInv, InStep
    <3>4. Coming(q)'
      BY <3>3 DEF Coming
    <3>q. QED BY <3>3, <3>4 DEF Coming
  <2>2. ASSUME NEW b \in Bands, b # p.band PROVE OnTheWay(b)' \/ Arrived(b)'
    <3>1. OnTheWay(b) => OnTheWay(b)'
      BY <1>2, <1>3, <2>2 DEF OnTheWay
    <3>2. Arrived(b) => Arrived(b)'
      BY <1>1, <1>2, <2>2 DEF Arrived
    <3>q. QED BY <3>1, <3>2 DEF IInv, InStep
  <2>3. Arrived(p.band)'
    <3>0. PICK r, n : r = retained[p.band] /\ n = Len(r)
      OBVIOUS
    <3>1. /\ Coming(p)
          /\ raced \/ ~p.companion \/ Head(kept[p.band]).body = p.hash
      BY <1>2 DEF IInv, InStep, Based
    <3>2. /\ n \in 0 .. Period /\ retained'[p.band] = r /\ raced' = raced
      BY <1>1, <1>2, <3>0 DEF IInv, TypeOK
    <3>3. ASSUME NEW i \in 1 .. n - 1
          PROVE  IsOf(r[i], kept'[p.band][Period - n + i], raced)
      <4>1. IsOf(r[i], kept[p.band][Period - n + i + 1], raced)
        BY <3>0, <3>1 DEF Coming, ComingIn
      <4>2. Period - n + i \in 1 .. Period - 1
        BY <3>2
      <4>q. QED BY <1>2, <4>1, <4>2
    <3>4. ASSUME n > 0
          PROVE  IsOf(r[n], kept'[p.band][Period], raced)
      <4>1. r[n].pict = p.pict /\ r[n].hash = p.hash /\ (raced \/ p.companion \/ p.pict = p.hash)
        BY <3>0, <3>1, <3>4 DEF Coming, ComingIn
      <4>2. PictureOf(p).patch = p.pict
        BY DEF PictureOf
      <4>3. ~raced => PictureOf(p).body = p.hash
        BY <3>1, <4>1 DEF PictureOf
      <4>q. QED BY <1>2, <4>1, <4>2, <4>3 DEF IsOf
    <3>5. ASSUME NEW i \in 1 .. n PROVE IsOf(r[i], kept'[p.band][Period - n + i], raced)
      <4>1. CASE i = n
        <5>1. n > 0 /\ Period - n + i = Period
          BY <3>2, <4>1
        <5>q. QED BY <3>4, <4>1, <5>1
      <4>2. CASE i \in 1 .. n - 1
        BY <3>3, <4>2
      <4>q. QED BY <3>2, <4>1, <4>2
    <3>q. QED BY <3>0, <3>2, <3>5 DEF Arrived, ArrivedIn
  <2>q. QED BY <2>1, <2>2, <2>3
<1>q. QED BY <1>4, <1>5, <1>6, <1>7, <1>8, <1>9 DEF IInv

-----------------------------------------------------------------------------
LEMMA TailOfNotes ==
    ASSUME NEW notes \in Seq(Notes), Len(notes) = Period
    PROVE  /\ Tail(notes) \in Seq(Notes) /\ Len(Tail(notes)) = Period - 1
           /\ \A i \in 1 .. Period - 1 : Tail(notes)[i] = notes[i + 1]
OBVIOUS

(* A hash is noted behind the others, and the oldest goes when there are
   Period of them: the older ones are one older too. *)
LEMMA NoteIn ==
    ASSUME NEW notes \in Seq(Notes), Len(notes) <= Period, NEW views,
           NEW any \in BOOLEAN, NEW now \in BOOLEAN,
           ArrivedIn(notes, views, any), any => now,
           NEW p \in Packets, NEW note \in Notes, note = [hash |-> p.hash, pict |-> p.pict],
           now \/ p.companion \/ p.pict = p.hash,
           NEW noted,
           noted = IF Len(notes) = Period THEN Append(Tail(notes), note)
                   ELSE Append(notes, note)
    PROVE  ComingIn(p, noted, views, now) /\ noted \in Seq(Notes) /\ Len(noted) <= Period
<1>0. PICK m \in 0 .. Period : m = Len(notes)
  OBVIOUS
<1>1. \A i \in 1 .. m : IsOf(notes[i], views[Period - m + i], now)
  BY <1>0 DEF ArrivedIn, IsOf
<1>2. ASSUME NEW k \in 1 .. Period, noted \in Seq(Notes), Len(noted) = k, noted[k] = note,
             \A i \in 1 .. k - 1 : IsOf(noted[i], views[Period - k + i + 1], now)
      PROVE  ComingIn(p, noted, views, now) /\ noted \in Seq(Notes) /\ Len(noted) <= Period
  <2>1. \A i \in 1 .. Len(noted) - 1 : IsOf(noted[i], views[Period - Len(noted) + i + 1], now)
    BY <1>2
  <2>2. noted[Len(noted)] = [hash |-> p.hash, pict |-> p.pict]
    BY <1>2
  <2>3. Len(noted) <= Period
    BY <1>2
  <2>q. QED BY <1>2, <2>1, <2>2, <2>3 DEF ComingIn
<1>3. CASE m = Period
  <2>1. /\ noted = Append(Tail(notes), note) /\ Tail(notes) \in Seq(Notes)
        /\ Len(Tail(notes)) = Period - 1
        /\ \A i \in 1 .. Period - 1 : Tail(notes)[i] = notes[i + 1]
    <3>1. noted = Append(Tail(notes), note) /\ Len(notes) = Period
      BY <1>0, <1>3
    <3>q. QED BY <3>1, TailOfNotes
  <2>2. /\ noted \in Seq(Notes) /\ Len(noted) = Period /\ noted[Period] = note
        /\ \A i \in 1 .. Period - 1 : noted[i] = notes[i + 1]
    BY <2>1
  <2>3. ASSUME NEW i \in 1 .. Period - 1
        PROVE  IsOf(noted[i], views[Period - Period + i + 1], now)
    <3>1. i + 1 \in 1 .. m /\ Period - m + (i + 1) = Period - Period + i + 1
      BY <1>3
    <3>2. IsOf(notes[i + 1], views[Period - m + (i + 1)], now)
      BY <1>1, <3>1
    <3>q. QED BY <2>2, <3>1, <3>2
  <2>4. Period \in 1 .. Period
    OBVIOUS
  <2>q. QED BY <1>2, <2>2, <2>3, <2>4
<1>4. CASE m # Period
  <2>1. noted = Append(notes, note) /\ m + 1 \in 1 .. Period
    BY <1>0, <1>4
  <2>2. /\ noted \in Seq(Notes) /\ Len(noted) = m + 1 /\ noted[m + 1] = note
        /\ \A i \in 1 .. m : noted[i] = notes[i]
    BY <1>0, <2>1
  <2>3. ASSUME NEW i \in 1 .. (m + 1) - 1
        PROVE  IsOf(noted[i], views[Period - (m + 1) + i + 1], now)
    <3>1. i \in 1 .. m /\ Period - (m + 1) + i + 1 = Period - m + i
      BY <1>0
    <3>q. QED BY <1>1, <2>2, <3>1
  <2>q. QED BY <1>2, <2>1, <2>2, <2>3
<1>q. QED BY <1>3, <1>4

(* What is handed to the transport is one packet of each band. *)
LEMMA SubmitSends ==
    ASSUME IInv, Submit
    PROVE  /\ inflight' \in Seq(Packets) /\ Len(inflight') <= Cardinality(Bands)
           /\ \A k \in DOMAIN inflight' : /\ inflight'[k].band \in Bands
                                         /\ inflight'[k] = packet[inflight'[k].band]
           /\ \A j, k \in DOMAIN inflight' : inflight'[j].band = inflight'[k].band => j = k
           /\ \A b \in Bands : \E k \in DOMAIN inflight' : inflight'[k].band = b
<1>1. DOMAIN packet = Bands /\ \A b \in Bands : packet[b] \in Packets /\ packet[b].band = b
  BY DEF Submit, IInv, Planned, TypeOK
<1>2. inflight' = SetToSeq(FramePackets)
  BY DEF Submit, FramePackets
<1>3. PICK frame : frame = inflight'
  OBVIOUS
<1>4. /\ frame \in Seq(Packets) /\ Len(frame) <= Cardinality(Bands)
      /\ \A k \in DOMAIN frame : frame[k].band \in Bands /\ frame[k] = packet[frame[k].band]
      /\ \A j, k \in DOMAIN frame : frame[j].band = frame[k].band => j = k
      /\ \A b \in Bands : \E k \in DOMAIN frame : frame[k].band = b
  BY <1>1, <1>2, <1>3, OneFrame
<1>q. QED BY <1>3, <1>4

LEMMA SubmitStep == IInv /\ Submit => IInv'
<1> SUFFICES ASSUME IInv, Submit PROVE IInv'
  OBVIOUS
<1>1. /\ pc \in {"ack", "submit", "rebuild"} /\ DOMAIN packet = Bands
      /\ inflight = << >> /\ DOMAIN inflight = {} /\ ~failed
      /\ pc' = "top" /\ dirty' = {} /\ plan' = NoPlan /\ packet' = << >> /\ DOMAIN packet' = {}
      /\ blank' = (blank /\ ~plan.black)
      /\ UNCHANGED <<fb, grabbed, on, dirtyTiles, blankTiles, uncertain, failed, kept>>
  BY DEF Submit, NoPackets, evdiVars, IInv, Planned, Quiet
<1>2. /\ plan \in Plans /\ (plan.black => plan.companion = {})
      /\ \A b \in Bands : /\ packet[b] \in Packets
                          /\ packet[b].band = b /\ packet[b].hash = plan.hash[b]
                          /\ packet[b].companion = (b \in plan.companion)
                          /\ plan.black \/ packet[b].pict \in Pictures
      /\ \A b \in plan.companion : /\ Len(retained[b]) = Period
                                   /\ Head(retained[b]).hash = plan.hash[b]
  BY <1>1 DEF IInv, Planned, TypeOK
<1>3. /\ inflight' \in Seq(Packets) /\ Len(inflight') <= Cardinality(Bands)
      /\ \A k \in DOMAIN inflight' : /\ inflight'[k].band \in Bands
                                    /\ inflight'[k] = packet[inflight'[k].band]
      /\ \A j, k \in DOMAIN inflight' : inflight'[j].band = inflight'[k].band => j = k
      /\ \A b \in Bands : \E k \in DOMAIN inflight' : inflight'[k].band = b
  BY SubmitSends
<1>4. ASSUME NEW b \in Bands
      PROVE  /\ retained[b] \in Seq(Notes) /\ Len(retained[b]) <= Period
             /\ ArrivedIn(retained[b], kept[b], raced)
  BY <1>1 DEF IInv, TypeOK, InStep, OnTheWay, Arrived
<1>5. /\ \A b \in Bands : retained'[b] \in Seq(Notes) /\ Len(retained'[b]) <= Period
      /\ raced' \in BOOLEAN
      /\ \A b \in Bands : ComingIn(packet[b], retained'[b], kept[b], raced')
      /\ \A b \in Bands : \/ raced' \/ ~packet[b].companion
                           \/ Head(kept[b]).body = packet[b].hash
  <2>1. CASE plan.black \/ uncertain
    <3>1. /\ \A b \in Bands : /\ Len(retained'[b]) = 0
                              /\ retained'[b] \in Seq(Notes) /\ Len(retained'[b]) <= Period
          /\ raced' = FALSE
      BY <2>1, NothingNoted DEF Submit
    <3>2. \A b \in Bands : ~packet[b].companion
      <4>1. CASE plan.black
        BY <1>2, <4>1
      <4>2. CASE uncertain
        <5>1. \A b \in Bands : Len(retained[b]) = 0
          BY <1>1, <4>2 DEF IInv, Quiet
        <5>q. QED BY <1>2, <5>1 DEF Plans
      <4>q. QED BY <2>1, <4>1, <4>2
    <3>3. \A b \in Bands : ComingIn(packet[b], retained'[b], kept[b], raced')
      <4> TAKE b \in Bands
      <4>1. Len(retained'[b]) = 0
        BY <3>1
      <4>q. QED BY <4>1 DEF ComingIn
    <3>q. QED BY <3>1, <3>2, <3>3
  <2>2. CASE ~(plan.black \/ uncertain)
    <3>1. /\ \A b \in Bands : retained'[b] = Noted(b)
          /\ raced' = Raced
      BY <2>2 DEF Submit, NotePlan
    <3>2. raced' \in BOOLEAN
      BY <3>1, Zenon DEF Raced, IInv, TypeOK
    <3>3. /\ raced => raced'
          /\ \A b \in Bands : raced' \/ packet[b].companion \/ packet[b].pict = plan.hash[b]
      BY <3>1, Zenon DEF Raced
    <3>4. ASSUME NEW b \in Bands
          PROVE  /\ retained'[b] \in Seq(Notes) /\ Len(retained'[b]) <= Period
                 /\ ComingIn(packet[b], retained'[b], kept[b], raced')
      <4>. DEFINE note == [hash |-> plan.hash[b], pict |-> packet[b].pict]
      <4>1. note \in Notes /\ note = [hash |-> packet[b].hash, pict |-> packet[b].pict]
        BY <1>2, <2>2 DEF Notes, Plans
      <4>2. raced' \/ packet[b].companion \/ packet[b].pict = packet[b].hash
        BY <1>2, <3>3
      <4>3. retained'[b] = IF Len(retained[b]) = Period THEN Append(Tail(retained[b]), note)
                           ELSE Append(retained[b], note)
        BY <3>1 DEF Noted
      <4>. HIDE DEF note
      <4>4. PICK n, noted : n = note /\ noted = retained'[b]
        OBVIOUS
      <4>5. PICK p, any, now : p = packet[b] /\ any = raced /\ now = raced'
        OBVIOUS
      <4>6. PICK notes, views : notes = retained[b] /\ views = kept[b]
        OBVIOUS
      <4>7. /\ notes \in Seq(Notes) /\ Len(notes) <= Period /\ ArrivedIn(notes, views, any)
            /\ any \in BOOLEAN /\ now \in BOOLEAN /\ (any => now) /\ p \in Packets
        BY <1>2, <1>4, <3>2, <3>3, <4>5, <4>6 DEF IInv, TypeOK
      <4>8. /\ n \in Notes /\ n = [hash |-> p.hash, pict |-> p.pict]
            /\ now \/ p.companion \/ p.pict = p.hash
            /\ noted = IF Len(notes) = Period THEN Append(Tail(notes), n) ELSE Append(notes, n)
        BY <4>1, <4>2, <4>3, <4>4, <4>5, <4>6
      <4>9. ComingIn(p, noted, views, now) /\ noted \in Seq(Notes) /\ Len(noted) <= Period
        BY <4>7, <4>8, NoteIn
      <4>q. QED BY <4>4, <4>5, <4>6, <4>9
    <3>5. ASSUME NEW b \in Bands, ~raced', packet[b].companion
          PROVE  Head(kept[b]).body = packet[b].hash
      <4>1. /\ ~raced /\ Len(retained[b]) = Period /\ Head(retained[b]).hash = packet[b].hash
        BY <1>2, <3>3, <3>5
      <4>2. IsOf(retained[b][1], kept[b][1], raced)
        <5>1. /\ 1 \in 1 .. Len(retained[b]) /\ Period - Len(retained[b]) + 1 = 1
          BY <4>1
        <5>2. IsOf(retained[b][1], kept[b][Period - Len(retained[b]) + 1], raced)
          BY <1>4, <5>1 DEF ArrivedIn
        <5>q. QED BY <5>1, <5>2
      <4>3. Head(retained[b]) = retained[b][1] /\ Head(kept[b]) = kept[b][1]
        BY <1>4, <4>1 DEF IInv, TypeOK
      <4>q. QED BY <4>1, <4>2, <4>3 DEF IsOf
    <3>q. QED BY <3>2, <3>4, <3>5
  <2>q. QED BY <2>1, <2>2
<1>6. TypeOK'
  <2>1. blank' \in BOOLEAN
    BY <1>1, Zenon
  <2>2. dirty' \subseteq Bands /\ \A b \in DOMAIN packet' : packet'[b] \in Packets
    BY <1>1
  <2>q. QED BY <1>1, <1>3, <1>5, <2>1, <2>2 DEF IInv, TypeOK
<1>7. Planned' /\ Quiet'
  BY <1>1 DEF Planned, Quiet
<1>8. OneOfEach'
  BY <1>3 DEF OneOfEach
<1>9. InStep'
  <2>1. \A b \in Bands : OnTheWay(b)'
    BY <1>3 DEF OnTheWay
  <2>2. \A k \in DOMAIN inflight' : Coming(inflight[k])'
    BY <1>1, <1>3, <1>5 DEF Coming
  <2>q. QED BY <2>1, <2>2 DEF InStep
<1>10. Based'
  BY <1>1, <1>3, <1>5 DEF Based
<1>q. QED BY <1>6, <1>7, <1>8, <1>9, <1>10 DEF IInv

-----------------------------------------------------------------------------
LEMMA NextIInv == IInv /\ [Next]_vars => IInv'
<1> SUFFICES ASSUME IInv, [Next]_vars PROVE IInv'
  OBVIOUS
<1>t. /\ fb \in [Bands -> Pictures] /\ grabbed \subseteq Bands
      /\ dirtyTiles \subseteq Bands /\ dirty \subseteq Bands
      /\ on \in BOOLEAN /\ blankTiles \in BOOLEAN /\ blank \in BOOLEAN
      /\ uncertain \in BOOLEAN
  BY DEF IInv, TypeOK
<1>1. CASE Grab
  BY <1>1, <1>t, EvdiStep DEF Grab
<1>2. CASE PublishDirty
  BY <1>2, <1>t, EvdiStep DEF PublishDirty
<1>3. CASE SwitchOff
  BY <1>3, <1>t, EvdiStep DEF SwitchOff
<1>4. CASE SwitchOn
  BY <1>4, <1>t, EvdiStep DEF SwitchOn
<1>5. CASE Top
  <2>1. Quiet'
    BY <1>5 DEF Top, Quiet
  <2>q. QED BY <1>5, <1>t, <2>1, ConsumeTypes, MainStep DEF Top, wireVars, IInv
<1>6. CASE ReceiverError
  <2>1. Quiet'
    BY <1>6 DEF ReceiverError, Quiet
  <2>q. QED BY <1>6, <1>t, <2>1, ConsumeTypes, MainStep DEF ReceiverError, wireVars, IInv
<1>7. CASE Plan
  BY <1>7, PlanStep DEF Plan
<1>8. ASSUME NEW b \in Bands, BuildBand(b) PROVE IInv'
  BY <1>8, BuildStep
<1>9. CASE BuildFails
  <2>1. Quiet'
    BY <1>9 DEF BuildFails, Quiet
  <2>q. QED BY <1>9, <1>t, <2>1, MainStep DEF BuildFails, evdiVars, wireVars
<1>10. CASE WaitPrevious
  <2>1. Quiet'
    BY <1>10 DEF WaitPrevious, Quiet, IInv, wireVars
  <2>q. QED BY <1>10, <1>t, <2>1, MainStep DEF WaitPrevious, evdiVars, wireVars
<1>11. CASE WaitIdle
  <2>1. Quiet'
    BY <1>11 DEF WaitIdle, Quiet
  <2>q. QED BY <1>11, <1>t, <2>1, MainStep DEF WaitIdle, evdiVars, wireVars
<1>12. CASE LateRebuild
  <2>1. Quiet'
    BY <1>12 DEF LateRebuild, Quiet, IInv, wireVars
  <2>2. DOMAIN packet = Bands
    BY <1>12 DEF LateRebuild, IInv, Planned
  <2>q. QED BY <1>12, <1>t, <2>1, <2>2, ConsumeTypes, MainStep DEF LateRebuild, wireVars, IInv
<1>13. CASE AckUncertain
  BY <1>13, AckUncertainStep
<1>14. CASE Replan
  BY <1>14, PlanStep DEF Replan
<1>15. CASE Submit
  BY <1>15, SubmitStep
<1>16. CASE Recover
  BY <1>16, RecoverStep
<1>17. CASE Deliver
  BY <1>17, DeliverStep
<1>18. CASE TransferFails
  BY <1>18, TransferFailsStep
<1>19. CASE UNCHANGED vars
  <2>1. UNCHANGED <<evdiVars, mainVars, wireVars>>
    BY <1>19 DEF vars
  <2>q. QED BY <1>t, <2>1, EvdiStep DEF evdiVars
<1>q. QED
  BY <1>1, <1>2, <1>3, <1>4, <1>5, <1>6, <1>7, <1>8, <1>9, <1>10, <1>11, <1>12, <1>13, <1>14,
     <1>15, <1>16, <1>17, <1>18, <1>19 DEF Next

LEMMA AlwaysIInv == Spec => []IInv
<1>1. Init => IInv
  BY InitIInv
<1>2. IInv /\ [Next]_vars => IInv'
  BY NextIInv
<1>q. QED BY <1>1, <1>2, PTL DEF Spec

(* The noted hashes and the pictures the adapter retains stay in step, for
   every number of bands and every period (main.c:348-366, 1343-1351). *)
THEOREM RetainedInStep == Spec => []BasisInStep
<1>1. IInv => BasisInStep
  <2> SUFFICES ASSUME IInv, inflight = << >>, ~failed,
                      NEW b \in Bands, NEW i \in 1 .. Len(retained[b])
               PROVE  retained[b][i].pict = kept[b][Period - Len(retained[b]) + i].patch
    BY DEF IInv, BasisInStep
  <2>1. DOMAIN inflight = {}
    OBVIOUS
  <2>q. QED BY <2>1 DEF IInv, InStep, OnTheWay, Arrived, ArrivedIn, IsOf
<1>q. QED BY <1>1, AlwaysIInv, PTL

(* A companion is laid over the picture its band's hash was computed from, or
   a full picture was noted under the hash of another one before (README.md:77-79,
   main.c:340-344, 480-594). *)
THEOREM RetainedBasis == Spec => []CompanionBasisUnlessRaced
<1>1. IInv => CompanionBasisUnlessRaced
  <2> SUFFICES ASSUME IInv, ~raced, inflight # << >>, Head(inflight).companion
               PROVE  Head(kept[Head(inflight).band]).body = Head(inflight).hash
    BY DEF CompanionBasisUnlessRaced, CompanionBasis
  <2>q. QED BY HeadAndTail DEF IInv, Based
<1>q. QED BY <1>1, AlwaysIInv, PTL

-----------------------------------------------------------------------------
(* No damage is lost. *)

(* What the framebuffer shows of a band that nobody has to send again. *)
Clean(b) == on /\ b \notin grabbed \cup dirtyTiles

(* A frame that is built shows what is planned, and no grab goes unnoticed: a band
   that is not marked again shows its framebuffer. *)
BuiltOf(p, b) ==
    IF plan.black THEN p.pict = Black /\ ~p.companion ELSE Clean(b) => p.pict = fb[b]

Building ==
    pc \in {"build", "rebuild", "ack", "submit"} =>
        /\ \A b \in Bands : Clean(b) => plan.hash[b] = fb[b]
        /\ \A b \in DOMAIN packet : BuiltOf(packet[b], b)

(* What the adapter has of a band, or will have when it gets the packet that is
   on its way. *)
ShowsWhenSent(p, b) == IF p.companion THEN p.pict = fb[b] /\ p.hash = fb[b]
                       ELSE p.pict \in {fb[b], Black}

Shows(b) == IF OnTheWay(b)
            THEN \A k \in DOMAIN inflight : inflight[k].band = b => ShowsWhenSent(inflight[k], b)
            ELSE Last(kept[b]) \in {Whole(fb[b]), Whole(Black)}

Showing ==
    pc \in {"top", "idle"} /\ ~failed /\ ~blank /\ ~blankTiles /\ ~raced =>
        \A b \in Bands \ dirty : Clean(b) => Shows(b)

Fresh == Building /\ Showing

LEMMA InitFresh == Init => Fresh
BY DEF Init, Fresh, Building, Showing

(* A step that builds, submits and delivers nothing keeps what is shown. *)
LEMMA StillShown ==
    ASSUME UNCHANGED <<inflight, kept>>, NEW b, fb'[b] = fb[b], Shows(b)
    PROVE  Shows(b)'
<1>1. OnTheWay(b)' = OnTheWay(b)
  BY DEF OnTheWay
<1>q. QED BY <1>1 DEF Shows, ShowsWhenSent

(* The stream's thread: what it grabs anew it marks. *)
LEMMA EvdiFresh ==
    ASSUME Fresh, UNCHANGED <<mainVars, wireVars>>, DOMAIN packet \subseteq Bands,
           \A b \in Bands : Clean(b)' => Clean(b) /\ fb'[b] = fb[b],
           ~blankTiles' => ~blankTiles \/ \A b \in Bands : ~Clean(b)'
    PROVE  Fresh'
<1>1. UNCHANGED <<pc, dirty, blank, plan, packet, raced, inflight, failed, kept>>
  BY DEF mainVars, wireVars
<1>2. Building'
  <2> SUFFICES ASSUME pc \in {"build", "rebuild", "ack", "submit"}
               PROVE  /\ \A b \in Bands : Clean(b)' => plan.hash[b] = fb'[b]
                      /\ \A b \in DOMAIN packet : BuiltOf(packet[b], b)'
    BY <1>1 DEF Building
  <2>1. \A b \in Bands : Clean(b)' => plan.hash[b] = fb'[b]
    BY DEF Fresh, Building
  <2>2. ASSUME NEW b \in DOMAIN packet PROVE BuiltOf(packet[b], b)'
    BY <1>1, <2>2 DEF Fresh, Building, BuiltOf
  <2>q. QED BY <2>1, <2>2
<1>3. Showing'
  <2> SUFFICES ASSUME pc \in {"top", "idle"}, ~failed, ~blank, ~blankTiles', ~raced,
                      NEW b \in Bands \ dirty, Clean(b)'
               PROVE  Shows(b)'
    BY <1>1 DEF Showing
  <2>1. Shows(b) /\ fb'[b] = fb[b]
    BY DEF Fresh, Showing
  <2>q. QED BY <1>1, <2>1, StillShown
<1>q. QED BY <1>2, <1>3 DEF Fresh

(* The main thread takes what is marked, waits, or gives up. *)
LEMMA MainFresh ==
    ASSUME Fresh, UNCHANGED <<fb, grabbed, on, plan, packet, inflight, failed, kept>>,
           pc' \in {"build", "rebuild", "ack", "submit"} =>
              /\ pc \in {"build", "rebuild", "ack", "submit"}
              /\ \A b \in Bands : Clean(b)' => Clean(b),
           pc' \in {"top", "idle"} =>
              /\ pc \in {"top", "idle"} /\ UNCHANGED raced
              /\ ~failed /\ ~blank' /\ ~blankTiles' => ~blank /\ ~blankTiles
              /\ \A b \in Bands \ dirty' : b \notin dirty /\ (Clean(b)' => Clean(b)),
           DOMAIN packet \subseteq Bands
    PROVE  Fresh'
<1>1. Building'
  BY DEF Fresh, Building, BuiltOf
<1>2. Showing'
  <2> SUFFICES ASSUME pc' \in {"top", "idle"}, ~failed', ~blank', ~blankTiles', ~raced',
                      NEW b \in Bands \ dirty', Clean(b)'
               PROVE  Shows(b)'
    BY DEF Showing
  <2>1. Shows(b) /\ fb'[b] = fb[b]
    BY DEF Fresh, Showing
  <2>q. QED BY <2>1, StillShown
<1>q. QED BY <1>1, <1>2 DEF Fresh

(* What is taken and was dirty stays dirty. *)
LEMMA ConsumeKeeps ==
    ASSUME Consume, UNCHANGED <<grabbed, on>>
    PROVE  /\ \A b \in Bands \ dirty' : b \notin dirty /\ (Clean(b)' => Clean(b))
           /\ ~blank' => ~blank /\ ~blankTiles
           /\ Consumed = {} => \A b \in Bands : Clean(b)' => Clean(b)
<1>1. /\ dirty' = dirty \cup Consumed \cup (IF blank' THEN Bands ELSE {})
      /\ dirtyTiles' = {} /\ blank' = (blank \/ blankTiles)
  BY DEF Consume
<1>q. QED BY <1>1 DEF Consumed, Clean

LEMMA PlanFresh ==
    ASSUME IInv, IInv', MakePlan, UNCHANGED evdiVars, pc' \in {"build", "rebuild"}
    PROVE  Fresh'
<1>1. plan'.hash = fb /\ fb' = fb /\ packet' = << >> /\ DOMAIN packet' = {}
  BY DEF MakePlan, NoPackets, evdiVars
<1>q. QED BY <1>1 DEF Fresh, Building, Showing

LEMMA BuildFresh ==
    ASSUME IInv, Fresh, NEW b \in Bands, BuildBand(b)
    PROVE  Fresh'
<1>1. /\ pc \in {"build", "rebuild"} /\ b \notin DOMAIN packet
      /\ packet' = [c \in DOMAIN packet \cup {b} |-> IF c = b THEN Built(b) ELSE packet[c]]
      /\ UNCHANGED <<fb, grabbed, on, dirtyTiles, blankTiles, pc, plan>>
  BY DEF BuildBand, evdiVars
<1>2. DOMAIN packet' = DOMAIN packet \cup {b} /\ packet'[b] = Built(b)
      /\ \A c \in DOMAIN packet : packet'[c] = packet[c]
  BY <1>1
<1>3. BuiltOf(Built(b), b)
  BY <1>1 DEF BuiltOf, Built, IInv, Planned
<1>4. \A q, c : BuiltOf(q, c) => BuiltOf(q, c)'
  BY <1>1 DEF BuiltOf, Clean
<1>5. \A c \in DOMAIN packet' : BuiltOf(packet'[c], c)
  BY <1>1, <1>2, <1>3 DEF Fresh, Building
<1>6. Building'
  BY <1>1, <1>4, <1>5 DEF Fresh, Building, Clean
<1>7. Showing'
  BY <1>1 DEF Showing
<1>q. QED BY <1>6, <1>7 DEF Fresh

(* The frame that goes out shows every band as it is, or is a black one. *)
LEMMA SubmitFresh ==
    ASSUME IInv, Fresh, Submit
    PROVE  Fresh'
<1>1. /\ pc \in {"ack", "submit", "rebuild"} /\ DOMAIN packet = Bands
      /\ pc' = "top" /\ blank' = (blank /\ ~plan.black)
      /\ UNCHANGED <<fb, grabbed, on, dirtyTiles, blankTiles>>
  BY DEF Submit, evdiVars, IInv, Planned
<1>2. \A b \in Bands : /\ packet[b].hash = plan.hash[b] /\ BuiltOf(packet[b], b)
                       /\ Clean(b) => plan.hash[b] = fb[b]
  BY <1>1 DEF IInv, Planned, Fresh, Building
<1>3. ASSUME NEW b \in Bands, Clean(b)' PROVE Shows(b)'
  <2>1. Clean(b)
    BY <1>1, <1>3 DEF Clean
  <2>2. ShowsWhenSent(packet[b], b)
    BY <1>2, <2>1 DEF BuiltOf, ShowsWhenSent
  <2>3. \A k \in DOMAIN inflight' : inflight'[k].band = b => inflight'[k] = packet[b]
    BY SubmitSends
  <2>4. OnTheWay(b)'
    BY SubmitSends DEF OnTheWay
  <2>5. \A q : ShowsWhenSent(q, b)' = ShowsWhenSent(q, b)
    BY <1>1 DEF ShowsWhenSent
  <2>q. QED BY <2>2, <2>3, <2>4, <2>5 DEF Shows
<1>4. Building' /\ Showing'
  BY <1>1, <1>3 DEF Building, Showing
<1>q. QED BY <1>4 DEF Fresh

(* A companion is laid over what its hash was computed from. *)
LEMMA DeliverFresh ==
    ASSUME IInv, Fresh, Deliver
    PROVE  Fresh'
<1>0. PICK p : p = Head(inflight)
  OBVIOUS
<1>1. /\ inflight # << >> /\ inflight' = Tail(inflight)
      /\ UNCHANGED <<fb, grabbed, on, dirtyTiles, blankTiles, pc, dirty, blank, plan,
                     packet, raced, failed>>
  BY DEF Deliver, evdiVars, mainVars
<1>2. /\ p \in Packets /\ p.band \in Bands /\ p = inflight[1] /\ 1 \in DOMAIN inflight
      /\ kept'[p.band] \in Seq(Retained) /\ Len(kept'[p.band]) = Period
      /\ kept'[p.band][Period] = PictureOf(p)
      /\ \A b \in Bands \ {p.band} : kept'[b] = kept[b]
  BY <1>0, <1>1, KeptAfter, HeadAndTail DEF Packets
<1>3. /\ \A k \in DOMAIN inflight' : /\ inflight'[k].band # p.band
                                    /\ \E j \in DOMAIN inflight : inflight'[k] = inflight[j]
      /\ \A j \in DOMAIN inflight : j # 1 => \E k \in DOMAIN inflight' : inflight'[k] = inflight[j]
  BY <1>0, <1>1, HeadAndTail, TailOneOfEach DEF Packets
<1>4. Building'
  BY <1>1 DEF Fresh, Building, BuiltOf, Clean
<1>5. Showing'
  <2> SUFFICES ASSUME pc \in {"top", "idle"}, ~failed, ~blank, ~blankTiles, ~raced,
                      NEW b \in Bands \ dirty, Clean(b)
               PROVE  Shows(b)'
    BY <1>1 DEF Showing, Clean
  <2>1. Shows(b) /\ fb' = fb
    BY <1>1 DEF Fresh, Showing
  <2>2. CASE b = p.band
    <3>1. ~OnTheWay(b)'
      BY <1>3, <2>2 DEF OnTheWay
    <3>2. ShowsWhenSent(p, b)
      BY <1>2, <2>1, <2>2 DEF Shows, OnTheWay
    <3>3. p.companion => Head(kept[b]).body = p.hash
      BY <1>2, <2>2 DEF IInv, Based
    <3>4. PictureOf(p) \in {Whole(fb[b]), Whole(Black)}
      BY <2>2, <3>2, <3>3 DEF PictureOf, ShowsWhenSent, Whole
    <3>5. Last(kept'[b]) = PictureOf(p)
      BY <1>2, <2>2 DEF Last
    <3>q. QED BY <2>1, <3>1, <3>4, <3>5 DEF Shows
  <2>3. CASE b # p.band
    <3>1. OnTheWay(b)' = OnTheWay(b) /\ kept'[b] = kept[b]
      BY <1>2, <1>3, <2>3 DEF OnTheWay
    <3>2. ASSUME NEW k \in DOMAIN inflight', inflight'[k].band = b
          PROVE  ShowsWhenSent(inflight'[k], b)
      <4>1. PICK j \in DOMAIN inflight : inflight'[k] = inflight[j]
        BY <1>3
      <4>2. OnTheWay(b)
        BY <3>2, <4>1 DEF OnTheWay
      <4>q. QED BY <2>1, <3>2, <4>1, <4>2 DEF Shows
    <3>3. \A q : ShowsWhenSent(q, b)' = ShowsWhenSent(q, b)
      BY <2>1 DEF ShowsWhenSent
    <3>q. QED BY <2>1, <3>1, <3>2, <3>3 DEF Shows
  <2>q. QED BY <2>2, <2>3
<1>q. QED BY <1>4, <1>5 DEF Fresh

LEMMA NextFresh == IInv /\ IInv' /\ Fresh /\ [Next]_vars => Fresh'
<1> SUFFICES ASSUME IInv, IInv', Fresh, [Next]_vars PROVE Fresh'
  OBVIOUS
<1>t. DOMAIN packet \subseteq Bands /\ \A b \in Bands : b \in DOMAIN fb
  BY DEF IInv, TypeOK
<1>1. CASE Grab
  BY <1>1, <1>t, EvdiFresh DEF Grab, Clean
<1>2. CASE PublishDirty
  BY <1>2, <1>t, EvdiFresh DEF PublishDirty, Clean
<1>3. CASE SwitchOff
  BY <1>3, <1>t, EvdiFresh DEF SwitchOff, Clean
<1>4. CASE SwitchOn
  BY <1>4, <1>t, EvdiFresh DEF SwitchOn, Clean
<1>5. CASE Top
  BY <1>5, <1>t, ConsumeKeeps, MainFresh DEF Top, wireVars
<1>6. CASE ReceiverError
  BY <1>6, <1>t, MainFresh DEF ReceiverError, wireVars
<1>7. CASE Plan
  BY <1>7, PlanFresh DEF Plan
<1>8. ASSUME NEW b \in Bands, BuildBand(b) PROVE Fresh'
  BY <1>8, BuildFresh
<1>9. CASE BuildFails
  BY <1>9, <1>t, MainFresh DEF BuildFails, evdiVars, wireVars
<1>10. CASE WaitPrevious
  BY <1>10, <1>t, MainFresh DEF WaitPrevious, evdiVars, wireVars, Clean
<1>11. CASE WaitIdle
  BY <1>11, <1>t, MainFresh DEF WaitIdle, evdiVars, wireVars, Clean
<1>12. CASE LateRebuild
  BY <1>12, <1>t, ConsumeKeeps, MainFresh DEF LateRebuild, wireVars
<1>13. CASE AckUncertain
  BY <1>13 DEF AckUncertain, Fresh, Building, Showing
<1>14. CASE Replan
  BY <1>14, PlanFresh DEF Replan
<1>15. CASE Submit
  BY <1>15, SubmitFresh
<1>16. CASE Recover
  BY <1>16 DEF Recover, Fresh, Building, Showing
<1>17. CASE Deliver
  BY <1>17, DeliverFresh
<1>18. CASE TransferFails
  BY <1>18 DEF TransferFails, evdiVars, mainVars, Fresh, Building, BuiltOf, Clean, Showing
<1>19. CASE UNCHANGED vars
  BY <1>19, <1>t, EvdiFresh DEF vars, evdiVars, Clean
<1>q. QED
  BY <1>1, <1>2, <1>3, <1>4, <1>5, <1>6, <1>7, <1>8, <1>9, <1>10, <1>11, <1>12, <1>13, <1>14,
     <1>15, <1>16, <1>17, <1>18, <1>19 DEF Next

(* A display that is on, with nothing dirty, in flight or failed, shows its framebuffer
   or the black frame sent last: no damage is lost between the grab and the adapter, for
   every number of bands, pictures, grabs and mishaps (main.c:480-594, 1273-1351). *)
THEOREM RetainedShows == Spec => []SettledShowsFramebuffer
<1>1. Init => Fresh
  BY InitFresh
<1>2. IInv /\ IInv' /\ Fresh /\ [Next]_vars => Fresh'
  BY NextFresh
<1>3. IInv /\ Fresh => SettledShowsFramebuffer
  <2> SUFFICES ASSUME IInv, Fresh, Settled, ~raced, NEW b \in Bands
               PROVE  Last(kept[b]) \in {Whole(fb[b]), Whole(Black)}
    BY DEF SettledShowsFramebuffer
  <2>1. DOMAIN inflight = {} /\ pc = "top" /\ ~failed /\ ~blank /\ ~blankTiles
    BY DEF Settled
  <2>2. b \in Bands \ dirty /\ Clean(b)
    BY DEF Settled, Clean
  <2>3. Shows(b)
    BY <2>1, <2>2 DEF Fresh, Showing
  <2>q. QED BY <2>1, <2>3 DEF Shows, OnTheWay
<1>q. QED BY <1>1, <1>2, <1>3, AlwaysIInv, PTL DEF Spec
=============================================================================
