---------------------------- MODULE PacketsProofs ----------------------------
(* The rings and the packets, for every capacity, every set of items and every
   length of a jpeg; and the encoder that fills the packets, for every set of
   qualities, addresses and modes and every number of mode changes; and the tables
   the adapter decodes them with, for every greatest length of a code. *)
EXTENDS Ring, FramePacket, TileEncoder, HuffmanTables,
        SequenceTheorems, FiniteSetTheorems, WellFoundedInduction, TLAPS

(* A ring of the transport. *)
Inv == TypeOK /\ IndicesAgree

(* An index below twice the capacity wraps at most once: every index the
   ring computes is a slot plus an offset of at most Cap. *)
LEMMA WrapOnce ==
    ASSUME NEW n \in Nat, n < 2 * Cap
    PROVE  /\ Wrap(n) \in Slot
           /\ Wrap(n) = IF n < Cap THEN n ELSE n - Cap
BY RingAssumption DEF Slot, Wrap

(* Type correctness and the agreement of the three indices are inductive
   together: Push needs head to be a slot, Pop needs count within Cap. *)
LEMMA InvInductive == Inv /\ [Next]_vars => Inv'
<1> SUFFICES ASSUME Inv, [Next]_vars PROVE Inv'
  OBVIOUS
<1> USE RingAssumption
<1>0. /\ Cap \in Nat /\ Cap > 0
      /\ head \in Nat /\ head < Cap /\ tail \in Nat /\ tail < Cap
      /\ count \in Nat /\ count <= Cap
      /\ head = Wrap(tail + count)
  BY DEF Inv, TypeOK, IndicesAgree, Slot
<1>1. ASSUME NEW x \in Items, Push(x) PROVE Inv'
  <2>1. head' = IF head + 1 < Cap THEN head + 1 ELSE 0
    BY <1>0, <1>1, WrapOnce DEF Push
  <2>2. TypeOK'
    BY <1>0, <1>1, <2>1 DEF Inv, TypeOK, Push, Slot
  <2>3. head = IF tail + count < Cap THEN tail + count ELSE tail + count - Cap
    BY <1>0, WrapOnce
  <2>4. /\ tail + (count + 1) \in Nat
        /\ tail + (count + 1) < 2 * Cap
    BY <1>0, <1>1 DEF Push
  <2>5. Wrap(tail + (count + 1))
          = IF tail + (count + 1) < Cap THEN tail + (count + 1)
                                        ELSE tail + (count + 1) - Cap
    BY <1>0, <2>4, WrapOnce
  <2>6. head' = Wrap(tail + (count + 1))
    BY <1>0, <1>1, <2>1, <2>3, <2>5 DEF Push
  <2>q. QED BY <1>1, <2>2, <2>6 DEF Inv, IndicesAgree, Push
<1>2. CASE Pop
  <2>1. tail' = IF tail + 1 < Cap THEN tail + 1 ELSE 0
    BY <1>0, <1>2, WrapOnce DEF Pop
  <2>2. TypeOK'
    BY <1>0, <1>2, <2>1 DEF Inv, TypeOK, Pop, Slot
  <2>3. head = IF tail + count < Cap THEN tail + count ELSE tail + count - Cap
    BY <1>0, WrapOnce
  <2>4. /\ tail' + (count - 1) \in Nat
        /\ tail' + (count - 1) < 2 * Cap
    BY <1>0, <1>2, <2>1 DEF Pop
  <2>5. Wrap(tail' + (count - 1))
          = IF tail' + (count - 1) < Cap THEN tail' + (count - 1)
                                         ELSE tail' + (count - 1) - Cap
    BY <1>0, <2>1, <2>4, WrapOnce
  <2>6. head = Wrap(tail' + (count - 1))
    BY <1>0, <1>2, <2>1, <2>3, <2>5 DEF Pop
  <2>q. QED BY <1>2, <2>2, <2>6 DEF Inv, IndicesAgree, Pop
<1>3. CASE Reset
  <2>1. Wrap(0) = 0
    BY WrapOnce, <1>0
  <2>q. QED BY <1>0, <1>3, <2>1 DEF Inv, TypeOK, IndicesAgree, Reset, Slot
<1>4. CASE UNCHANGED vars
  BY <1>4 DEF Inv, TypeOK, IndicesAgree, vars
<1>q. QED BY <1>1, <1>2, <1>3, <1>4 DEF Next

LEMMA InvInit == Init => Inv
<1>1. Wrap(0) = 0
  BY RingAssumption, WrapOnce
<1>q. QED BY <1>1, RingAssumption DEF Init, Inv, TypeOK, IndicesAgree, Slot

(* For every capacity the three indices of a ring agree in every reachable
   state, so submissions never overwrite a queued item (transport.c:89-90,
   203-211). *)
THEOREM RingIndicesAgree == Spec => [](TypeOK /\ IndicesAgree)
<1>1. Inv /\ [Next]_vars => Inv'
  BY InvInductive
<1>q. QED BY InvInit, <1>1, PTL DEF Spec, Inv

-----------------------------------------------------------------------------

(* The items read from slot t on, c of them: the contents of a ring whose
   array is s, tail is t and count is c. *)
Window(s, t, c) == [i \in 1 .. c |-> s[Wrap(t + i - 1)]]

(* A window is a sequence of items, as long as the fill count. *)
LEMMA WindowIsSeq ==
    ASSUME NEW s \in [Slot -> Items], NEW t \in Slot, NEW c \in 0 .. Cap
    PROVE  /\ Window(s, t, c) \in Seq(Items)
           /\ Len(Window(s, t, c)) = c
           /\ \A i \in 1 .. c : Window(s, t, c)[i] = s[Wrap(t + i - 1)]
<1>1. /\ Cap \in Nat /\ t \in Nat /\ t < Cap
      /\ c \in Nat /\ c <= Cap
  BY RingAssumption DEF Slot
<1>2. ASSUME NEW i \in 1 .. c PROVE s[Wrap(t + i - 1)] \in Items
  <2>1. t + i - 1 \in Nat /\ t + i - 1 < 2 * Cap
    BY <1>1
  <2>q. QED BY <1>1, <2>1, WrapOnce
<1>3. Window(s, t, c) \in [1 .. c -> Items]
  BY <1>2 DEF Window
<1>4. Window(s, t, c) \in Seq(Items) /\ Len(Window(s, t, c)) = c
  BY <1>1, <1>3
<1>q. QED BY <1>4 DEF Window

(* Writing the free slot and counting it appends the item. *)
LEMMA PushAppends ==
    ASSUME Inv, NEW x \in Items, Push(x)
    PROVE  Contents' = Append(Contents, x)
<1>0. /\ Cap \in Nat /\ Cap > 0
      /\ head \in Nat /\ head < Cap /\ tail \in Nat /\ tail < Cap
      /\ count \in Nat /\ count < Cap
      /\ head = Wrap(tail + count)
      /\ slots \in [Slot -> Items]
  BY RingAssumption DEF Inv, TypeOK, IndicesAgree, Slot, Push
<1>1. /\ Contents = Window(slots, tail, count)
      /\ Contents' = Window(slots', tail, count + 1)
  BY DEF Contents, Window, Push
<1>2. /\ Contents \in Seq(Items) /\ Len(Contents) = count
      /\ \A i \in 1 .. count : Contents[i] = slots[Wrap(tail + i - 1)]
  <2>1. tail \in Slot /\ count \in 0 .. Cap
    BY <1>0 DEF Slot
  <2>q. QED BY <1>0, <1>1, <2>1, WindowIsSeq
<1>3. slots' \in [Slot -> Items]
  BY <1>0 DEF Push
<1>4. /\ Contents' \in Seq(Items) /\ Len(Contents') = count + 1
      /\ \A i \in 1 .. count + 1 : Contents'[i] = slots'[Wrap(tail + i - 1)]
  <2>1. count + 1 \in 0 .. Cap /\ tail \in Slot
    BY <1>0 DEF Slot
  <2>q. QED BY <1>1, <1>3, <2>1, WindowIsSeq
<1>5. /\ Append(Contents, x) \in Seq(Items)
      /\ Len(Append(Contents, x)) = count + 1
      /\ \A i \in 1 .. count : Append(Contents, x)[i] = Contents[i]
      /\ Append(Contents, x)[count + 1] = x
  BY <1>2, AppendProperties
<1>6. head = IF tail + count < Cap THEN tail + count ELSE tail + count - Cap
  BY <1>0, WrapOnce
<1>7. ASSUME NEW i \in 1 .. count + 1
      PROVE  Contents'[i] = Append(Contents, x)[i]
  <2>1. tail + i - 1 \in Nat /\ tail + i - 1 < 2 * Cap
    BY <1>0
  <2>2. /\ Wrap(tail + i - 1) \in Slot
        /\ Wrap(tail + i - 1)
             = IF tail + i - 1 < Cap THEN tail + i - 1 ELSE tail + i - 1 - Cap
    BY <1>0, <2>1, WrapOnce
  <2>3. CASE i \in 1 .. count
    <3>1. Wrap(tail + i - 1) # head
      BY <1>0, <1>6, <2>2, <2>3
    <3>2. slots'[Wrap(tail + i - 1)] = slots[Wrap(tail + i - 1)]
      BY <1>0, <2>2, <3>1 DEF Push
    <3>q. QED BY <1>2, <1>4, <1>5, <2>3, <3>2
  <2>4. CASE i = count + 1
    <3>1. Wrap(tail + i - 1) = head
      BY <1>0, <1>6, <2>2, <2>4
    <3>2. slots'[Wrap(tail + i - 1)] = x
      BY <1>0, <2>2, <3>1 DEF Push
    <3>q. QED BY <1>4, <1>5, <2>4, <3>2
  <2>5. i \in 1 .. count \/ i = count + 1
    BY <1>0
  <2>q. QED BY <2>3, <2>4, <2>5
<1>q. QED BY <1>4, <1>5, <1>7, SeqEqual

(* Advancing the tail removes the oldest item, and it is the one handed out. *)
LEMMA PopTakesHead ==
    ASSUME Inv, Pop
    PROVE  /\ Contents # << >>
           /\ out' = Head(Contents)
           /\ Contents' = Tail(Contents)
<1>0. /\ Cap \in Nat /\ Cap > 0
      /\ tail \in Nat /\ tail < Cap
      /\ count \in Nat /\ count <= Cap /\ count > 0
      /\ slots \in [Slot -> Items]
  BY RingAssumption DEF Inv, TypeOK, Slot, Pop
<1>1. tail' = IF tail + 1 < Cap THEN tail + 1 ELSE 0
  BY <1>0, WrapOnce DEF Pop
<1>2. /\ Contents = Window(slots, tail, count)
      /\ Contents' = Window(slots, tail', count - 1)
  BY DEF Contents, Window, Pop
<1>3. /\ Contents \in Seq(Items) /\ Len(Contents) = count
      /\ \A i \in 1 .. count : Contents[i] = slots[Wrap(tail + i - 1)]
  <2>1. tail \in Slot /\ count \in 0 .. Cap
    BY <1>0 DEF Slot
  <2>q. QED BY <1>0, <1>2, <2>1, WindowIsSeq
<1>4. /\ Contents' \in Seq(Items) /\ Len(Contents') = count - 1
      /\ \A i \in 1 .. count - 1 : Contents'[i] = slots[Wrap(tail' + i - 1)]
  <2>1. count - 1 \in 0 .. Cap /\ tail' \in Slot
    BY <1>0, <1>1 DEF Slot
  <2>q. QED BY <1>0, <1>2, <2>1, WindowIsSeq
<1>5. Contents # << >>
  BY <1>0, <1>3, EmptySeq
<1>6. /\ Tail(Contents) \in Seq(Items)
      /\ Len(Tail(Contents)) = count - 1
      /\ \A i \in 1 .. count - 1 : Tail(Contents)[i] = Contents[i + 1]
  BY <1>3, <1>5, HeadTailProperties
<1>7. ASSUME NEW i \in 1 .. count - 1
      PROVE  Contents'[i] = Tail(Contents)[i]
  <2>1. tail + i \in Nat /\ tail + i < 2 * Cap
    BY <1>0
  <2>2. Wrap(tail + i) = IF tail + i < Cap THEN tail + i ELSE tail + i - Cap
    BY <1>0, <2>1, WrapOnce
  <2>3. ASSUME ~(tail + 1 < Cap)
        PROVE  Wrap(tail' + i - 1) = Wrap(tail + i)
    <3>1. tail' + i - 1 = i - 1 /\ i - 1 \in Nat /\ i - 1 < Cap /\ tail + 1 = Cap
      BY <1>0, <1>1, <2>3
    <3>2. Wrap(i - 1) = i - 1
      BY <1>0, <3>1, WrapOnce
    <3>q. QED BY <1>0, <2>2, <3>1, <3>2
  <2>4. Wrap(tail' + i - 1) = Wrap(tail + i)
    <3>1. tail + 1 < Cap => tail' + i - 1 = tail + i
      BY <1>0, <1>1
    <3>2. ~(tail + 1 < Cap) => Wrap(tail' + i - 1) = Wrap(tail + i)
      BY <2>3
    <3>q. QED BY <3>1, <3>2
  <2>5. i + 1 \in 1 .. count /\ tail + (i + 1) - 1 = tail + i
    BY <1>0
  <2>6. Contents[i + 1] = slots[Wrap(tail + i)]
    BY <1>3, <2>5
  <2>q. QED BY <1>4, <1>6, <2>4, <2>6
<1>8. Contents' = Tail(Contents)
  BY <1>4, <1>6, <1>7, SeqEqual
<1>9. out' = Head(Contents)
  <2>1. tail + 1 - 1 = tail /\ 1 \in 1 .. count /\ Wrap(tail) = tail
    BY <1>0, WrapOnce
  <2>2. Contents[1] = slots[tail]
    BY <1>3, <2>1
  <2>q. QED BY <1>3, <1>5, <2>2 DEF Pop
<1>q. QED BY <1>5, <1>8, <1>9

(* For every capacity a ring is a bounded first-in first-out queue: what the
   transport thread takes from a priority is exactly what was submitted to
   it, in order, once (transport.c:79-94, 203-211). *)
THEOREM RingIsFifo == Spec => IsFifo
<1>1. Init => Abstract!Init
  <2> SUFFICES ASSUME Init PROVE Abstract!Init
    OBVIOUS
  <2>1. Contents = << >>
    BY DEF Init, Contents
  <2>q. QED BY <2>1 DEF Init, Abstract!Init
<1>2. Inv /\ [Next]_vars => [Abstract!Next]_(Abstract!vars)
  <2> SUFFICES ASSUME Inv, [Next]_vars
               PROVE  [Abstract!Next]_(Abstract!vars)
    OBVIOUS
  <2>1. ASSUME NEW x \in Items, Push(x) PROVE Abstract!Put(x)
    <3>1. Len(Contents) = count /\ count < Cap
      <4>1. Contents = Window(slots, tail, count)
        BY DEF Contents, Window
      <4>2. Len(Contents) = count
        BY <4>1, WindowIsSeq DEF Inv, TypeOK
      <4>q. QED BY <2>1, <4>2, RingAssumption DEF Inv, TypeOK, Push
    <3>2. Contents' = Append(Contents, x)
      BY <2>1, PushAppends
    <3>q. QED BY <2>1, <3>1, <3>2 DEF Push, Abstract!Put
  <2>2. CASE Pop
    BY <2>2, PopTakesHead DEF Abstract!Take, Abstract!Next
  <2>3. CASE Reset
    <3>1. Contents' = << >>
      BY <2>3 DEF Reset, Contents
    <3>q. QED BY <2>3, <3>1 DEF Reset, Abstract!Clear, Abstract!Next
  <2>4. CASE UNCHANGED vars
    BY <2>4 DEF vars, Abstract!vars, Contents
  <2>q. QED BY <2>1, <2>2, <2>3, <2>4 DEF Next, Abstract!Next
<1>3. Inv /\ [Next]_vars => Inv'
  BY InvInductive
<1>q. QED BY InvInit, <1>1, <1>2, <1>3, PTL DEF Spec, Abstract!Spec, IsFifo

-----------------------------------------------------------------------------

(* A video packet in its slot. *)
USE FramePacketAssumption

(* align_up_u32 is what it is meant to be, and respects the order. *)
LEMMA AlignUpIs ==
    ASSUME NEW v \in Nat
    PROVE  /\ AlignUp(v) \in Nat /\ v <= AlignUp(v) /\ AlignUp(v) < v + BLOCK
           /\ AlignUp(v) % BLOCK = 0
BY DEF AlignUp, BLOCK

LEMMA AlignUpMonotone ==
    ASSUME NEW v \in Nat, NEW w \in Nat, v <= w
    PROVE  AlignUp(v) <= AlignUp(w)
BY DEF AlignUp, BLOCK

(* Header and tables leave every packet 48 bytes past a block: the byte that
   frame_packet.c:98 would add is never added. *)
LEMMA NeverOnABlock ==
    ASSUME NEW len \in Nat
    PROVE  /\ Parts(len) % BLOCK = HEADER /\ WireLen(len) = Parts(len)
           /\ WireLen(len) % BLOCK = HEADER
<1>1. AlignUp(len) \in Nat /\ AlignUp(len) % BLOCK = 0
  BY AlignUpIs
<1>2. Parts(len) % BLOCK = HEADER
  BY <1>1 DEF Parts, HEADER, BLOCK, CNM
<1> QED
  BY <1>2 DEF WireLen, HEADER

LEMMA LargeEnough ==
    ASSUME NEW len \in Nat, len <= JpegCap
    PROVE  WireLen(len) \in Nat /\ WireLen(len) <= Capacity
<1>1. AlignUp(len) \in Nat /\ AlignUp(len) <= AlignUp(JpegCap) /\ AlignUp(JpegCap) \in Nat
  BY AlignUpIs, AlignUpMonotone
<1>2. WireLen(len) = Parts(len)
  BY NeverOnABlock
<1> QED
  BY <1>1, <1>2 DEF Capacity, Parts, HEADER, CNM

PacketInv == PacketTypeOK /\ PacketIsItsOwn /\ InsideSlot /\ AlwaysFits /\ EndsShort

LEMMA InitPacketInv == PacketInit => PacketInv
<1> SUFFICES ASSUME PacketInit PROVE PacketInv
  OBVIOUS
<1>1. Capacity \in Nat
  BY AlignUpIs DEF Capacity, HEADER, CNM
<1>2. PacketTypeOK /\ InsideSlot
  <2>1. wire_len \in 0 .. Capacity
    BY <1>1 DEF PacketInit
  <2>2. sendable \in BOOLEAN /\ refused \in BOOLEAN
    BY Zenon DEF PacketInit
  <2>3. at \in Places /\ by = "nobody"
    BY DEF PacketInit
  <2> QED
    BY <2>1, <2>2, <2>3, Zenon DEF PacketTypeOK, InsideSlot
<1>3. PacketIsItsOwn /\ AlwaysFits /\ EndsShort
  BY DEF PacketInit, PacketIsItsOwn, AlwaysFits, EndsShort
<1> QED
  BY <1>2, <1>3 DEF PacketInv

(* A packet's bytes are those below its length. *)
LEMMA PacketBytesAre ==
    ASSUME NEW len \in Nat
    PROVE  PacketBytes(len) = 0 .. WireLen(len) - 1
<1>1. AlignUp(len) \in Nat /\ len <= AlignUp(len)
  BY AlignUpIs
<1>2. WireLen(len) = Parts(len)
  BY NeverOnABlock
<1> QED
  BY <1>1, <1>2 DEF PacketBytes, JpegBytes, Parts, HEADER, CNM

(* What has been written within the slot leaves the bytes past it alone. *)
LEMMA WritesInside ==
    ASSUME PacketTypeOK, InsideSlot, NEW written, Writes(written), UNCHANGED at,
           \A b \in written : b < Capacity, \A b \in written : b \in Nat
    PROVE  by' \in {"nobody", "before", "now"} /\ InsideSlot'
<1>1. Capacity \in Nat
  BY AlignUpIs DEF Capacity, HEADER, CNM
<1>2. Capacity' = Capacity
  BY DEF Capacity
<1>3. at \in Nat
  BY DEF PacketTypeOK
<1>4. CASE at \in written
  BY <1>1, <1>2, <1>3, <1>4 DEF Writes, InsideSlot
<1>5. CASE at \notin written
  BY <1>2, <1>5 DEF Writes, InsideSlot, PacketTypeOK
<1> QED
  BY <1>4, <1>5

LEMMA JpegBytesInside ==
    ASSUME NEW len \in Nat, len <= JpegCap
    PROVE  /\ \A b \in JpegBytes(len) : b < Capacity
           /\ \A b \in JpegBytes(len) : b \in Nat
<1>1. AlignUp(JpegCap) \in Nat /\ JpegCap <= AlignUp(JpegCap)
  BY AlignUpIs
<1> QED
  BY <1>1 DEF JpegBytes, Capacity, HEADER, CNM

LEMMA PacketBytesInside ==
    ASSUME NEW len \in Nat, len <= JpegCap
    PROVE  /\ \A b \in PacketBytes(len) : b < Capacity
           /\ \A b \in PacketBytes(len) : b \in Nat
<1>1. WireLen(len) \in Nat /\ WireLen(len) <= Capacity /\ Capacity \in Nat
  BY LargeEnough, AlignUpIs DEF Capacity, HEADER, CNM
<1> QED
  BY <1>1, PacketBytesAre

(* A build that fails leaves nothing to be sent. *)
LEMMA FailureKeeps ==
    ASSUME PacketInv, NEW written, Failed, Writes(written), refused' = FALSE,
           \A b \in written : b < Capacity, \A b \in written : b \in Nat
    PROVE  PacketInv'
<1>1. by' \in {"nobody", "before", "now"} /\ InsideSlot'
  BY WritesInside DEF PacketInv, Failed
<1>2. Capacity' = Capacity
  BY DEF Capacity
<1>3. PacketIsItsOwn' /\ EndsShort' /\ AlwaysFits'
  BY DEF Failed, PacketIsItsOwn, EndsShort, AlwaysFits
<1> QED
  BY <1>1, <1>2, <1>3 DEF PacketInv, PacketTypeOK, Failed

LEMMA NextPacketInv == PacketInv /\ [PacketNext]_packetVars => PacketInv'
<1> SUFFICES ASSUME PacketInv, [PacketNext]_packetVars PROVE PacketInv'
  OBVIOUS
<1>1. CASE UNCHANGED packetVars
  <2>1. Capacity' = Capacity
    BY DEF Capacity
  <2> QED
    BY <1>1, <2>1 DEF packetVars, PacketInv, PacketTypeOK, PacketIsItsOwn, InsideSlot,
       AlwaysFits, EndsShort
<1>2. CASE PacketNext
  <2>1. PICK len \in Sizes :
           EncodeFails(len) \/ BuildRefused(len) \/ TablesFail(len) \/ Build(len)
    BY <1>2 DEF PacketNext
  <2>2. len \in Nat /\ len <= JpegCap
    BY <2>1 DEF EncodeFails, BuildRefused, TablesFail, Build, Encodes
  <2>3. refused = FALSE
    BY DEF PacketInv, PacketTypeOK, AlwaysFits
  <2>4. ASSUME EncodeFails(len) PROVE PacketInv'
    BY <2>2, <2>3, <2>4, JpegBytesInside, FailureKeeps DEF EncodeFails
  <2>5. ASSUME BuildRefused(len) PROVE PacketInv'
    <3>1. len = 0
      BY <2>2, <2>5, LargeEnough, AlignUpIs DEF BuildRefused, Refuses, Capacity, HEADER, CNM
    <3> QED
      BY <3>1, <2>2, <2>3, <2>5, JpegBytesInside, FailureKeeps DEF BuildRefused
  <2>6. ASSUME TablesFail(len) PROVE PacketInv'
    BY <2>2, <2>3, <2>6, PacketBytesInside, FailureKeeps DEF TablesFail
  <2>7. ASSUME Build(len) PROVE PacketInv'
    <3>1. by' \in {"nobody", "before", "now"} /\ InsideSlot'
      BY <2>2, <2>7, PacketBytesInside, WritesInside DEF PacketInv, Build
    <3>2. WireLen(len) \in Nat /\ WireLen(len) <= Capacity /\ Capacity \in Nat
      BY <2>2, LargeEnough, AlignUpIs DEF Capacity, HEADER, CNM
    <3>3. Capacity' = Capacity
      BY DEF Capacity
    <3>4. PacketTypeOK'
      BY <2>7, <3>1, <3>2, <3>3 DEF PacketInv, PacketTypeOK, Build
    <3>5. PacketIsItsOwn'
      BY <2>2, <2>7, <3>2, <3>4, PacketBytesAre
      DEF Build, PacketIsItsOwn, Writes, PacketTypeOK
    <3>6. EndsShort'
      BY <2>2, <2>7, NeverOnABlock DEF Build, EndsShort, HEADER
    <3>7. AlwaysFits'
      BY <2>7 DEF PacketInv, Build, AlwaysFits
    <3> QED
      BY <3>1, <3>4, <3>5, <3>6, <3>7 DEF PacketInv
  <2> QED
    BY <2>1, <2>4, <2>5, <2>6, <2>7
<1> QED
  BY <1>1, <1>2 DEF packetVars

LEMMA SpecPacketInv == PacketSpec => []PacketInv
  BY InitPacketInv, NextPacketInv, PTL DEF PacketSpec

(* No byte of a packet before, or of a build that broke off, is ever sent. *)
THEOREM FramePacketIsItsOwn == PacketSpec => []PacketIsItsOwn
<1>1. PacketInv => PacketIsItsOwn
  BY DEF PacketInv
<1> QED
  BY <1>1, SpecPacketInv, PTL

(* Neither the slot nor its length ever lets a packet be written past its end or
   end on a block, and no jpeg that the encoder hands over is too large. *)
THEOREM FramePacketLengthsFit == PacketSpec => []LengthsFit
<1>1. PacketInv => LengthsFit
  BY DEF PacketInv, LengthsFit
<1> QED
  BY <1>1, SpecPacketInv, PTL

-----------------------------------------------------------------------------
(* What a video tile owns, and what it encodes. *)

(* The fields that name something. *)
There == {f \in Fields : Valid(f)}

(* Every handle is of an object of its field, and every object has its handle. *)
Linked == /\ IsFiniteSet(live)
          /\ \A f \in There : held[f] \in live /\ held[f].for = f
          /\ \A o \in live : held[o.for] = o

(* What direct_vaapi_init has made before its n-th call, and what of it is there
   whether or not the image is derived from the surface. *)
MadeBy(n)   == {"direct"} \cup ({VaCalls[i] : i \in 1 .. n - 1} \ CreateNothing)
NeededBy(n) == MadeBy(n) \ {"image_data"}

(* The parts of the tile before each. *)
Before == [companion |-> {},
           slot0     |-> {"companion"},
           result0   |-> {"companion", "slot0"},
           slot1     |-> {"companion", "slot0", "result0"},
           result1   |-> {"companion", "slot0", "result0", "slot1"}]

EncoderDone == IF backend = "vaapi" THEN NeededBy(Len(VaCalls) + 1) \subseteq There
               ELSE "tj" \in There

(* The order of destruction: what rests on nothing else, or has nothing resting on
   it, first. *)
Rank(f) == IF f \in Range(TileParts) \cup {"tj", "direct", "image_data"} THEN 0
           ELSE IF f \in {"jpeg_context", "vpp_context"} THEN 2
           ELSE IF f \in {"userptr", "nv12_surface", "bgrx_surface", "jpeg_config", "vpp_config"}
                THEN 3
           ELSE IF f = "dpy" THEN 4 ELSE IF f = "drm_fd" THEN 5 ELSE 1

InOrder(fields) == \A i, j \in DOMAIN fields : i < j => Rank(fields[i]) <= Rank(fields[j])

(* What is there, by what happens to the tile. *)
Phase ==
    /\ pc = "start" => stage = 1
    /\ pc \in {"start", "cpu", "failed", "gone"} => There = {}
    /\ pc = "vaapi" => /\ backend = "vaapi"
                       /\ There \subseteq MadeBy(stage) /\ NeededBy(stage) \subseteq There
    /\ pc \in Range(TileParts) => /\ EncoderDone /\ Before[pc] \subseteq There
                                  /\ There \subseteq Range(EncoderDestroy) \cup Before[pc]
    /\ pc = "ready" => EncoderDone /\ "companion" \in There
    /\ pc = "destroy" => /\ There \subseteq Range(todo) /\ InOrder(todo)
                         /\ after \in {"cpu", "failed", "gone"}

Closed == \A f \in There : Bases(f) \subseteq There

(* What the buffers and the surface were made with. *)
Carried == current_quality # None =>
    \A f \in Range(QualityBufs) : Valid(f) => held[f].made = current_quality

Overlaid == Valid("userptr") =>
    /\ held["userptr"].made \in Framebuffers
    /\ ~recycled /\ held["userptr"].made.at = fb.at /\ held["userptr"].made.size = fb.size
          => held["userptr"].made = fb

EncoderInv == /\ EncoderTypeOK /\ Linked /\ Phase /\ Closed /\ Carried /\ Overlaid
              /\ QualityAsAsked /\ EncodesTheFramebuffer

-----------------------------------------------------------------------------
(* The lists, as sets. *)
VaFields == {"image_data", "bgrx_image", "vpp_param_buf", "pic_param_buf", "qmatrix_buf",
             "huffman_buf", "packed_header_param_buf", "packed_header_data_buf",
             "slice_param_buf", "coded_buf", "jpeg_context", "vpp_context", "userptr",
             "nv12_surface", "bgrx_surface", "jpeg_config", "vpp_config", "dpy", "drm_fd"}

Parts5 == {"companion", "slot0", "result0", "slot1", "result1"}

LEMMA RangeOfTwo ==
    ASSUME NEW S, NEW s \in Seq(S), NEW t \in Seq(S)
    PROVE  /\ s \o t \in Seq(S) /\ Range(s \o t) = Range(s) \cup Range(t)
           /\ DOMAIN s = 1 .. Len(s) /\ DOMAIN t = 1 .. Len(t)
           /\ Len(s) \in Nat /\ Len(t) \in Nat
           /\ DOMAIN (s \o t) = 1 .. Len(s) + Len(t)
           /\ \A i \in 1 .. Len(s) : (s \o t)[i] = s[i]
           /\ \A i \in 1 .. Len(t) : (s \o t)[Len(s) + i] = t[i]
<1>1. /\ s \o t \in Seq(S) /\ Len(s \o t) = Len(s) + Len(t)
      /\ Len(s) \in Nat /\ Len(t) \in Nat
      /\ DOMAIN (s \o t) = 1 .. Len(s) + Len(t)
      /\ DOMAIN s = 1 .. Len(s) /\ DOMAIN t = 1 .. Len(t)
  OBVIOUS
<1>2. /\ \A i \in 1 .. Len(s) : (s \o t)[i] = s[i]
      /\ \A i \in 1 .. Len(t) : (s \o t)[Len(s) + i] = t[i]
  OBVIOUS
<1>3. ASSUME NEW i \in 1 .. Len(s) + Len(t)
      PROVE  (s \o t)[i] \in Range(s) \cup Range(t)
  <2>1. CASE i <= Len(s)
    BY <1>1, <1>2, <2>1 DEF Range
  <2>2. CASE i > Len(s)
    <3>1. i - Len(s) \in 1 .. Len(t) /\ Len(s) + (i - Len(s)) = i
      BY <1>1, <2>2
    <3>q. QED BY <1>1, <1>2, <3>1 DEF Range
  <2>q. QED BY <1>1, <2>1, <2>2
<1>4. ASSUME NEW x \in Range(s) PROVE x \in Range(s \o t)
  <2>1. PICK i \in 1 .. Len(s) : x = s[i]
    BY <1>1 DEF Range
  <2>q. QED BY <1>1, <1>2, <2>1 DEF Range
<1>5. ASSUME NEW x \in Range(t) PROVE x \in Range(s \o t)
  <2>1. PICK i \in 1 .. Len(t) : x = t[i]
    BY <1>1 DEF Range
  <2>2. Len(s) + i \in 1 .. Len(s) + Len(t)
    BY <1>1
  <2>q. QED BY <1>1, <1>2, <2>1, <2>2 DEF Range
<1>6. Range(s \o t) \subseteq Range(s) \cup Range(t)
  BY <1>1, <1>3 DEF Range
<1>q. QED BY <1>1, <1>2, <1>4, <1>5, <1>6

(* A list of parts nothing rests on, and then a list in order, is in order. *)
LEMMA InOrderOfTwo ==
    ASSUME NEW S, NEW s \in Seq(S), NEW t \in Seq(S),
           \A i \in DOMAIN s : Rank(s[i]) = 0, InOrder(t)
    PROVE  InOrder(s \o t)
<1>1. ASSUME NEW x PROVE Rank(x) >= 0 /\ Rank(x) \in Int
  BY DEF Rank
<1> SUFFICES ASSUME NEW i \in DOMAIN (s \o t), NEW j \in DOMAIN (s \o t), i < j
             PROVE  Rank((s \o t)[i]) <= Rank((s \o t)[j])
  BY DEF InOrder
<1>2. /\ DOMAIN (s \o t) = 1 .. Len(s) + Len(t)
      /\ DOMAIN s = 1 .. Len(s) /\ DOMAIN t = 1 .. Len(t) /\ Len(s) \in Nat /\ Len(t) \in Nat
      /\ \A k \in 1 .. Len(s) : (s \o t)[k] = s[k]
      /\ \A k \in 1 .. Len(t) : (s \o t)[Len(s) + k] = t[k]
  BY RangeOfTwo
<1>3. CASE i <= Len(s)
  <2>1. Rank((s \o t)[i]) = 0
    BY <1>2, <1>3
  <2>q. QED BY <1>1, <2>1
<1>4. CASE i > Len(s)
  <2>0. i \in 1 .. Len(s) + Len(t) /\ j \in 1 .. Len(s) + Len(t)
    BY <1>2, Zenon
  <2>a. PICK m, n : m = Len(s) /\ n = Len(t)
    OBVIOUS
  <2>b. m \in Nat /\ n \in Nat /\ i \in 1 .. m + n /\ j \in 1 .. m + n /\ i > m /\ i < j
    BY <1>2, <1>4, <2>0, <2>a
  <2>c. /\ i - m \in 1 .. n /\ j - m \in 1 .. n /\ i - m < j - m
        /\ m + (i - m) = i /\ m + (j - m) = j
    BY <2>b
  <2>1. /\ i - Len(s) \in 1 .. Len(t) /\ j - Len(s) \in 1 .. Len(t)
        /\ i - Len(s) < j - Len(s)
        /\ Len(s) + (i - Len(s)) = i /\ Len(s) + (j - Len(s)) = j
    BY <2>a, <2>c
  <2>2. (s \o t)[i] = t[i - Len(s)] /\ (s \o t)[j] = t[j - Len(s)]
    BY <1>2, <2>1
  <2>q. QED BY <1>2, <2>1, <2>2 DEF InOrder
<1>q. QED BY <1>2, <1>3, <1>4

LEMMA VaList ==
    /\ VaDestroy \in Seq(VaFields) /\ Range(VaDestroy) = VaFields /\ InOrder(VaDestroy)
<1>1. Len(VaDestroy) = 19 /\ DOMAIN VaDestroy = 1 .. 19
  BY DEF VaDestroy
<1>2. Range(VaDestroy) = VaFields
  BY DEF VaDestroy, VaFields, Range
<1>3. VaDestroy \in [1 .. 19 -> VaFields]
  <2>1. \A i \in 1 .. 19 : VaDestroy[i] \in VaFields
    BY <1>1, <1>2 DEF Range
  <2>2. VaDestroy = [i \in 1 .. 19 |-> VaDestroy[i]]
    BY <1>1 DEF VaDestroy
  <2>q. QED BY <2>1, <2>2
<1>4. \A i \in 1 .. 19 : Rank(VaDestroy[i]) =
         (IF i = 1 THEN 0 ELSE IF i < 11 THEN 1 ELSE IF i < 13 THEN 2
          ELSE IF i < 18 THEN 3 ELSE IF i = 18 THEN 4 ELSE 5)
  BY DEF VaDestroy, Rank, TileParts, Range
<1>5. InOrder(VaDestroy)
  BY <1>1, <1>4 DEF InOrder
<1>6. VaDestroy \in Seq(VaFields)
  <2>1. \A n \in Nat : [1 .. n -> VaFields] \subseteq Seq(VaFields)
    OBVIOUS
  <2>q. QED BY <1>3, <2>1
<1>q. QED BY <1>2, <1>5, <1>6

LEMMA PartsAre == Range(TileParts) = Parts5
BY DEF TileParts, Parts5, Range

(* What is taken down first is a list of parts that nothing rests on. *)
Loose(s) == /\ s \in Seq(Parts5 \cup {"tj", "direct"})
            /\ \A i \in DOMAIN s : Rank(s[i]) = 0

LEMMA LooseLists ==
    /\ Loose(<<"tj", "direct">>) /\ Range(<<"tj", "direct">>) = {"tj", "direct"}
    /\ Loose(<<"result0", "slot0", "result1", "slot1", "companion">>)
    /\ Range(<<"result0", "slot0", "result1", "slot1", "companion">>) = Parts5
    /\ Loose(<<"result0", "slot0", "companion">>)
    /\ Range(<<"result0", "slot0", "companion">>) = {"result0", "slot0", "companion"}
    /\ Loose(<<"companion">>) /\ Range(<<"companion">>) = {"companion"}
<1>1. \A f \in Parts5 \cup {"tj", "direct"} : Rank(f) = 0
  BY PartsAre DEF Rank
<1>2. Loose(<<"tj", "direct">>) /\ Range(<<"tj", "direct">>) = {"tj", "direct"}
  BY <1>1 DEF Loose, Range, Parts5
<1>3. /\ Loose(<<"result0", "slot0", "result1", "slot1", "companion">>)
      /\ Range(<<"result0", "slot0", "result1", "slot1", "companion">>) = Parts5
  BY <1>1 DEF Loose, Range, Parts5
<1>4. /\ Loose(<<"result0", "slot0", "companion">>)
      /\ Range(<<"result0", "slot0", "companion">>) = {"result0", "slot0", "companion"}
  BY <1>1 DEF Loose, Range, Parts5
<1>5. Loose(<<"companion">>) /\ Range(<<"companion">>) = {"companion"}
  BY <1>1 DEF Loose, Range, Parts5
<1>q. QED BY <1>2, <1>3, <1>4, <1>5

AllFields == Parts5 \cup {"tj", "direct"} \cup VaFields

LEMMA Lists ==
    /\ Fields = AllFields
    /\ EncoderDestroy \in Seq(Fields) /\ InOrder(EncoderDestroy)
    /\ Range(EncoderDestroy) = {"tj", "direct"} \cup VaFields
    /\ TileDestroy \in Seq(Fields) /\ InOrder(TileDestroy) /\ Range(TileDestroy) = Fields
    /\ \A s : Loose(s) => /\ s \o EncoderDestroy \in Seq(Fields) /\ InOrder(s \o EncoderDestroy)
                          /\ Range(s \o EncoderDestroy) = Range(s) \cup Range(EncoderDestroy)
<1>0. /\ \A s : Loose(s) => s \in Seq(AllFields)
      /\ VaDestroy \in Seq(AllFields)
  BY VaList DEF Loose, AllFields
<1>1. /\ EncoderDestroy \in Seq(AllFields) /\ InOrder(EncoderDestroy)
      /\ Range(EncoderDestroy) = {"tj", "direct"} \cup VaFields
  <2>1. PICK s, t : s = <<"tj", "direct">> /\ t = VaDestroy
    OBVIOUS
  <2>2. s \in Seq(AllFields) /\ t \in Seq(AllFields) /\ \A i \in DOMAIN s : Rank(s[i]) = 0
    BY <1>0, <2>1, LooseLists DEF Loose
  <2>3. s \o t \in Seq(AllFields) /\ Range(s \o t) = Range(s) \cup Range(t) /\ InOrder(s \o t)
    <3>1. InOrder(t)
      BY <2>1, VaList
    <3>2. InOrder(s \o t)
      BY <2>2, <3>1, InOrderOfTwo
    <3>q. QED BY <2>2, <3>2, RangeOfTwo
  <2>q. QED BY <2>1, <2>3, VaList, LooseLists DEF EncoderDestroy
<1>2. ASSUME NEW s, Loose(s)
      PROVE  /\ s \o EncoderDestroy \in Seq(AllFields) /\ InOrder(s \o EncoderDestroy)
             /\ Range(s \o EncoderDestroy) = Range(s) \cup Range(EncoderDestroy)
  <2>1. s \in Seq(AllFields) /\ \A i \in DOMAIN s : Rank(s[i]) = 0
    BY <1>0, <1>2 DEF Loose
  <2>q. QED BY <1>1, <2>1, RangeOfTwo, InOrderOfTwo
<1>3. /\ TileDestroy \in Seq(AllFields) /\ InOrder(TileDestroy)
      /\ Range(TileDestroy) = Parts5 \cup Range(EncoderDestroy)
  <2>1. PICK s : s = <<"result0", "slot0", "result1", "slot1", "companion">>
    OBVIOUS
  <2>2. Loose(s) /\ Range(s) = Parts5
    BY <2>1, LooseLists
  <2>q. QED BY <1>2, <2>1, <2>2 DEF TileDestroy
<1>4. Fields = AllFields
  BY <1>1, <1>3 DEF Fields, AllFields
<1>q. QED BY <1>1, <1>2, <1>3, <1>4 DEF Fields

(* What rests on what. *)
BaseFields == {"drm_fd", "dpy", "vpp_config", "vpp_context", "bgrx_surface", "jpeg_config",
               "nv12_surface", "bgrx_image", "jpeg_context"}
QualityFields == {"pic_param_buf", "packed_header_param_buf", "packed_header_data_buf"}

LEMMA QualityBufsAre ==
    /\ Range(QualityBufs) = QualityFields /\ DOMAIN QualityBufs = 1 .. 3
    /\ {QualityBufs[i] : i \in 1 .. 3} = QualityFields
    /\ \A n \in 0 .. 2 : {QualityBufs[i] : i \in 1 .. n} \subseteq QualityFields
BY DEF QualityBufs, QualityFields, Range

LEMMA JpegUsesAre ==
    JpegUses = {"jpeg_context", "nv12_surface", "coded_buf", "qmatrix_buf", "huffman_buf",
                "slice_param_buf"} \cup QualityFields
BY QualityBufsAre DEF JpegUses

LEMMA BasesAre ==
    /\ \A f \in Parts5 \cup {"tj", "direct", "drm_fd"} : Bases(f) = {}
    /\ \A f \in QualityFields : Bases(f) = {"dpy", "jpeg_context"}
    /\ Bases("userptr") = {"dpy"}
    /\ \A f \in Fields : Bases(f) \subseteq BaseFields
    /\ \A f \in Fields : \A b \in Bases(f) : Rank(f) < Rank(b)
<1>1. ASSUME NEW f \in Parts5 \cup {"tj", "direct", "drm_fd"} PROVE Bases(f) = {}
  <2>1. CASE f \in Parts5
    BY <2>1, PartsAre, JpegUsesAre DEF Bases, QualityFields, Parts5
  <2>2. CASE f \in {"tj", "direct", "drm_fd"}
    BY <2>2, PartsAre, JpegUsesAre DEF Bases, QualityFields, Parts5
  <2>q. QED BY <2>1, <2>2
<1>2. \A f \in QualityFields : Bases(f) = {"dpy", "jpeg_context"}
  BY PartsAre, JpegUsesAre DEF Bases, QualityFields, Parts5
<1>3. Bases("userptr") = {"dpy"}
  BY PartsAre, JpegUsesAre DEF Bases, QualityFields, Parts5
<1>4. ASSUME NEW f \in Fields
      PROVE  Bases(f) \subseteq BaseFields /\ \A b \in Bases(f) : Rank(f) < Rank(b)
  <2>1. CASE f \in Parts5 \cup {"tj", "direct", "drm_fd"}
    BY <1>1, <2>1
  <2>2. CASE f \in QualityFields
    BY <1>2, <2>2, PartsAre DEF QualityFields, Parts5, BaseFields, Rank
  <2>3. CASE f = "userptr"
    BY <1>3, <2>3, PartsAre DEF Parts5, BaseFields, Rank
  <2>4. CASE f \in {"coded_buf", "qmatrix_buf", "huffman_buf", "slice_param_buf"}
    BY <2>4, PartsAre, JpegUsesAre DEF Bases, QualityFields, Parts5, BaseFields, Rank
  <2>5. CASE f \in {"image_data", "bgrx_image", "vpp_param_buf"}
    BY <2>5, PartsAre, JpegUsesAre DEF Bases, QualityFields, Parts5, BaseFields, Rank
  <2>6. CASE f \in {"jpeg_context", "vpp_context"}
    BY <2>6, PartsAre, JpegUsesAre DEF Bases, QualityFields, Parts5, BaseFields, Rank
  <2>7. CASE f \in {"nv12_surface", "bgrx_surface", "jpeg_config", "vpp_config", "dpy"}
    BY <2>7, PartsAre, JpegUsesAre DEF Bases, QualityFields, Parts5, BaseFields, Rank
  <2>q. QED BY <2>1, <2>2, <2>3, <2>4, <2>5, <2>6, <2>7, Lists
        DEF AllFields, VaFields, QualityFields
<1>q. QED BY <1>1, <1>2, <1>3, <1>4

-----------------------------------------------------------------------------
(* There is always a free number. *)
LEMMA FreeNumber ==
    ASSUME NEW existing, IsFiniteSet(existing), NEW f
    PROVE  /\ NumberFor(f, existing) \in Nat
           /\ \A o \in existing : o.for = f => o.id # NumberFor(f, existing)
<1>. DEFINE n == Cardinality(existing)
            taken == {o.id : o \in existing}
            id == [o \in existing |-> o.id]
<1>1. n \in Nat
  BY FS_CardinalityType
<1>2. id \in Surjection(existing, taken)
  BY DEF Surjection
<1>. HIDE DEF n, taken, id
<1>3. IsFiniteSet(taken) /\ Cardinality(taken) <= Cardinality(existing)
  BY <1>2, FS_Surjection
<1>4. Cardinality(taken) \in Nat
  BY <1>3, FS_CardinalityType
<1>5. ~(0 .. n \subseteq taken)
  <2> SUFFICES ASSUME 0 .. n \subseteq taken PROVE FALSE
    OBVIOUS
  <2>1. Cardinality(0 .. n) = n - 0 + 1
    BY <1>1, FS_Interval
  <2>2. Cardinality(0 .. n) <= Cardinality(taken)
    BY <1>3, FS_Subset
  <2>q. QED BY <1>1, <1>3, <1>4, <2>1, <2>2 DEF n
<1>6. \E k \in 0 .. n : \A o \in existing : o.for = f => o.id # k
  BY <1>5 DEF taken
<1>7. /\ NumberFor(f, existing) \in 0 .. n
      /\ \A o \in existing : o.for = f => o.id # NumberFor(f, existing)
  BY <1>6 DEF NumberFor, n
<1>q. QED BY <1>1, <1>7

(* What owns every object by the handle of its field, and nothing twice. *)
Owns(v) == /\ v.held \in [Fields -> Objects \cup {None}] /\ v.live \subseteq Objects
           /\ IsFiniteSet(v.live)
           /\ \A f \in Fields : v.held[f] # None => v.held[f] \in v.live /\ v.held[f].for = f
           /\ \A o \in v.live : v.held[o.for] = o

Has(v) == {f \in Fields : v.held[f] # None}

Made == Qualities \cup Framebuffers \cup {None}

LEMMA AddedOwns ==
    ASSUME NEW v, Owns(v), NEW fields, fields \subseteq Fields, IsFiniteSet(fields),
           fields \cap Has(v) = {}, NEW made \in Made
    PROVE  /\ Owns(Added(v, fields, made)) /\ Has(Added(v, fields, made)) = Has(v) \cup fields
           /\ \A f \in fields : Added(v, fields, made).held[f].made = made
           /\ \A f \in Fields \ fields : Added(v, fields, made).held[f] = v.held[f]
<1>. DEFINE new(f) == New(f, made, v.live)
            w == Added(v, fields, made)
<1>1. ASSUME NEW f \in fields
      PROVE  new(f) \in Objects /\ new(f).for = f /\ new(f).made = made /\ new(f) # None
  <2>1. NumberFor(f, v.live) \in Nat /\ f \in Fields
    BY FreeNumber DEF Owns
  <2>2. new(f) \in Objects
    BY <2>1 DEF New, Objects, Made
  <2>q. QED BY <2>2, EncoderAssumption DEF New
<1>2. /\ w.held = [f \in Fields |-> IF f \in fields THEN new(f) ELSE v.held[f]]
      /\ w.live = v.live \cup {new(f) : f \in fields}
  BY DEF Added
<1>. HIDE DEF new, w
<1>3. w.held \in [Fields -> Objects \cup {None}] /\ w.live \subseteq Objects
  BY <1>1, <1>2 DEF Owns
<1>4. IsFiniteSet(w.live)
  <2>. DEFINE S == {new(f) : f \in fields}
              g == [f \in fields |-> new(f)]
  <2>1. g \in Surjection(fields, S)
    BY DEF Surjection
  <2>2. w.live = v.live \cup S /\ IsFiniteSet(v.live)
    BY <1>2 DEF Owns
  <2>. HIDE DEF S, g
  <2>3. IsFiniteSet(S)
    BY <2>1, FS_Surjection
  <2>4. IsFiniteSet(v.live \cup S)
    BY <2>2, <2>3, FS_Union
  <2>q. QED BY <2>2, <2>4
<1>5. \A f \in Fields : w.held[f] # None => w.held[f] \in w.live /\ w.held[f].for = f
  BY <1>1, <1>2 DEF Owns
<1>6. ASSUME NEW o \in w.live PROVE w.held[o.for] = o
  <2>1. CASE o \in v.live
    <3>1. v.held[o.for] = o /\ o.for \in Fields /\ o # None
      BY <2>1, EncoderAssumption DEF Owns, Objects
    <3>2. o.for \notin fields
      BY <3>1 DEF Has
    <3>q. QED BY <1>2, <3>1, <3>2
  <2>2. CASE o \in {new(f) : f \in fields}
    BY <1>1, <1>2, <2>2
  <2>q. QED BY <1>2, <2>1, <2>2
<1>7. Has(w) = Has(v) \cup fields
  BY <1>1, <1>2 DEF Has
<1>q. QED BY <1>1, <1>2, <1>3, <1>4, <1>5, <1>6, <1>7 DEF Owns, w

LEMMA DroppedOwns ==
    ASSUME NEW v, Owns(v), NEW fields, fields \subseteq Fields
    PROVE  /\ Owns(Dropped(v, fields)) /\ Has(Dropped(v, fields)) = Has(v) \ fields
           /\ \A f \in Fields \ fields : Dropped(v, fields).held[f] = v.held[f]
<1>. DEFINE w == Dropped(v, fields)
<1>1. /\ w.held = [f \in Fields |-> IF f \in fields THEN None ELSE v.held[f]]
      /\ w.live = v.live \ {v.held[f] : f \in fields}
  BY DEF Dropped
<1>. HIDE DEF w
<1>2. w.held \in [Fields -> Objects \cup {None}] /\ w.live \subseteq Objects
  BY <1>1 DEF Owns
<1>3. IsFiniteSet(w.live)
  <2>1. w.live \in SUBSET v.live /\ IsFiniteSet(v.live)
    BY <1>1 DEF Owns
  <2>q. QED BY <2>1, FS_Subset
<1>4. ASSUME NEW f \in Fields, w.held[f] # None
      PROVE  w.held[f] \in w.live /\ w.held[f].for = f
  <2>1. f \notin fields /\ w.held[f] = v.held[f] /\ v.held[f] \in v.live /\ v.held[f].for = f
    BY <1>1, <1>4 DEF Owns
  <2>2. ASSUME NEW g \in fields, v.held[f] = v.held[g] PROVE FALSE
    <3>1. g \in Fields /\ v.held[g] # None
      BY <1>4, <2>1, <2>2
    <3>2. v.held[g].for = g
      BY <3>1 DEF Owns
    <3>q. QED BY <2>1, <2>2, <3>2
  <2>q. QED BY <1>1, <2>1, <2>2
<1>5. ASSUME NEW o \in w.live PROVE w.held[o.for] = o
  <2>1. o \in v.live /\ v.held[o.for] = o /\ o.for \in Fields
    BY <1>1 DEF Owns, Objects
  <2>2. o.for \notin fields
    BY <1>1, <2>1
  <2>q. QED BY <1>1, <2>1, <2>2
<1>6. Has(w) = Has(v) \ fields
  BY <1>1 DEF Has
<1>q. QED BY <1>1, <1>2, <1>3, <1>4, <1>5, <1>6 DEF Owns, w

(* The tile itself. *)
LEMMA OwnedIs ==
    /\ Owned.held = held /\ Owned.live = live /\ Has(Owned) = There
    /\ OwnedOK /\ Linked <=> Owns(Owned)
BY DEF Owned, Has, There, Valid, OwnedOK, Linked, Owns

LEMMA NowOwns ==
    ASSUME NEW v, Owns(v), Becomes(v)
    PROVE  OwnedOK' /\ Linked' /\ There' = Has(v)
BY DEF Becomes, Owns, OwnedOK, Linked, There, Valid, Has

-----------------------------------------------------------------------------
(* The calls of direct_vaapi_init. *)
LEMMA TheCalls ==
    /\ Len(VaCalls) = 17 /\ DOMAIN VaCalls = 1 .. 17
    /\ VaCalls[1] = "drm_fd" /\ VaCalls[2] = "dpy" /\ VaCalls[3] = "initialize"
    /\ VaCalls[4] = "vpp_config" /\ VaCalls[5] = "vpp_context" /\ VaCalls[6] = "attributes"
    /\ VaCalls[7] = "jpeg_config" /\ VaCalls[8] = "bgrx_surface"
    /\ VaCalls[9] = "nv12_surface" /\ VaCalls[10] = "vpp_param_buf"
    /\ VaCalls[11] = "jpeg_context" /\ VaCalls[12] = "bgrx_image"
    /\ VaCalls[13] = "image_data" /\ VaCalls[14] = "coded_buf"
    /\ VaCalls[15] = "qmatrix_buf" /\ VaCalls[16] = "huffman_buf"
    /\ VaCalls[17] = "slice_param_buf"
BY DEF VaCalls

LEMMA MadeBySteps ==
    /\ MadeBy(1) = {"direct"}
    /\ \A n \in 1 .. 17 : /\ MadeBy(n + 1) = MadeBy(n) \cup ({VaCalls[n]} \ CreateNothing)
                          /\ \A k \in 1 .. n - 1 : VaCalls[k] \in MadeBy(n) \cup CreateNothing
<1>1. MadeBy(1) = {"direct"}
  BY DEF MadeBy
<1>2. ASSUME NEW n \in 1 .. 17
      PROVE  /\ MadeBy(n + 1) = MadeBy(n) \cup ({VaCalls[n]} \ CreateNothing)
             /\ \A k \in 1 .. n - 1 : VaCalls[k] \in MadeBy(n) \cup CreateNothing
  <2>1. {VaCalls[i] : i \in 1 .. (n + 1) - 1} = {VaCalls[i] : i \in 1 .. n - 1} \cup {VaCalls[n]}
    <3>1. 1 .. (n + 1) - 1 = 1 .. n - 1 \cup {n}
      OBVIOUS
    <3>q. QED BY <3>1
  <2>q. QED BY <2>1 DEF MadeBy
<1>q. QED BY <1>1, <1>2

LEMMA EveryCall ==
    ASSUME NEW n \in 1 .. 17
    PROVE  /\ VaCalls[n] \in VaFields \cup CreateNothing
           /\ VaCalls[n] \notin QualityFields \cup {"userptr"} \cup Parts5 \cup {"tj", "direct"}
           /\ VaCalls[n] = "bgrx_image" <=> n = 12
           /\ \A k \in 1 .. n - 1 : VaCalls[k] # VaCalls[n]
<1>1. /\ VaCalls[n] \in VaFields \cup CreateNothing
      /\ VaCalls[n] \notin QualityFields \cup {"userptr"} \cup Parts5 \cup {"tj", "direct"}
  BY TheCalls DEF VaFields, CreateNothing, QualityFields, Parts5
<1>2. VaCalls[n] = "bgrx_image" <=> n = 12
  BY TheCalls
<1>3. \A k \in 1 .. n - 1 : VaCalls[k] # VaCalls[n]
  BY TheCalls
<1>q. QED BY <1>1, <1>2, <1>3

LEMMA BasesOfCalls ==
    ASSUME NEW n \in 1 .. 17, VaCalls[n] \notin CreateNothing
    PROVE  Bases(VaCalls[n]) \subseteq NeededBy(n)
<1>0. \A k \in 1 .. n - 1 :
         VaCalls[k] \notin CreateNothing \cup {"image_data"} => VaCalls[k] \in NeededBy(n)
  BY MadeBySteps DEF NeededBy
<1>1. CASE n > 2
  <2>1. "dpy" \in NeededBy(n)
    BY <1>0, <1>1, TheCalls DEF CreateNothing
  <2>2. CASE n \in {4, 7, 8, 9}
    BY <2>1, <2>2, TheCalls, PartsAre, JpegUsesAre DEF Bases, QualityFields, Parts5
  <2>3. CASE n = 5
    BY <1>0, <2>1, <2>3, TheCalls, PartsAre, JpegUsesAre
    DEF Bases, QualityFields, Parts5, CreateNothing
  <2>4. CASE n = 10
    BY <1>0, <2>1, <2>4, TheCalls, PartsAre, JpegUsesAre
    DEF Bases, QualityFields, Parts5, CreateNothing
  <2>5. CASE n = 11
    BY <1>0, <2>1, <2>5, TheCalls, PartsAre, JpegUsesAre
    DEF Bases, QualityFields, Parts5, CreateNothing
  <2>6. CASE n = 12
    BY <1>0, <2>1, <2>6, TheCalls, PartsAre, JpegUsesAre
    DEF Bases, QualityFields, Parts5, CreateNothing
  <2>7. CASE n = 13
    BY <1>0, <2>1, <2>7, TheCalls, PartsAre, JpegUsesAre
    DEF Bases, QualityFields, Parts5, CreateNothing
  <2>8. CASE n > 13
    <3>1. "jpeg_context" \in NeededBy(n)
      BY <1>0, <2>8, TheCalls DEF CreateNothing
    <3>2. VaCalls[n] \in {"coded_buf", "qmatrix_buf", "huffman_buf", "slice_param_buf"}
      BY <2>8, TheCalls
    <3>3. Bases(VaCalls[n]) = {"dpy", "jpeg_context"}
      BY <3>2, PartsAre, JpegUsesAre DEF Bases, QualityFields, Parts5
    <3>q. QED BY <2>1, <3>1, <3>3
  <2>9. n \notin {3, 6}
    BY TheCalls DEF CreateNothing
  <2>q. QED BY <1>1, <2>2, <2>3, <2>4, <2>5, <2>6, <2>7, <2>8, <2>9
<1>2. CASE n = 1
  BY <1>2, TheCalls, BasesAre
<1>3. CASE n = 2
  <2>1. Bases("dpy") = {"drm_fd"}
    BY PartsAre, JpegUsesAre DEF Bases, QualityFields, Parts5
  <2>q. QED BY <1>0, <1>3, <2>1, TheCalls DEF CreateNothing
<1>q. QED BY <1>1, <1>2, <1>3

(* All that direct_vaapi_init makes, and what the encodings need of it. *)
EncodingNeeds == {"dpy", "jpeg_context", "nv12_surface", "coded_buf", "qmatrix_buf", "huffman_buf",
                  "slice_param_buf", "vpp_context", "vpp_param_buf", "bgrx_surface",
                  "bgrx_image"}

LEMMA AllMade ==
    /\ EncodingNeeds \subseteq NeededBy(18)
    /\ \A n \in 1 .. 18 : /\ MadeBy(n) \subseteq {"direct"} \cup VaFields
                          /\ MadeBy(n) \cap (QualityFields \cup {"userptr"} \cup Parts5) = {}
                          /\ n < 18 => VaCalls[n] \notin MadeBy(n)
                          /\ "tj" \notin MadeBy(n)
<1>1. \A k \in 1 .. 17 : VaCalls[k] \notin CreateNothing \cup {"image_data"}
                           => VaCalls[k] \in NeededBy(18)
  BY MadeBySteps DEF MadeBy, NeededBy
<1>2. EncodingNeeds \subseteq NeededBy(18)
  BY <1>1, TheCalls DEF EncodingNeeds, CreateNothing
<1>3. ASSUME NEW n \in 1 .. 18
      PROVE  /\ MadeBy(n) \subseteq {"direct"} \cup VaFields
             /\ MadeBy(n) \cap (QualityFields \cup {"userptr"} \cup Parts5) = {}
             /\ n < 18 => VaCalls[n] \notin MadeBy(n)
             /\ "tj" \notin MadeBy(n)
  <2>1. ASSUME NEW f \in MadeBy(n)
        PROVE  f = "direct" \/ \E k \in 1 .. n - 1 : k \in 1 .. 17 /\ f = VaCalls[k]
                                                    /\ f \notin CreateNothing
    BY DEF MadeBy
  <2>2. ASSUME NEW f \in MadeBy(n)
        PROVE  f \in {"direct"} \cup VaFields
               /\ f \notin QualityFields \cup {"userptr"} \cup Parts5 \cup {"tj"}
    <3>1. CASE f = "direct"
      BY <3>1 DEF QualityFields, Parts5
    <3>2. CASE \E k \in 1 .. n - 1 : k \in 1 .. 17 /\ f = VaCalls[k] /\ f \notin CreateNothing
      BY <3>2, EveryCall
    <3>q. QED BY <2>1, <3>1, <3>2
  <2>3. ASSUME n < 18 PROVE VaCalls[n] \notin MadeBy(n)
    <3>1. n \in 1 .. 17
      BY <2>3
    <3>2. VaCalls[n] # "direct" /\ \A k \in 1 .. n - 1 : VaCalls[k] # VaCalls[n]
      BY <3>1, EveryCall
    <3>q. QED BY <2>1, <3>2
  <2>q. QED BY <2>2, <2>3
<1>q. QED BY <1>2, <1>3

-----------------------------------------------------------------------------
LEMMA InitEncoderInv == EncoderInit => EncoderInv
<1> SUFFICES ASSUME EncoderInit PROVE EncoderInv
  OBVIOUS
<1>1. There = {}
  BY DEF EncoderInit, There, Valid
<1>2. EncoderTypeOK
  <2>1. SetupOK
    BY TheCalls DEF EncoderInit, SetupOK
  <2>2. OwnedOK
    BY DEF EncoderInit, OwnedOK
  <2>3. fb \in Framebuffers /\ fb.made <= MaxModes + 1
    BY EncoderAssumption DEF EncoderInit, Framebuffers
  <2>4. userptr_failed \in BOOLEAN /\ recycled \in BOOLEAN
    BY DEF EncoderInit
  <2>q. QED BY <2>1, <2>2, <2>3, <2>4 DEF EncoderInit, EncoderTypeOK
<1>3. Linked
  BY <1>1, FS_EmptySet DEF EncoderInit, Linked
<1>4. Phase
  BY <1>1, PartsAre DEF EncoderInit, Phase, Parts5
<1>5. Closed
  BY <1>1 DEF Closed
<1>6. Carried /\ Overlaid
  BY Lists DEF EncoderInit, Carried, Overlaid, Valid, AllFields, VaFields
<1>7. QualityAsAsked /\ EncodesTheFramebuffer
  BY DEF EncoderInit, QualityAsAsked, EncodesTheFramebuffer, Nothing
<1>q. QED BY <1>2, <1>3, <1>4, <1>5, <1>6, <1>7 DEF EncoderInv

(* A step that creates and destroys nothing, encodes nothing and leaves the
   framebuffer alone. *)
LEMMA SetupStep ==
    ASSUME EncoderInv, UNCHANGED <<owned, inside, fb, last, recycled>>, SetupOK', Phase'
    PROVE  EncoderInv'
<1>1. /\ held' = held /\ live' = live /\ current_quality' = current_quality
      /\ userptr_failed' = userptr_failed
      /\ fb' = fb /\ last' = last /\ recycled' = recycled
  BY DEF owned, inside
<1>2. There' = There
  BY <1>1 DEF There, Valid
<1>3. EncoderTypeOK'
  BY <1>1 DEF EncoderInv, EncoderTypeOK, OwnedOK
<1>4. Linked' /\ Closed'
  BY <1>1, <1>2 DEF EncoderInv, Linked, Closed
<1>5. Carried' /\ Overlaid'
  BY <1>1 DEF EncoderInv, Carried, Overlaid, Valid
<1>6. QualityAsAsked' /\ EncodesTheFramebuffer'
  BY <1>1 DEF EncoderInv, QualityAsAsked, EncodesTheFramebuffer
<1>q. QED BY <1>3, <1>4, <1>5, <1>6 DEF EncoderInv

LEMMA SameThere == UNCHANGED owned => There' = There
BY DEF owned, There, Valid

LEMMA TakeDownStep ==
    ASSUME EncoderInv, UNCHANGED <<owned, inside, fb, last, recycled>>,
           NEW fields, fields \in Seq(Fields), InOrder(fields), There \subseteq Range(fields),
           NEW next, next \in {"cpu", "failed", "gone"}, TakeDown(fields, next)
    PROVE  EncoderInv'
<1>1. /\ pc' = "destroy" /\ todo' = fields /\ after' = next
      /\ stage' = stage /\ backend' = backend
  BY DEF TakeDown
<1>2. SetupOK'
  BY <1>1 DEF EncoderInv, EncoderTypeOK, SetupOK
<1>3. Phase'
  <2>1. There' = There
    BY SameThere
  <2>2. InOrder(todo)'
    BY <1>1 DEF InOrder
  <2>q. QED BY <1>1, <2>1, <2>2, PartsAre DEF Phase, Parts5
<1>q. QED BY <1>2, <1>3, SetupStep

(* One more object. *)
LEMMA CreatesOne ==
    ASSUME EncoderInv, NEW f \in Fields, f \notin There, Creates(f)
    PROVE  /\ OwnedOK' /\ Linked' /\ There' = There \cup {f}
           /\ \A g \in Fields \ {f} : held'[g] = held[g]
<1>. DEFINE v == Added(Owned, {f}, None)
<1>1. Owns(Owned) /\ Has(Owned) = There
  BY OwnedIs DEF EncoderInv, EncoderTypeOK
<1>2. /\ Owns(v) /\ Has(v) = There \cup {f}
      /\ \A g \in Fields \ {f} : v.held[g] = held[g]
  <2>1. IsFiniteSet({f}) /\ {f} \subseteq Fields /\ {f} \cap Has(Owned) = {} /\ None \in Made
    BY <1>1, FS_Singleton DEF Made
  <2>2. PICK w, fields, made : w = Owned /\ fields = {f} /\ made = None
    OBVIOUS
  <2>3. Owns(w) /\ fields \subseteq Fields /\ IsFiniteSet(fields) /\ fields \cap Has(w) = {}
        /\ made \in Made
    BY <1>1, <2>1, <2>2
  <2>4. /\ Owns(Added(w, fields, made)) /\ Has(Added(w, fields, made)) = Has(w) \cup fields
        /\ \A g \in Fields \ fields : Added(w, fields, made).held[g] = w.held[g]
    BY <2>3, AddedOwns
  <2>q. QED BY <1>1, <2>2, <2>4, OwnedIs
<1>3. Becomes(v)
  <2>1. held \in [Fields -> Objects \cup {None}]
    BY DEF EncoderInv, EncoderTypeOK, OwnedOK
  <2>2. /\ held' = [held EXCEPT ![f] = New(f, None, live)]
        /\ live' = live \cup {New(f, None, live)}
    BY DEF Creates
  <2>3. /\ v.held = [g \in Fields |-> IF g \in {f} THEN New(g, None, live) ELSE held[g]]
        /\ v.live = live \cup {New(g, None, live) : g \in {f}}
    BY DEF Added, Owned
  <2>4. held' = v.held
    BY <2>1, <2>2, <2>3
  <2>5. live' = v.live
    BY <2>2, <2>3
  <2>q. QED BY <2>4, <2>5 DEF Becomes
<1>. HIDE DEF v
<1>4. held' = v.held
  BY <1>3 DEF Becomes
<1>q. QED BY <1>2, <1>3, <1>4, NowOwns

LEMMA CreateStep ==
    ASSUME EncoderInv, NEW f \in Fields, f \notin There, Creates(f),
           f \notin QualityFields \cup {"userptr"}, Bases(f) \subseteq There,
           UNCHANGED <<inside, fb, last, recycled>>, SetupOK', Phase'
    PROVE  EncoderInv'
<1>1. /\ current_quality' = current_quality /\ userptr_failed' = userptr_failed
      /\ fb' = fb /\ last' = last /\ recycled' = recycled
  BY DEF inside
<1>2. /\ OwnedOK' /\ Linked' /\ There' = There \cup {f}
      /\ \A g \in Fields \ {f} : held'[g] = held[g]
  BY CreatesOne
<1>3. EncoderTypeOK'
  BY <1>1, <1>2 DEF EncoderInv, EncoderTypeOK
<1>4. Closed'
  BY <1>2 DEF EncoderInv, Closed
<1>5. QualityFields \cup {"userptr"} \subseteq Fields \ {f}
  BY Lists DEF AllFields, VaFields, QualityFields
<1>6. Carried' /\ Overlaid'
  BY <1>1, <1>2, <1>5, QualityBufsAre DEF EncoderInv, Carried, Overlaid, Valid
<1>7. QualityAsAsked' /\ EncodesTheFramebuffer'
  BY <1>1 DEF EncoderInv, QualityAsAsked, EncodesTheFramebuffer
<1>q. QED BY <1>2, <1>3, <1>4, <1>6, <1>7 DEF EncoderInv

LEMMA ChooseStep == EncoderInv /\ (ChooseCpu \/ ChooseVaapi \/ NoMemory) => EncoderInv'
<1> SUFFICES ASSUME EncoderInv, ChooseCpu \/ ChooseVaapi \/ NoMemory PROVE EncoderInv'
  OBVIOUS
<1>1. pc = "start" /\ There = {}
  BY DEF ChooseCpu, ChooseVaapi, NoMemory, EncoderInv, Phase
<1>2. CASE ChooseCpu
  <2>1. There' = {}
    BY <1>1, <1>2, SameThere DEF ChooseCpu
  <2>2. SetupOK' /\ Phase'
    BY <1>2, <2>1, PartsAre DEF ChooseCpu, EncoderInv, EncoderTypeOK, SetupOK, Phase, Parts5
  <2>q. QED BY <1>2, <2>2, SetupStep DEF ChooseCpu
<1>3. CASE ChooseVaapi
  <2>1. "direct" \in Fields /\ Bases("direct") = {} /\ "direct" \notin QualityFields
    BY Lists, BasesAre DEF AllFields, QualityFields
  <2>2. There' = {"direct"}
    BY <1>1, <1>3, <2>1, CreatesOne DEF ChooseVaapi
  <2>3. SetupOK' /\ stage' = stage /\ pc' = "vaapi" /\ backend' = "vaapi"
    BY <1>3, PartsAre DEF ChooseVaapi, EncoderInv, EncoderTypeOK, SetupOK
  <2>4. stage = 1
    BY <1>1 DEF EncoderInv, Phase
  <2>5. Phase'
    BY <2>2, <2>3, <2>4, MadeBySteps, PartsAre DEF Phase, NeededBy, Parts5
  <2>q. QED BY <1>1, <1>3, <2>1, <2>3, <2>5, CreateStep DEF ChooseVaapi
<1>4. CASE NoMemory
  BY <1>1, <1>4, Lists, TakeDownStep DEF NoMemory
<1>q. QED BY <1>2, <1>3, <1>4

LEMMA VaCallStep == EncoderInv /\ VaCall => EncoderInv'
<1> SUFFICES ASSUME EncoderInv, VaCall PROVE EncoderInv'
  OBVIOUS
<1>. DEFINE f == VaCalls[stage]
<1>1. /\ pc = "vaapi" /\ backend = "vaapi" /\ stage \in 1 .. 17
      /\ There \subseteq MadeBy(stage) /\ NeededBy(stage) \subseteq There
      /\ UNCHANGED <<todo, after, backend, inside, fb, last, recycled>>
      /\ IF f \in CreateNothing THEN UNCHANGED owned ELSE Creates(f)
      /\ NextStage(stage + 1) \/ (f = "bgrx_image" /\ NextStage(stage + 2))
  BY TheCalls DEF VaCall, EncoderInv, Phase, EncoderTypeOK, SetupOK
<1>2. /\ f \in VaFields \cup CreateNothing
      /\ f \notin QualityFields \cup {"userptr"} \cup Parts5 \cup {"tj", "direct"}
      /\ f = "bgrx_image" <=> stage = 12
      /\ f \notin CreateNothing => Bases(f) \subseteq NeededBy(stage)
      /\ f \notin MadeBy(stage)
  BY <1>1, EveryCall, BasesOfCalls, AllMade
<1>3. There' = There \cup ({f} \ CreateNothing)
  <2>1. CASE f \in CreateNothing
    BY <1>1, <2>1, SameThere
  <2>2. CASE f \notin CreateNothing
    <3>1. f \in Fields /\ f \notin There /\ Creates(f)
      BY <1>1, <1>2, <2>2, Lists DEF AllFields
    <3>q. QED BY <2>2, <3>1, CreatesOne
  <2>q. QED BY <2>1, <2>2
<1>4. There' \subseteq MadeBy(stage + 1) /\ NeededBy(stage + 1) \subseteq There'
  BY <1>1, <1>3, MadeBySteps DEF NeededBy
<1>5. \E n \in {stage + 1, stage + 2} :
         /\ n \in 2 .. 18 /\ NextStage(n)
         /\ There' \subseteq MadeBy(n) /\ NeededBy(n) \subseteq There'
  <2>1. CASE NextStage(stage + 1)
    BY <1>1, <1>4, <2>1
  <2>2. CASE f = "bgrx_image" /\ NextStage(stage + 2)
    <3>1. stage = 12 /\ MadeBy(14) = MadeBy(13) \cup ({"image_data"} \ CreateNothing)
      BY <1>2, <2>2, MadeBySteps, TheCalls
    <3>q. QED BY <1>4, <2>2, <3>1 DEF NeededBy
  <2>q. QED BY <1>1, <2>1, <2>2
<1>6. PICK n \in 2 .. 18 : /\ NextStage(n)
                           /\ There' \subseteq MadeBy(n) /\ NeededBy(n) \subseteq There'
  BY <1>1, <1>5
<1>7. \/ n = 18 /\ pc' = "companion" /\ stage' = 1
      \/ n \in 2 .. 17 /\ pc' = "vaapi" /\ stage' = n
  BY <1>6, TheCalls DEF NextStage
<1>8. SetupOK'
  <2>1. pc' \in {"vaapi", "companion"} /\ stage' \in 1 .. 17
    BY <1>7
  <2>2. pc' \in {"start", "vaapi", "cpu", "ready", "failed", "destroy", "gone"}
                \cup Range(TileParts)
    BY <2>1, PartsAre DEF Parts5
  <2>3. stage' \in 1 .. Len(VaCalls)
    BY <2>1, TheCalls
  <2>4. todo' \in Seq(Fields) /\ after' \in {"start", "cpu", "failed", "gone"}
        /\ backend' \in {None, "cpu", "vaapi"}
    BY <1>1 DEF EncoderInv, EncoderTypeOK, SetupOK
  <2>q. QED BY <2>2, <2>3, <2>4 DEF SetupOK
<1>9. Phase'
  <2>1. CASE n = 18 /\ pc' = "companion" /\ stage' = 1
    <3>1. EncoderDone'
      BY <1>1, <1>6, <2>1, TheCalls DEF EncoderDone
    <3>2. There' \subseteq Range(EncoderDestroy)
      BY <1>6, <2>1, AllMade, Lists
    <3>q. QED BY <2>1, <3>1, <3>2, PartsAre DEF Phase, Before
  <2>2. CASE n \in 2 .. 17 /\ pc' = "vaapi" /\ stage' = n
    BY <1>1, <1>6, <2>2, PartsAre DEF Phase, Parts5
  <2>q. QED BY <1>7, <2>1, <2>2
<1>10. CASE f \in CreateNothing
  BY <1>1, <1>8, <1>9, <1>10, SetupStep
<1>11. CASE f \notin CreateNothing
  <2>1. f \in Fields /\ f \notin There /\ Bases(f) \subseteq There /\ Creates(f)
    BY <1>1, <1>2, <1>11, Lists DEF AllFields
  <2>q. QED BY <1>1, <1>2, <1>8, <1>9, <2>1, CreateStep
<1>q. QED BY <1>10, <1>11

LEMMA CpuStep == EncoderInv /\ (VaCallFails \/ CpuInit \/ CpuInitFails) => EncoderInv'
<1> SUFFICES ASSUME EncoderInv, VaCallFails \/ CpuInit \/ CpuInitFails PROVE EncoderInv'
  OBVIOUS
<1>1. CASE VaCallFails
  <2>1. There \subseteq Range(EncoderDestroy)
    <3>1. There \subseteq MadeBy(stage) /\ stage \in 1 .. 17
      BY <1>1, TheCalls DEF VaCallFails, EncoderInv, Phase, EncoderTypeOK, SetupOK
    <3>q. QED BY <3>1, AllMade, Lists
  <2>q. QED BY <1>1, <2>1, Lists, TakeDownStep DEF VaCallFails
<1>2. CASE CpuInit
  <2>1. There = {} /\ "tj" \in Fields /\ Bases("tj") = {} /\ "tj" \notin QualityFields
    BY <1>2, Lists, BasesAre DEF CpuInit, EncoderInv, Phase, AllFields, QualityFields
  <2>2. There' = {"tj"}
    BY <1>2, <2>1, CreatesOne DEF CpuInit
  <2>3. SetupOK' /\ pc' = "companion" /\ backend' = "cpu"
    BY <1>2, PartsAre DEF CpuInit, EncoderInv, EncoderTypeOK, SetupOK, Parts5
  <2>4. Phase'
    BY <2>2, <2>3, Lists, PartsAre DEF Phase, Before, EncoderDone
  <2>q. QED BY <1>2, <2>1, <2>3, <2>4, CreateStep DEF CpuInit
<1>3. CASE CpuInitFails
  <2>1. There = {} /\ There' = There
    BY <1>3, SameThere DEF CpuInitFails, EncoderInv, Phase
  <2>2. SetupOK' /\ Phase'
    BY <1>3, <2>1, PartsAre DEF CpuInitFails, EncoderInv, EncoderTypeOK, SetupOK, Phase, Parts5
  <2>q. QED BY <1>3, <2>2, SetupStep DEF CpuInitFails
<1>q. QED BY <1>1, <1>2, <1>3

(* What follows a part, and what is there then. *)
LEMMA PartByPart ==
    ASSUME EncoderInv, TilePart
    PROVE  /\ pc \in Parts5
           /\ \/ pc = "companion" /\ pc' = "slot0"
              \/ pc = "slot0" /\ pc' = "result0"
              \/ pc = "result0" /\ pc' = "slot1"
              \/ pc = "slot1" /\ pc' = "result1"
              \/ pc = "result1" /\ pc' = "ready"
<1>1. /\ Len(TileParts) = 5 /\ DOMAIN TileParts = 1 .. 5
      /\ TileParts[1] = "companion" /\ TileParts[2] = "slot0" /\ TileParts[3] = "result0"
      /\ TileParts[4] = "slot1" /\ TileParts[5] = "result1"
  BY DEF TileParts
<1>2. pc \in Parts5
  BY PartsAre DEF TilePart
<1>a. PICK n : n = CHOOSE i \in DOMAIN TileParts : TileParts[i] = pc
  OBVIOUS
<1>3. pc' = IF n = Len(TileParts) THEN "ready" ELSE TileParts[n + 1]
  BY <1>a DEF TilePart
<1>4. n \in 1 .. 5 /\ TileParts[n] = pc
  <2>1. \E i \in DOMAIN TileParts : TileParts[i] = pc
    BY <1>1, <1>2 DEF Parts5
  <2>q. QED BY <1>1, <1>a, <2>1
<1>5. CASE n = 5
  BY <1>1, <1>2, <1>3, <1>4, <1>5
<1>6. CASE n = 1
  BY <1>1, <1>2, <1>3, <1>4, <1>6
<1>7. CASE n = 2
  BY <1>1, <1>2, <1>3, <1>4, <1>7
<1>8. CASE n = 3
  BY <1>1, <1>2, <1>3, <1>4, <1>8
<1>9. CASE n = 4
  BY <1>1, <1>2, <1>3, <1>4, <1>9
<1>q. QED BY <1>4, <1>5, <1>6, <1>7, <1>8, <1>9

LEMMA TilePartStep == EncoderInv /\ TilePart => EncoderInv'
<1> SUFFICES ASSUME EncoderInv, TilePart PROVE EncoderInv'
  OBVIOUS
<1>1. /\ pc \in Parts5 /\ Creates(pc)
      /\ EncoderDone /\ Before[pc] \subseteq There
      /\ There \subseteq Range(EncoderDestroy) \cup Before[pc]
      /\ UNCHANGED <<stage, todo, after, backend, inside, fb, last, recycled>>
  BY PartByPart, PartsAre DEF TilePart, EncoderInv, Phase
<1>2. pc \in Fields /\ Bases(pc) = {} /\ pc \notin QualityFields \cup {"userptr"}
  BY <1>1, Lists, BasesAre DEF AllFields, Parts5, QualityFields
<1>3. pc \notin There
  BY <1>1, Lists DEF Parts5, Before, VaFields
<1>4. There' = There \cup {pc}
  BY <1>1, <1>2, <1>3, CreatesOne
<1>5. SetupOK'
  BY <1>1, PartByPart, PartsAre DEF EncoderInv, EncoderTypeOK, SetupOK, Parts5
<1>6. EncoderDone'
  BY <1>1, <1>4 DEF EncoderDone
<1>7. Phase'
  <2>1. CASE pc = "result1" /\ pc' = "ready"
    BY <1>1, <1>4, <1>6, <2>1, PartsAre DEF Phase, Before, Parts5
  <2>2. CASE /\ pc' \in Parts5
             /\ Before[pc'] = Before[pc] \cup {pc}
    BY <1>1, <1>4, <1>6, <2>2, PartsAre DEF Phase, Parts5
  <2>3. \/ pc = "result1" /\ pc' = "ready"
        \/ pc' \in Parts5 /\ Before[pc'] = Before[pc] \cup {pc}
    BY PartByPart DEF Before, Parts5
  <2>q. QED BY <2>1, <2>2, <2>3
<1>q. QED BY <1>1, <1>2, <1>3, <1>5, <1>7, CreateStep

LEMMA TilePartFailsStep == EncoderInv /\ TilePartFails => EncoderInv'
<1> SUFFICES ASSUME EncoderInv, TilePartFails PROVE EncoderInv'
  OBVIOUS
<1>1. /\ pc \in {"companion", "slot0", "slot1"}
      /\ There \subseteq Range(EncoderDestroy) \cup Before[pc]
      /\ TakeDown(Undone[pc], "failed")
      /\ UNCHANGED <<owned, inside, fb, last, recycled>>
  BY PartsAre DEF TilePartFails, Undone, EncoderInv, Phase, Parts5
<1>2. /\ Undone[pc] \in Seq(Fields) /\ InOrder(Undone[pc])
      /\ Range(Undone[pc]) = Range(EncoderDestroy) \cup Before[pc]
  <2>1. CASE pc = "companion"
    BY <2>1, Lists DEF Undone, Before
  <2>2. CASE pc = "slot0"
    <3>1. PICK s : s = <<"companion">>
      OBVIOUS
    <3>2. Loose(s) /\ Range(s) = {"companion"}
      BY <3>1, LooseLists
    <3>3. Undone[pc] = s \o EncoderDestroy /\ Before[pc] = {"companion"}
      BY <2>2, <3>1 DEF Undone, Before
    <3>q. QED BY <3>2, <3>3, Lists
  <2>3. CASE pc = "slot1"
    <3>1. PICK s : s = <<"result0", "slot0", "companion">>
      OBVIOUS
    <3>2. Loose(s) /\ Range(s) = {"result0", "slot0", "companion"}
      BY <3>1, LooseLists
    <3>3. Undone[pc] = s \o EncoderDestroy /\ Before[pc] = {"result0", "slot0", "companion"}
      BY <2>3, <3>1 DEF Undone, Before
    <3>q. QED BY <3>2, <3>3, Lists
  <2>q. QED BY <1>1, <2>1, <2>2, <2>3
<1>q. QED BY <1>1, <1>2, TakeDownStep

LEMMA ExitStep == EncoderInv /\ Exit => EncoderInv'
<1> SUFFICES ASSUME EncoderInv, Exit PROVE EncoderInv'
  OBVIOUS
<1>1. There \subseteq Range(TileDestroy)
  BY Lists DEF There
<1>q. QED BY <1>1, Lists, TakeDownStep DEF Exit

(* What is taken down next has nothing resting on it. *)
LEMMA DestroyStep == EncoderInv /\ Destroy => EncoderInv'
<1> SUFFICES ASSUME EncoderInv, Destroy PROVE EncoderInv'
  OBVIOUS
<1>. DEFINE v == Dropped(Owned, {Head(todo)})
<1>1. /\ pc = "destroy" /\ todo # << >> /\ todo \in Seq(Fields) /\ todo' = Tail(todo)
      /\ There \subseteq Range(todo) /\ InOrder(todo) /\ after \in {"cpu", "failed", "gone"}
      /\ UNCHANGED <<pc, stage, after, backend, fb, last, recycled, current_quality, userptr_failed>>
  BY DEF Destroy, inside, EncoderInv, EncoderTypeOK, SetupOK, Phase
<1>2. PICK s : s = todo
  OBVIOUS
<1>3. /\ Head(s) = s[1] /\ 1 \in DOMAIN s /\ s[1] \in Fields
      /\ Tail(s) \in Seq(Fields)
      /\ \A i \in DOMAIN Tail(s) : i + 1 \in DOMAIN s /\ Tail(s)[i] = s[i + 1]
      /\ \A i \in DOMAIN s : i = 1 \/ (i - 1 \in DOMAIN Tail(s) /\ Tail(s)[i - 1] = s[i])
      /\ DOMAIN s \subseteq Nat /\ DOMAIN Tail(s) \subseteq Nat \ {0}
  <2>1. s \in Seq(Fields) /\ s # << >>
    BY <1>1, <1>2
  <2>2. /\ Len(s) \in Nat \ {0} /\ DOMAIN s = 1 .. Len(s) /\ Head(s) = s[1] /\ s[1] \in Fields
        /\ Tail(s) \in Seq(Fields) /\ Len(Tail(s)) = Len(s) - 1
        /\ DOMAIN Tail(s) = 1 .. Len(s) - 1
        /\ \A i \in 1 .. Len(s) - 1 : Tail(s)[i] = s[i + 1]
    BY <2>1
  <2>3. \A i \in 1 .. Len(s) : i = 1 \/ (i - 1 \in 1 .. Len(s) - 1 /\ Tail(s)[i - 1] = s[i])
    <3> TAKE i \in 1 .. Len(s)
    <3>1. i # 1 => i - 1 \in 1 .. Len(s) - 1 /\ (i - 1) + 1 = i
      BY <2>2
    <3>q. QED BY <2>2, <3>1
  <2>q. QED BY <2>2, <2>3
<1>4. PICK h \in Fields : h = Head(todo)
  BY <1>2, <1>3
<1>5. Owns(Owned) /\ Has(Owned) = There
  BY OwnedIs DEF EncoderInv, EncoderTypeOK
<1>6. /\ Owns(v) /\ Has(v) = There \ {h}
      /\ \A g \in Fields \ {h} : v.held[g] = held[g]
  BY <1>4, <1>5, DroppedOwns, OwnedIs
<1>7. Becomes(v)
  <2>1. held' = [held EXCEPT ![h] = None] /\ live' = live \ {held[h]}
    BY <1>4 DEF Destroy
  <2>2. /\ v.held = [f \in Fields |-> IF f \in {h} THEN None ELSE held[f]]
        /\ v.live = live \ {held[f] : f \in {h}}
    BY <1>4 DEF Dropped, Owned
  <2>3. held \in [Fields -> Objects \cup {None}]
    BY DEF EncoderInv, EncoderTypeOK, OwnedOK
  <2>4. held' = v.held
    BY <2>1, <2>2, <2>3
  <2>5. live' = v.live
    BY <2>1, <2>2
  <2>q. QED BY <2>4, <2>5 DEF Becomes
<1>. HIDE DEF v
<1>8. /\ OwnedOK' /\ Linked' /\ There' = There \ {h}
      /\ \A g \in Fields \ {h} : held'[g] = held[g]
      /\ held' = v.held
  BY <1>6, <1>7, NowOwns DEF Becomes
<1>9. SetupOK'
  BY <1>1, <1>2, <1>3 DEF EncoderInv, EncoderTypeOK, SetupOK
<1>10. EncoderTypeOK'
  BY <1>1, <1>8, <1>9 DEF EncoderInv, EncoderTypeOK
<1>11. /\ There' \subseteq Range(todo')
       /\ \A f \in There' : Rank(h) <= Rank(f)
  <2> SUFFICES ASSUME NEW f \in There' PROVE f \in Range(todo') /\ Rank(h) <= Rank(f)
    OBVIOUS
  <2>1. PICK i \in DOMAIN s : f = s[i]
    BY <1>1, <1>2, <1>8 DEF Range
  <2>2. i # 1
    BY <1>2, <1>3, <1>4, <1>8, <2>1
  <2>3. i - 1 \in DOMAIN todo' /\ todo'[i - 1] = f
    BY <1>1, <1>2, <1>3, <2>1, <2>2
  <2>4. Rank(s[1]) <= Rank(s[i])
    <3>1. 1 < i
      BY <1>3, <2>1, <2>2
    <3>q. QED BY <1>1, <1>2, <1>3, <2>1, <3>1 DEF InOrder
  <2>q. QED BY <1>2, <1>3, <1>4, <2>1, <2>3, <2>4 DEF Range
<1>12. InOrder(todo)'
  <2> SUFFICES ASSUME NEW i \in DOMAIN Tail(s), NEW j \in DOMAIN Tail(s), i < j
               PROVE  Rank(Tail(s)[i]) <= Rank(Tail(s)[j])
    BY <1>1, <1>2 DEF InOrder
  <2>1. i + 1 < j + 1
    BY <1>3
  <2>q. QED BY <1>1, <1>2, <1>3, <2>1 DEF InOrder
<1>13. Phase'
  BY <1>1, <1>11, <1>12, PartsAre DEF Phase, Parts5
<1>14. Closed'
  <2> SUFFICES ASSUME NEW f \in There' PROVE h \notin Bases(f)
    BY <1>8 DEF EncoderInv, Closed
  <2>1. f \in Fields /\ Rank(h) <= Rank(f)
    BY <1>8, <1>11 DEF There
  <2>2. Rank(f) \in Int /\ Rank(h) \in Int
    BY DEF Rank
  <2>q. QED BY <2>1, <2>2, BasesAre
<1>15. Carried' /\ Overlaid'
  <2>1. ASSUME NEW f \in Fields, held'[f] # None PROVE held[f] # None /\ held'[f] = held[f]
    <3>1. f # h
      BY <1>8, <2>1 DEF There, Valid
    <3>q. QED BY <1>8, <2>1, <3>1
  <2>2. QualityFields \cup {"userptr"} \subseteq Fields
    BY Lists DEF AllFields, VaFields, QualityFields
  <2>q. QED BY <1>1, <2>1, <2>2, QualityBufsAre DEF EncoderInv, Carried, Overlaid, Valid
<1>16. QualityAsAsked' /\ EncodesTheFramebuffer'
  BY <1>1 DEF EncoderInv, QualityAsAsked, EncodesTheFramebuffer
<1>q. QED BY <1>8, <1>10, <1>13, <1>14, <1>15, <1>16 DEF EncoderInv

LEMMA DestroyedStep == EncoderInv /\ Destroyed => EncoderInv'
<1> SUFFICES ASSUME EncoderInv, Destroyed PROVE EncoderInv'
  OBVIOUS
<1>1. /\ pc = "destroy" /\ todo = << >> /\ There \subseteq Range(todo)
      /\ pc' \in {"cpu", "failed", "gone"} /\ pc' = after
      /\ stage' = 1 /\ backend' = None /\ current_quality' = None /\ userptr_failed' = FALSE
      /\ UNCHANGED <<todo, after, live, fb, last, recycled>>
  BY DEF Destroyed, EncoderInv, Phase
<1>2. There = {}
  BY <1>1 DEF Range
<1>3. held \in [Fields -> Objects \cup {None}] /\ \A f \in Fields : held[f] = None
  BY <1>2 DEF There, Valid, EncoderInv, EncoderTypeOK, OwnedOK
<1>4. held' = held
  <2>1. held' = [f \in Fields |-> IF f \in Range(EncoderDestroy) \cup {"userptr"}
                                  THEN None ELSE held[f]]
    BY DEF Destroyed
  <2>q. QED BY <1>3, <2>1
<1>5. There' = {}
  BY <1>2, <1>4 DEF There, Valid
<1>6. EncoderTypeOK'
  <2>1. SetupOK'
    BY <1>1, TheCalls DEF EncoderInv, EncoderTypeOK, SetupOK
  <2>q. QED BY <1>1, <1>4, <2>1 DEF EncoderInv, EncoderTypeOK, OwnedOK
<1>7. Linked' /\ Closed'
  BY <1>1, <1>4, <1>5, <1>2 DEF EncoderInv, Linked, Closed
<1>8. Phase'
  BY <1>1, <1>5, PartsAre DEF Phase, Parts5
<1>9. Carried' /\ Overlaid'
  BY <1>1, <1>3, <1>4, Lists DEF Carried, Overlaid, Valid, AllFields, VaFields
<1>10. QualityAsAsked' /\ EncodesTheFramebuffer'
  BY <1>1 DEF EncoderInv, QualityAsAsked, EncodesTheFramebuffer
<1>q. QED BY <1>6, <1>7, <1>8, <1>9, <1>10 DEF EncoderInv

-----------------------------------------------------------------------------
(* What an encoding may change: the buffers of the quality, and the surface over
   the framebuffer. *)
Overlays(v) == v.held["userptr"] # None =>
    /\ v.held["userptr"].made \in Framebuffers
    /\ ~recycled /\ v.held["userptr"].made.at = fb.at /\ v.held["userptr"].made.size = fb.size
          => v.held["userptr"].made = fb

Kept(v) == /\ Owns(v) /\ Overlays(v)
           /\ \A f \in Fields \ (QualityFields \cup {"userptr"}) : v.held[f] = held[f]

Carries(v, q) == \A f \in QualityFields : v.held[f] # None => v.held[f].made = q

LEMMA SomeFields ==
    /\ QualityFields \cup {"userptr"} \cup EncodingNeeds \cup {"tj", "companion"} \subseteq Fields
    /\ EncodingNeeds \cap (QualityFields \cup {"userptr"}) = {}
    /\ "userptr" \notin QualityFields
BY Lists DEF AllFields, VaFields, QualityFields, EncodingNeeds, Parts5

LEMMA OwnedKept == EncoderInv => Kept(Owned)
<1> SUFFICES ASSUME EncoderInv PROVE Kept(Owned)
  OBVIOUS
<1>1. Owns(Owned)
  BY OwnedIs DEF EncoderInv, EncoderTypeOK
<1>2. Overlays(Owned)
  BY OwnedIs DEF EncoderInv, Overlaid, Overlays, Valid
<1>q. QED BY <1>1, <1>2, OwnedIs DEF Kept

LEMMA SurfaceDropped ==
    ASSUME NEW v, Kept(v)
    PROVE  /\ Kept(Dropped(v, {"userptr"})) /\ "userptr" \notin Has(Dropped(v, {"userptr"}))
           /\ \A f \in QualityFields : Dropped(v, {"userptr"}).held[f] = v.held[f]
<1>. DEFINE w == Dropped(v, {"userptr"})
<1>1. /\ Owns(w) /\ Has(w) = Has(v) \ {"userptr"}
      /\ \A f \in Fields \ {"userptr"} : w.held[f] = v.held[f]
  BY SomeFields, DroppedOwns DEF Kept
<1>. HIDE DEF w
<1>2. w.held["userptr"] = None
  BY <1>1, SomeFields DEF Has
<1>3. Kept(w)
  BY <1>1, <1>2 DEF Kept, Overlays
<1>q. QED BY <1>1, <1>3, SomeFields DEF w

LEMMA RebuiltKeeps ==
    ASSUME EncoderInv, NEW q \in Qualities, NEW n \in 0 .. 3
    PROVE  /\ Kept(Rebuilt(q, n)) /\ Carries(Rebuilt(q, n), q)
           /\ {QualityBufs[i] : i \in 1 .. n} \subseteq Has(Rebuilt(q, n))
<1>1. PICK d, fields, made : /\ d = Dropped(Owned, QualityFields)
                             /\ fields = {QualityBufs[i] : i \in 1 .. n} /\ made = q
  OBVIOUS
<1>2. /\ fields \subseteq QualityFields /\ made \in Made /\ Rebuilt(q, n) = Added(d, fields, made)
  <2>1. n \in 0 .. 2 \/ n = 3
    OBVIOUS
  <2>q. QED BY <1>1, <2>1, QualityBufsAre DEF Rebuilt, Made
<1>3. /\ Owns(d) /\ Has(d) = There \ QualityFields
      /\ \A f \in Fields \ QualityFields : d.held[f] = held[f]
  BY <1>1, SomeFields, OwnedIs, OwnedKept, DroppedOwns DEF Kept
<1>4. IsFiniteSet(fields)
  <2>1. IsFiniteSet(QualityFields)
    <3>1. /\ IsFiniteSet({"pic_param_buf"}) /\ IsFiniteSet({"packed_header_param_buf"})
          /\ IsFiniteSet({"packed_header_data_buf"})
      BY FS_Singleton
    <3>2. IsFiniteSet({"pic_param_buf"} \cup {"packed_header_param_buf"})
      BY <3>1, FS_Union
    <3>3. IsFiniteSet(({"pic_param_buf"} \cup {"packed_header_param_buf"})
                         \cup {"packed_header_data_buf"})
      BY <3>1, <3>2, FS_Union
    <3>4. QualityFields = ({"pic_param_buf"} \cup {"packed_header_param_buf"})
                             \cup {"packed_header_data_buf"}
      BY DEF QualityFields
    <3>q. QED BY <3>3, <3>4
  <2>2. fields \in SUBSET QualityFields
    BY <1>2
  <2>q. QED BY <2>1, <2>2, FS_Subset
<1>5. PICK w : w = Added(d, fields, made)
  OBVIOUS
<1>6. /\ Owns(w) /\ Has(w) = Has(d) \cup fields
      /\ \A f \in fields : w.held[f].made = made
      /\ \A f \in Fields \ fields : w.held[f] = d.held[f]
  <2>1. fields \subseteq Fields /\ fields \cap Has(d) = {}
    BY <1>2, <1>3, SomeFields
  <2>q. QED BY <1>2, <1>3, <1>4, <1>5, <2>1, AddedOwns
<1>7. \A f \in Fields \ QualityFields : w.held[f] = held[f]
  BY <1>2, <1>3, <1>6
<1>8. Overlays(w)
  BY <1>7, SomeFields, OwnedKept, OwnedIs DEF Kept, Overlays
<1>9. Carries(w, q)
  <2> SUFFICES ASSUME NEW f \in QualityFields, w.held[f] # None PROVE w.held[f].made = q
    BY DEF Carries
  <2>1. f \in Has(w)
    BY SomeFields DEF Has
  <2>2. f \in fields
    BY <1>3, <1>6, <2>1
  <2>q. QED BY <1>1, <1>6, <2>2
<1>q. QED BY <1>1, <1>2, <1>5, <1>6, <1>7, <1>8, <1>9 DEF Kept

LEMMA WithQualityKeeps ==
    ASSUME EncoderInv, NEW q \in Qualities
    PROVE  /\ Kept(WithQuality(q)) /\ Carries(WithQuality(q), q)
           /\ QualityFields \subseteq Has(WithQuality(q))
<1>1. CASE UpToDate(q)
  <2>1. WithQuality(q) = Owned /\ Kept(Owned)
    BY <1>1, OwnedKept DEF WithQuality
  <2>2. current_quality = q /\ QualityFields \subseteq There /\ q # None
    BY <1>1, SomeFields, QualityBufsAre, EncoderAssumption DEF UpToDate, There
  <2>3. Carries(Owned, q)
    BY <2>2, OwnedIs, QualityBufsAre DEF EncoderInv, Carried, Carries, There
  <2>q. QED BY <2>1, <2>2, <2>3, OwnedIs
<1>2. CASE ~UpToDate(q)
  <2>1. WithQuality(q) = Rebuilt(q, 3)
    BY <1>2 DEF WithQuality
  <2>q. QED BY <2>1, RebuiltKeeps, QualityBufsAre
<1>q. QED BY <1>1, <1>2

LEMMA WithSurfaceKeeps ==
    ASSUME EncoderInv, NEW v, Kept(v), NEW q, Carries(v, q), QualityFields \subseteq Has(v)
    PROVE  /\ Kept(WithSurface(v)) /\ Carries(WithSurface(v), q)
           /\ QualityFields \cup {"userptr"} \subseteq Has(WithSurface(v))
           /\ ~recycled => WithSurface(v).held["userptr"].made = fb
<1>1. CASE Fits(v)
  <2>1. WithSurface(v) = v
    BY <1>1 DEF WithSurface
  <2>2. "userptr" \in Has(v) /\ (~recycled => v.held["userptr"].made = fb)
    BY <1>1, SomeFields DEF Fits, Kept, Overlays, Has
  <2>q. QED BY <2>1, <2>2
<1>2. CASE ~Fits(v)
  <2>1. PICK d, fields, made : /\ d = Dropped(v, {"userptr"}) /\ fields = {"userptr"} /\ made = fb
    OBVIOUS
  <2>2. /\ Kept(d) /\ "userptr" \notin Has(d)
        /\ \A f \in QualityFields : d.held[f] = v.held[f]
    BY <2>1, SurfaceDropped
  <2>3. PICK w : w = Added(d, fields, made)
    OBVIOUS
  <2>4. /\ Owns(w) /\ Has(w) = Has(d) \cup fields
        /\ \A f \in fields : w.held[f].made = made
        /\ \A f \in Fields \ fields : w.held[f] = d.held[f]
    <3>1. made \in Made /\ fields \subseteq Fields /\ fields \cap Has(d) = {}
      BY <2>1, <2>2, SomeFields DEF Made, EncoderInv, EncoderTypeOK
    <3>2. IsFiniteSet(fields)
      BY <2>1, FS_Singleton
    <3>3. Owns(d)
      BY <2>2 DEF Kept
    <3>q. QED BY <2>3, <3>1, <3>2, <3>3, AddedOwns
  <2>5. w.held["userptr"].made = fb /\ fb \in Framebuffers
    BY <2>1, <2>4 DEF EncoderInv, EncoderTypeOK
  <2>6. Kept(w)
    BY <2>1, <2>2, <2>4, <2>5 DEF Kept, Overlays
  <2>7. \A f \in QualityFields : w.held[f] = v.held[f]
    BY <2>1, <2>2, <2>4, SomeFields
  <2>8. Carries(w, q) /\ QualityFields \cup {"userptr"} \subseteq Has(w)
    BY <2>1, <2>4, <2>7, SomeFields DEF Carries, Has
  <2>9. WithSurface(v) = w
    BY <1>2, <2>1, <2>3 DEF WithSurface
  <2>q. QED BY <2>5, <2>6, <2>8, <2>9
<1>q. QED BY <1>1, <1>2

(* What follows then. *)
LEMMA EncodingKeeps ==
    ASSUME EncoderInv, pc = "ready", backend = "vaapi", UNCHANGED <<setup, fb, recycled>>,
           NEW v, Kept(v), Becomes(v), QualityAsAsked', EncodesTheFramebuffer',
           current_quality' \in Qualities \cup {None}, userptr_failed' \in BOOLEAN,
           current_quality' = None \/ Carries(v, current_quality')
    PROVE  EncoderInv'
<1>1. /\ pc' = pc /\ stage' = stage /\ todo' = todo /\ after' = after /\ backend' = backend
      /\ fb' = fb /\ recycled' = recycled
  BY DEF setup
<1>2. OwnedOK' /\ Linked' /\ There' = Has(v) /\ held' = v.held
  BY NowOwns DEF Kept, Becomes
<1>3. \A f \in Fields \ (QualityFields \cup {"userptr"}) : f \in There' <=> f \in There
  BY <1>2 DEF Kept, There, Has, Valid
<1>4. EncoderTypeOK'
  <2>1. SetupOK'
    BY <1>1 DEF EncoderInv, EncoderTypeOK, SetupOK
  <2>q. QED BY <1>1, <1>2, <2>1 DEF EncoderInv, EncoderTypeOK
<1>5. NeededBy(18) \subseteq There /\ "companion" \in There
  BY TheCalls DEF EncoderInv, Phase, EncoderDone
<1>6. NeededBy(18) \subseteq There' /\ "companion" \in There'
  <2>1. MadeBy(18) \cap (QualityFields \cup {"userptr"}) = {}
    BY AllMade
  <2>2. NeededBy(18) \subseteq Fields \ (QualityFields \cup {"userptr"})
    BY <1>5, <2>1 DEF NeededBy, There
  <2>3. "companion" \in Fields \ (QualityFields \cup {"userptr"})
    BY SomeFields DEF QualityFields
  <2>q. QED BY <1>3, <1>5, <2>2, <2>3
<1>7. Phase'
  <2>1. EncoderDone'
    BY <1>1, <1>6, TheCalls DEF EncoderDone
  <2>2. pc' = "ready"
    BY <1>1
  <2>q. QED BY <1>6, <2>1, <2>2, PartsAre DEF Phase, Parts5
<1>8. Closed'
  <2> SUFFICES ASSUME NEW f \in There' PROVE Bases(f) \subseteq There'
    BY DEF Closed
  <2>1. f \in Fields
    BY DEF There
  <2>2. "dpy" \in There' /\ "jpeg_context" \in There'
    BY <1>6, AllMade DEF EncodingNeeds
  <2>3. CASE f \in QualityFields \cup {"userptr"}
    BY <2>2, <2>3, BasesAre
  <2>4. CASE f \notin QualityFields \cup {"userptr"}
    <3>1. f \in There /\ Bases(f) \subseteq There
      BY <1>3, <2>1, <2>4 DEF EncoderInv, Closed
    <3>2. Bases(f) \subseteq Fields \ (QualityFields \cup {"userptr"})
      BY <2>1, <3>1, BasesAre DEF There, BaseFields, QualityFields
    <3>q. QED BY <1>3, <3>1, <3>2
  <2>q. QED BY <2>3, <2>4
<1>9. Carried'
  BY <1>2, QualityBufsAre DEF Carried, Carries, Valid
<1>10. Overlaid'
  BY <1>1, <1>2 DEF Overlaid, Kept, Overlays, Valid
<1>q. QED BY <1>2, <1>4, <1>7, <1>8, <1>9, <1>10 DEF EncoderInv

(* What the encodings use is there. *)
LEMMA NothingMissing ==
    ASSUME EncoderInv, pc = "ready", backend = "vaapi",
           NEW v, Kept(v), NEW q \in Qualities, Carries(v, q),
           NEW more, QualityFields \cup more \subseteq Has(v)
    PROVE  /\ EncodingNeeds \cup QualityFields \cup more \subseteq Has(v)
           /\ JpegUses \subseteq EncodingNeeds \cup QualityFields
           /\ MadeWith(v, "pic_param_buf") = q /\ MadeWith(v, "packed_header_data_buf") = q
<1>1. EncodingNeeds \subseteq There
  <2>1. NeededBy(18) \subseteq There
    BY TheCalls DEF EncoderInv, Phase, EncoderDone
  <2>q. QED BY <2>1, AllMade
<1>2. EncodingNeeds \subseteq Has(v)
  <2> SUFFICES ASSUME NEW f \in EncodingNeeds PROVE f \in Has(v)
    OBVIOUS
  <2>1. f \in Fields \ (QualityFields \cup {"userptr"}) /\ held[f] # None
    BY <1>1, SomeFields DEF There, Valid
  <2>q. QED BY <2>1 DEF Kept, Has
<1>3. JpegUses \subseteq EncodingNeeds \cup QualityFields
  BY JpegUsesAre DEF EncodingNeeds
<1>4. MadeWith(v, "pic_param_buf") = q /\ MadeWith(v, "packed_header_data_buf") = q
  BY DEF MadeWith, Carries, Has, QualityFields
<1>q. QED BY <1>2, <1>3, <1>4

LEMMA SuccessIs ==
    ASSUME NEW v, NEW q \in Qualities, NEW uses, NEW source, Success(v, q, uses, source),
           uses \subseteq Has(v), fb' = fb, recycled' = recycled,
           MadeWith(v, "pic_param_buf") = q, MadeWith(v, "packed_header_data_buf") = q,
           source # fb => recycled
    PROVE  QualityAsAsked' /\ EncodesTheFramebuffer'
<1>1. {f \in uses : v.held[f] = None} = {}
  BY DEF Has
<1>2. /\ last'.asked = q /\ last'.quality = q /\ last'.header = q
      /\ last'.from = source /\ last'.shown = fb /\ last'.missing = {}
  BY <1>1 DEF Success
<1>q. QED BY <1>2 DEF QualityAsAsked, EncodesTheFramebuffer

LEMMA SameLast ==
    EncoderInv /\ last' = last /\ recycled' = recycled => QualityAsAsked' /\ EncodesTheFramebuffer'
BY DEF EncoderInv, QualityAsAsked, EncodesTheFramebuffer

LEMMA QualityFailsStep ==
    ASSUME EncoderInv, pc = "ready", backend = "vaapi", UNCHANGED <<setup, fb, recycled>>,
           NEW q \in Qualities, QualityFails(q)
    PROVE  EncoderInv'
<1>1. PICK n \in 0 .. 2 : Becomes(Rebuilt(q, n))
  BY DEF QualityFails
<1>2. Kept(Rebuilt(q, n))
  <2>1. n \in 0 .. 3
    OBVIOUS
  <2>q. QED BY <2>1, RebuiltKeeps
<1>3. current_quality' = None /\ userptr_failed' = userptr_failed /\ last' = last
  BY DEF QualityFails
<1>4. QualityAsAsked' /\ EncodesTheFramebuffer'
  BY <1>3, SameLast
<1>5. userptr_failed' \in BOOLEAN
  BY <1>3 DEF EncoderInv, EncoderTypeOK
<1>q. QED BY <1>1, <1>2, <1>3, <1>4, <1>5, EncodingKeeps

LEMMA EncodeRegionStep ==
    ASSUME EncoderInv, NEW q \in Qualities, EncodeRegion(q) PROVE EncoderInv'
<1>1. /\ pc = "ready" /\ backend = "vaapi" /\ UNCHANGED <<setup, fb, recycled>>
      /\ fb' = fb /\ recycled' = recycled
      /\ userptr_failed \in BOOLEAN
  BY DEF EncodeRegion, EncoderInv, EncoderTypeOK
<1>2. PICK v : v = WithQuality(q)
  OBVIOUS
<1>3. Kept(v) /\ Carries(v, q) /\ QualityFields \subseteq Has(v)
  BY <1>2, WithQualityKeeps
<1>4. CASE QualityFails(q)
  BY <1>1, <1>4, QualityFailsStep
<1>5. CASE SurfaceFails(q)
  <2>1. /\ current_quality' = q /\ userptr_failed' = TRUE /\ last' = last
        /\ Becomes(v) \/ Becomes(Dropped(v, {"userptr"}))
    BY <1>2, <1>5 DEF SurfaceFails
  <2>2. PICK w : Kept(w) /\ Becomes(w) /\ Carries(w, q)
    <3>1. CASE Becomes(v)
      BY <1>3, <3>1
    <3>2. CASE Becomes(Dropped(v, {"userptr"}))
      <4>1. Carries(Dropped(v, {"userptr"}), q)
        BY <1>3, SurfaceDropped DEF Carries
      <4>q. QED BY <1>3, <3>2, <4>1, SurfaceDropped
    <3>q. QED BY <2>1, <3>1, <3>2
  <2>3. QualityAsAsked' /\ EncodesTheFramebuffer'
    BY <1>1, <2>1, SameLast
  <2>q. QED BY <1>1, <2>1, <2>2, <2>3, EncodingKeeps
<1>6. CASE RegionEncoded(q)
  <2>1. PICK w : w = WithSurface(v)
    OBVIOUS
  <2>2. /\ Kept(w) /\ Carries(w, q) /\ QualityFields \cup {"userptr"} \subseteq Has(w)
        /\ ~recycled => w.held["userptr"].made = fb
    BY <1>3, <2>1, WithSurfaceKeeps
  <2>3. /\ Becomes(w) /\ current_quality' = q /\ userptr_failed' = userptr_failed
        /\ \/ last' = last
           \/ Success(w, q, JpegUses \cup {"vpp_context", "userptr"}, MadeWith(w, "userptr"))
    BY <1>2, <1>6, <2>1 DEF RegionEncoded
  <2>4. QualityAsAsked' /\ EncodesTheFramebuffer'
    <3>1. CASE last' = last
      BY <1>1, <3>1, SameLast
    <3>2. CASE Success(w, q, JpegUses \cup {"vpp_context", "userptr"}, MadeWith(w, "userptr"))
      <4>1. /\ EncodingNeeds \cup QualityFields \cup {"userptr"} \subseteq Has(w)
            /\ JpegUses \subseteq EncodingNeeds \cup QualityFields
            /\ MadeWith(w, "pic_param_buf") = q /\ MadeWith(w, "packed_header_data_buf") = q
        BY <1>1, <2>2, NothingMissing
      <4>2. JpegUses \cup {"vpp_context", "userptr"} \subseteq Has(w)
        BY <4>1 DEF EncodingNeeds
      <4>3. MadeWith(w, "userptr") # fb => recycled
        BY <2>2 DEF MadeWith, Has
      <4>q. QED BY <1>1, <3>2, <4>1, <4>2, <4>3, SuccessIs
    <3>q. QED BY <2>3, <3>1, <3>2
  <2>5. userptr_failed' \in BOOLEAN /\ current_quality' \in Qualities \cup {None}
        /\ Carries(w, current_quality')
    BY <1>1, <2>2, <2>3
  <2>q. QED BY <1>1, <2>2, <2>3, <2>4, <2>5, EncodingKeeps
<1>q. QED BY <1>4, <1>5, <1>6 DEF EncodeRegion

LEMMA EncodeBlackStep ==
    ASSUME EncoderInv, NEW q \in Qualities, EncodeBlack(q) PROVE EncoderInv'
<1>1. /\ pc = "ready" /\ backend = "vaapi" /\ UNCHANGED <<setup, fb, recycled>>
      /\ fb' = fb /\ recycled' = recycled
      /\ userptr_failed \in BOOLEAN
  BY DEF EncodeBlack, EncoderInv, EncoderTypeOK
<1>2. PICK v : v = WithQuality(q)
  OBVIOUS
<1>3. Kept(v) /\ Carries(v, q) /\ QualityFields \subseteq Has(v)
  BY <1>2, WithQualityKeeps
<1>4. CASE QualityFails(q)
  BY <1>1, <1>4, QualityFailsStep
<1>5. CASE ImageFails
  <2>1. SetupOK' /\ Phase'
    <3>1. /\ There' = There /\ pc' = pc /\ stage' = stage /\ todo' = todo /\ after' = after
          /\ backend' = backend
      BY <1>1, <1>5, SameThere DEF ImageFails, setup
    <3>2. SetupOK'
      BY <3>1 DEF EncoderInv, EncoderTypeOK, SetupOK
    <3>3. Phase'
      BY <1>1, <3>1, PartsAre DEF EncoderInv, Phase, EncoderDone, Parts5
    <3>q. QED BY <3>2, <3>3
  <2>q. QED BY <1>1, <1>5, <2>1, SetupStep DEF ImageFails
<1>6. CASE BlackEncoded(q)
  <2>1. /\ Becomes(v) /\ current_quality' = q /\ userptr_failed' = userptr_failed
        /\ \/ last' = last
           \/ Success(v, q, JpegUses \cup {"vpp_context", "vpp_param_buf", "bgrx_surface",
                                           "bgrx_image"}, fb)
    BY <1>2, <1>6 DEF BlackEncoded
  <2>2. QualityAsAsked' /\ EncodesTheFramebuffer'
    <3>1. CASE last' = last
      BY <1>1, <3>1, SameLast
    <3>2. CASE Success(v, q, JpegUses \cup {"vpp_context", "vpp_param_buf", "bgrx_surface",
                                            "bgrx_image"}, fb)
      <4>1. /\ EncodingNeeds \cup QualityFields \subseteq Has(v)
            /\ JpegUses \subseteq EncodingNeeds \cup QualityFields
            /\ MadeWith(v, "pic_param_buf") = q /\ MadeWith(v, "packed_header_data_buf") = q
        BY <1>1, <1>3, NothingMissing
      <4>2. JpegUses \cup {"vpp_context", "vpp_param_buf", "bgrx_surface", "bgrx_image"}
               \subseteq Has(v)
        BY <4>1 DEF EncodingNeeds
      <4>q. QED BY <1>1, <3>2, <4>1, <4>2, SuccessIs
    <3>q. QED BY <2>1, <3>1, <3>2
  <2>3. userptr_failed' \in BOOLEAN /\ current_quality' \in Qualities \cup {None}
        /\ Carries(v, current_quality')
    BY <1>1, <1>3, <2>1
  <2>q. QED BY <1>1, <1>3, <2>1, <2>2, <2>3, EncodingKeeps
<1>q. QED BY <1>4, <1>5, <1>6 DEF EncodeBlack

LEMMA EncodeCpuStep ==
    ASSUME EncoderInv, NEW q \in Qualities, EncodeCpu(q) PROVE EncoderInv'
<1>1. /\ pc = "ready" /\ UNCHANGED <<setup, owned, inside, fb, recycled>>
      /\ held' = held /\ live' = live /\ current_quality' = current_quality
      /\ userptr_failed' = userptr_failed /\ fb' = fb /\ recycled' = recycled
      /\ pc' = pc /\ stage' = stage /\ todo' = todo /\ after' = after /\ backend' = backend
  BY DEF EncodeCpu, setup, owned, inside
<1>2. PICK tj \in (IF backend = "cpu" THEN {"tj", "companion"} ELSE {"companion"}) :
          last' = [asked |-> q, quality |-> q, header |-> q, from |-> fb, shown |-> fb,
                   missing |-> {f \in {tj} : held[f] = None}]
  BY DEF EncodeCpu
<1>3. held[tj] # None
  <2>1. tj \in There
    <3>1. backend # "vaapi" => "tj" \in There
      BY <1>1 DEF EncoderInv, Phase, EncoderDone
    <3>2. "companion" \in There
      BY <1>1 DEF EncoderInv, Phase
    <3>q. QED BY <1>2, <3>1, <3>2
  <2>q. QED BY <2>1 DEF There, Valid
<1>4. last'.missing = {}
  <2>1. {f \in {tj} : held[f] = None} = {}
    BY <1>3
  <2>q. QED BY <1>2, <2>1
<1>5. QualityAsAsked' /\ EncodesTheFramebuffer'
  BY <1>2, <1>4 DEF QualityAsAsked, EncodesTheFramebuffer
<1>6. There' = There
  BY <1>1 DEF There, Valid
<1>7. EncoderTypeOK'
  <2>1. SetupOK' /\ OwnedOK'
    BY <1>1 DEF EncoderInv, EncoderTypeOK, SetupOK, OwnedOK
  <2>q. QED BY <1>1, <2>1 DEF EncoderInv, EncoderTypeOK
<1>8. Linked' /\ Closed'
  BY <1>1, <1>6 DEF EncoderInv, Linked, Closed
<1>9. Phase'
  BY <1>1, <1>6, PartsAre DEF EncoderInv, Phase, EncoderDone, Parts5
<1>10. Carried' /\ Overlaid'
  BY <1>1 DEF EncoderInv, Carried, Overlaid, Valid
<1>q. QED BY <1>5, <1>7, <1>8, <1>9, <1>10 DEF EncoderInv

LEMMA ModeChangeStep == EncoderInv /\ ModeChange => EncoderInv'
<1> SUFFICES ASSUME EncoderInv, ModeChange PROVE EncoderInv'
  OBVIOUS
<1>1. PICK a \in Addresses, n \in Modes :
          /\ fb' = [at |-> a, size |-> n, made |-> fb.made + 1]
          /\ recycled' = \/ recycled
                         \/ /\ Valid("userptr") /\ held["userptr"].made.at = a
                            /\ held["userptr"].made.size = n
  BY DEF ModeChange
<1>2. /\ pc' = pc /\ stage' = stage /\ todo' = todo /\ after' = after /\ backend' = backend
      /\ held' = held /\ live' = live /\ current_quality' = current_quality
      /\ userptr_failed' = userptr_failed /\ last' = last /\ fb.made <= MaxModes
  BY DEF ModeChange, setup, owned, inside
<1>3. There' = There
  BY <1>2 DEF There, Valid
<1>4. EncoderTypeOK'
  <2>1. SetupOK' /\ OwnedOK'
    BY <1>2 DEF EncoderInv, EncoderTypeOK, SetupOK, OwnedOK
  <2>2. fb.made \in Nat \ {0}
    BY DEF EncoderInv, EncoderTypeOK, Framebuffers
  <2>3. fb' \in Framebuffers /\ fb'.made <= MaxModes + 1
    BY <1>1, <1>2, <2>2, EncoderAssumption DEF Framebuffers
  <2>4. recycled' \in BOOLEAN
    BY <1>1 DEF EncoderInv, EncoderTypeOK
  <2>q. QED BY <1>2, <2>1, <2>3, <2>4 DEF EncoderInv, EncoderTypeOK
<1>5. Linked' /\ Closed'
  BY <1>2, <1>3 DEF EncoderInv, Linked, Closed
<1>6. Phase'
  <2>1. InOrder(todo)' <=> InOrder(todo)
    BY <1>2 DEF InOrder
  <2>2. EncoderDone' <=> EncoderDone
    BY <1>2, <1>3 DEF EncoderDone
  <2>q. QED BY <1>2, <1>3, <2>1, <2>2 DEF EncoderInv, Phase
<1>7. Carried'
  BY <1>2 DEF EncoderInv, Carried, Valid
<1>8. Overlaid'
  <2>1. fb'.at = a /\ fb'.size = n
    BY <1>1
  <2>q. QED BY <1>1, <1>2, <2>1 DEF EncoderInv, Overlaid, Valid
<1>9. QualityAsAsked' /\ EncodesTheFramebuffer'
  BY <1>1, <1>2 DEF EncoderInv, QualityAsAsked, EncodesTheFramebuffer
<1>q. QED BY <1>4, <1>5, <1>6, <1>7, <1>8, <1>9 DEF EncoderInv

LEMMA EncoderStutter == EncoderInv /\ UNCHANGED encoderVars => EncoderInv'
<1> SUFFICES ASSUME EncoderInv, UNCHANGED encoderVars PROVE EncoderInv'
  OBVIOUS
<1>1. /\ pc' = pc /\ stage' = stage /\ todo' = todo /\ after' = after /\ backend' = backend
      /\ UNCHANGED <<owned, inside, fb, last, recycled>>
  BY DEF encoderVars, setup
<1>2. There' = There
  BY <1>1, SameThere
<1>3. SetupOK'
  BY <1>1 DEF EncoderInv, EncoderTypeOK, SetupOK
<1>4. Phase'
  <2>1. InOrder(todo)' <=> InOrder(todo)
    BY <1>1 DEF InOrder
  <2>2. EncoderDone' <=> EncoderDone
    BY <1>1, <1>2 DEF EncoderDone
  <2>q. QED BY <1>1, <1>2, <2>1, <2>2 DEF EncoderInv, Phase
<1>q. QED BY <1>1, <1>3, <1>4, SetupStep

LEMMA NextEncoderInv == EncoderInv /\ [EncoderNext]_encoderVars => EncoderInv'
<1> SUFFICES ASSUME EncoderInv, [EncoderNext]_encoderVars PROVE EncoderInv'
  OBVIOUS
<1>1. CASE Setup
  BY <1>1, ChooseStep, VaCallStep, CpuStep, TilePartStep, TilePartFailsStep DEF Setup
<1>2. CASE Exit \/ Destroy \/ Destroyed
  BY <1>2, ExitStep, DestroyStep, DestroyedStep
<1>3. CASE \E q \in Qualities : EncodeRegion(q) \/ EncodeBlack(q) \/ EncodeCpu(q)
  BY <1>3, EncodeRegionStep, EncodeBlackStep, EncodeCpuStep
<1>4. CASE ModeChange
  BY <1>4, ModeChangeStep
<1>5. CASE Gone \/ UNCHANGED encoderVars
  BY <1>5, EncoderStutter DEF Gone
<1>q. QED BY <1>1, <1>2, <1>3, <1>4, <1>5 DEF EncoderNext

LEMMA AlwaysEncoderInv == EncoderSpec => []EncoderInv
BY InitEncoderInv, NextEncoderInv, PTL DEF EncoderSpec

(* Whatever fails, and whenever, a tile names everything that exists for it and
   nothing else, and nothing is left when it is gone (encoder.c:522-820). *)
THEOREM EncoderHandles == EncoderSpec => []HandlesAreLive
<1>1. EncoderInv => HandlesAreLive
  <2> SUFFICES ASSUME EncoderInv PROVE HandlesAreLive
    OBVIOUS
  <2>1. live \subseteq Objects /\ EncoderTypeOK
    BY DEF EncoderInv, EncoderTypeOK, OwnedOK
  <2>2. \A f \in There : held[f] \in live /\ held[f].for = f
    BY DEF EncoderInv, Linked
  <2>3. \A o \in live : o.for \in There /\ held[o.for] = o
    BY <2>1, EncoderAssumption DEF EncoderInv, Linked, There, Valid, Objects
  <2>4. {held[f] : f \in There} = live
    BY <2>2, <2>3
  <2>5. pc = "gone" => live = {}
    BY <2>3 DEF EncoderInv, Phase
  <2>q. QED BY <2>1, <2>2, <2>4, <2>5 DEF HandlesAreLive, There
<1>q. QED BY <1>1, AlwaysEncoderInv, PTL

(* No object outlives one it rests on, wherever a set-up stops and at whatever
   point of a destruction (encoder.c:697-744). *)
THEOREM EncoderOrder == EncoderSpec => []NothingOutlivesItsBase
<1>1. EncoderInv => NothingOutlivesItsBase
  <2> SUFFICES ASSUME EncoderInv, NEW o \in live, NEW b \in Bases(o.for)
               PROVE  \E p \in live : p.for = b
    BY DEF NothingOutlivesItsBase
  <2>1. o.for \in There
    BY EncoderAssumption
    DEF EncoderInv, EncoderTypeOK, OwnedOK, Linked, There, Valid, Objects
  <2>2. b \in There
    BY <2>1 DEF EncoderInv, Closed
  <2>q. QED BY <2>2 DEF EncoderInv, Linked
<1>q. QED BY <1>1, AlwaysEncoderInv, PTL

(* Every jpeg carries the quality it was asked for, and is rendered from objects
   that exist, whatever failed before (encoder.c:746-820). *)
THEOREM EncoderQuality == EncoderSpec => []QualityAsAsked
<1>1. EncoderInv => QualityAsAsked
  BY DEF EncoderInv
<1>q. QED BY <1>1, AlwaysEncoderInv, PTL

(* Every jpeg shows the stream's framebuffer, although the surface over it is kept
   from one encoding to the next and known by address and size only
   (encoder.c:333-401). *)
THEOREM EncoderFramebuffer == EncoderSpec => []EncodesTheFramebuffer
<1>1. EncoderInv => EncodesTheFramebuffer
  BY DEF EncoderInv
<1>q. QED BY <1>1, AlwaysEncoderInv, PTL
-----------------------------------------------------------------------------
(* Induction, and what is defined by recursion on numbers. *)
LEMMA LeastOf ==
    ASSUME NEW T, T \subseteq Nat, T # {}
    PROVE  \E x \in T : \A y \in T : x <= y
<1>1. PICK R : R = OpToRel(<, Nat)
  OBVIOUS
<1>2. IsWellFoundedOn(R, Nat)
  BY <1>1, NatLessThanWellFounded
<1>3. PICK x \in T : \A y \in T : <<y, x>> \notin R
  BY <1>2, WFMin
<1>4. ASSUME NEW y \in T PROVE x <= y
  <2>1. x \in Nat /\ y \in Nat
    OBVIOUS
  <2>2. y < x => <<y, x>> \in R
    BY <1>1, <2>1 DEF OpToRel
  <2>q. QED BY <1>3, <2>1, <2>2
<1>q. QED BY <1>4

LEMMA StepByStep ==
    ASSUME NEW S, 0 \in S, \A n \in Nat : n \in S => n + 1 \in S
    PROVE  Nat \subseteq S
<1> SUFFICES ASSUME Nat \ S # {} PROVE FALSE
  OBVIOUS
<1>1. PICK x \in Nat \ S : \A y \in Nat \ S : x <= y
  BY LeastOf
<1>2. CASE x = 0
  BY <1>2
<1>3. CASE x # 0
  <2>1. x - 1 \in Nat /\ ~(x <= x - 1) /\ (x - 1) + 1 = x
    BY <1>3
  <2>2. x - 1 \in S
    BY <1>1, <2>1
  <2>q. QED BY <2>1, <2>2
<1>q. QED BY <1>2, <1>3

Steps(T) == [Nat -> [T -> T]]

Begun(n, T, b, g) == {h \in [0 .. n -> T] : h[0] = b /\ \A k \in 0 .. n - 1 : h[k + 1] = g[k][h[k]]}

Follows(f, T, b, g) == f \in [Nat -> T] /\ f[0] = b /\ \A n \in Nat : f[n + 1] = g[n][f[n]]

LEMMA BegunAlways ==
    ASSUME NEW T, NEW b, NEW g, b \in T, g \in Steps(T)
    PROVE  \A n \in Nat : Begun(n, T, b, g) # {}
<1>1. PICK S : S = {n \in Nat : Begun(n, T, b, g) # {}}
  OBVIOUS
<1>2. 0 \in S
  <2>1. [k \in 0 .. 0 |-> b] \in Begun(0, T, b, g)
    BY DEF Begun
  <2>q. QED BY <1>1, <2>1
<1>3. ASSUME NEW n \in Nat, n \in S PROVE n + 1 \in S
  <2>1. PICK h : h \in Begun(n, T, b, g)
    BY <1>1, <1>3
  <2>2. PICK i : i = [k \in 0 .. n + 1 |-> IF k <= n THEN h[k] ELSE g[n][h[n]]]
    OBVIOUS
  <2>3. g[n][h[n]] \in T
    BY <2>1 DEF Begun, Steps
  <2>4. i \in [0 .. n + 1 -> T] /\ i[0] = b
    BY <2>1, <2>2, <2>3 DEF Begun
  <2>5. ASSUME NEW k \in 0 .. (n + 1) - 1 PROVE i[k + 1] = g[k][i[k]]
    <3>1. CASE k = n
      BY <2>1, <2>2, <3>1 DEF Begun
    <3>2. CASE k < n
      BY <2>1, <2>2, <3>2 DEF Begun
    <3>q. QED BY <3>1, <3>2
  <2>6. i \in Begun(n + 1, T, b, g)
    BY <2>4, <2>5 DEF Begun
  <2>q. QED BY <1>1, <2>6
<1>4. Nat \subseteq S
  BY <1>2, <1>3, StepByStep
<1>q. QED BY <1>1, <1>4

LEMMA BegunAlike ==
    ASSUME NEW T, NEW b, NEW g, b \in T, g \in Steps(T),
           NEW m \in Nat, NEW n \in Nat, NEW h \in Begun(m, T, b, g), NEW i \in Begun(n, T, b, g)
    PROVE  \A k \in Nat : k <= m /\ k <= n => h[k] = i[k]
<1>1. PICK U : U = {k \in Nat : k <= m /\ k <= n => h[k] = i[k]}
  OBVIOUS
<1>2. 0 \in U
  BY <1>1 DEF Begun
<1>3. ASSUME NEW k \in Nat, k \in U PROVE k + 1 \in U
  <2> SUFFICES ASSUME k + 1 <= m, k + 1 <= n PROVE h[k + 1] = i[k + 1]
    BY <1>1
  <2>1. h[k] = i[k] /\ k \in 0 .. m - 1 /\ k \in 0 .. n - 1
    BY <1>1, <1>3
  <2>q. QED BY <2>1 DEF Begun
<1>4. Nat \subseteq U
  BY <1>2, <1>3, StepByStep
<1>q. QED BY <1>1, <1>4

LEMMA RecursionDefines ==
    ASSUME NEW T, NEW b, NEW g, b \in T, g \in Steps(T)
    PROVE  \E f : Follows(f, T, b, g)
<1>. DEFINE whole(n) == CHOOSE h : h \in Begun(n, T, b, g)
<1>1. \A n \in Nat : whole(n) \in Begun(n, T, b, g)
  BY BegunAlways
<1>. HIDE DEF whole
<1>2. PICK f : f = [n \in Nat |-> whole(n)[n]]
  OBVIOUS
<1>3. f \in [Nat -> T] /\ f[0] = b
  BY <1>1, <1>2 DEF Begun
<1>4. ASSUME NEW n \in Nat PROVE f[n + 1] = g[n][f[n]]
  <2>1. PICK h, i : h = whole(n + 1) /\ i = whole(n)
    OBVIOUS
  <2>2. h \in Begun(n + 1, T, b, g) /\ i \in Begun(n, T, b, g) /\ n + 1 \in Nat
    BY <1>1, <2>1
  <2>3. h[n + 1] = g[n][h[n]]
    <3>1. n \in 0 .. (n + 1) - 1
      OBVIOUS
    <3>q. QED BY <2>2, <3>1 DEF Begun
  <2>4. h[n] = i[n]
    <3>1. \A k \in Nat : k <= n + 1 /\ k <= n => h[k] = i[k]
      BY <2>2, BegunAlike
    <3>q. QED BY <3>1
  <2>q. QED BY <1>2, <2>1, <2>3, <2>4
<1>q. QED BY <1>3, <1>4 DEF Follows

LEMMA Pow2Is ==
    /\ Pow2[0] = 1 /\ Pow2[1] = 2 /\ \A n \in Nat : Pow2[n + 1] = 2 * Pow2[n]
    /\ \A n \in Nat : Pow2[n] \in Nat \ {0}
<1>1. PICK T, b, g : /\ T = Nat \ {0} /\ b = 1 /\ g = [n \in Nat |-> [x \in T |-> 2 * x]]
  OBVIOUS
<1>a. PICK f : Follows(f, T, b, g)
  <2>1. b \in T /\ g \in Steps(T)
    BY <1>1 DEF Steps
  <2>q. QED BY <2>1, RecursionDefines
<1>2. f \in [Nat -> T] /\ f[0] = b /\ \A n \in Nat : f[n + 1] = g[n][f[n]]
  BY <1>a DEF Follows
<1>3. ASSUME NEW n \in Nat PROVE f[n] = IF n = 0 THEN 1 ELSE 2 * f[n - 1]
  <2>1. CASE n = 0
    BY <1>1, <1>2, <2>1
  <2>2. CASE n # 0
    <3>1. n - 1 \in Nat /\ (n - 1) + 1 = n
      BY <2>2
    <3>2. f[n] = g[n - 1][f[n - 1]] /\ f[n - 1] \in T
      BY <1>2, <3>1
    <3>q. QED BY <1>1, <2>2, <3>1, <3>2
  <2>q. QED BY <2>1, <2>2
<1>4. f = [n \in Nat |-> IF n = 0 THEN 1 ELSE 2 * f[n - 1]]
  BY <1>2, <1>3
<1>5. Pow2 = [n \in Nat |-> IF n = 0 THEN 1 ELSE 2 * Pow2[n - 1]]
  BY <1>4 DEF Pow2
<1>6. Pow2[0] = 1
  BY <1>5
<1>7. ASSUME NEW n \in Nat PROVE Pow2[n + 1] = 2 * Pow2[n]
  <2>1. n + 1 \in Nat /\ n + 1 # 0 /\ (n + 1) - 1 = n
    OBVIOUS
  <2>q. QED BY <1>5, <2>1
<1>8. \A n \in Nat : Pow2[n] \in Nat \ {0}
  <2>1. PICK S : S = {n \in Nat : Pow2[n] \in Nat \ {0}}
    OBVIOUS
  <2>2. 0 \in S /\ \A n \in Nat : n \in S => n + 1 \in S
    BY <1>6, <1>7, <2>1
  <2>3. Nat \subseteq S
    BY <2>2, StepByStep
  <2>q. QED BY <2>1, <2>3
<1>9. Pow2[1] = 2
  <2>1. PICK z : z = 0
    OBVIOUS
  <2>2. z \in Nat /\ z + 1 = 1
    BY <2>1
  <2>3. Pow2[z + 1] = 2 * Pow2[z]
    BY <1>7, <2>2
  <2>q. QED BY <1>6, <2>1, <2>2, <2>3
<1>q. QED BY <1>6, <1>7, <1>8, <1>9

(* A sum by recursion over some numbers. *)
Sums(n, a) == CHOOSE f : f = [k \in 0 .. n |-> IF k = 0 THEN 0 ELSE f[k - 1] + a[k]]

Adds(f, n, a) == f[0] = 0 /\ \A k \in 1 .. n : f[k] = f[k - 1] + a[k] /\ f[k - 1] \in Nat

LEMMA SumIs ==
    ASSUME NEW n \in Nat, NEW a \in [1 .. n -> Nat]
    PROVE  Adds(Sums(n, a), n, a)
<1>0. PICK sum : sum = Sums(n, a)
  OBVIOUS
<1>1. PICK T, b, g : /\ T = Nat /\ b = 0
                     /\ g = [k \in Nat |-> [x \in Nat |-> IF k < n THEN x + a[k + 1] ELSE x]]
  OBVIOUS
<1>a. PICK f : Follows(f, T, b, g)
  <2>1. ASSUME NEW k \in Nat, NEW x \in Nat PROVE (IF k < n THEN x + a[k + 1] ELSE x) \in Nat
    <3>1. k < n => k + 1 \in 1 .. n
      OBVIOUS
    <3>q. QED BY <3>1
  <2>2. b \in T /\ g \in Steps(T)
    BY <1>1, <2>1 DEF Steps
  <2>q. QED BY <2>2, RecursionDefines
<1>2. f \in [Nat -> Nat] /\ f[0] = b /\ \A k \in Nat : f[k + 1] = g[k][f[k]]
  BY <1>1, <1>a DEF Follows
<1>3. PICK h : h = [k \in 0 .. n |-> f[k]]
  OBVIOUS
<1>4. ASSUME NEW k \in 0 .. n PROVE h[k] = IF k = 0 THEN 0 ELSE h[k - 1] + a[k]
  <2>1. CASE k = 0
    BY <1>1, <1>2, <1>3, <2>1
  <2>2. CASE k # 0
    <3>1. k - 1 \in Nat /\ k - 1 \in 0 .. n /\ k - 1 < n /\ (k - 1) + 1 = k
      BY <2>2
    <3>2. f[k] = g[k - 1][f[k - 1]] /\ f[k - 1] \in Nat
      BY <1>2, <3>1
    <3>3. g[k - 1][f[k - 1]] = f[k - 1] + a[k]
      BY <1>1, <3>1, <3>2
    <3>q. QED BY <1>3, <2>2, <3>1, <3>2, <3>3
  <2>q. QED BY <2>1, <2>2
<1>5. h = [k \in 0 .. n |-> IF k = 0 THEN 0 ELSE h[k - 1] + a[k]]
  BY <1>3, <1>4
<1>6. sum = [k \in 0 .. n |-> IF k = 0 THEN 0 ELSE sum[k - 1] + a[k]]
  BY <1>0, <1>5 DEF Sums
<1>7. sum[0] = 0 /\ \A k \in 1 .. n : sum[k] = sum[k - 1] + a[k]
  <2>1. \A k \in 0 .. n : sum[k] = IF k = 0 THEN 0 ELSE sum[k - 1] + a[k]
    BY <1>6
  <2>2. \A k \in 1 .. n : k \in 0 .. n /\ k # 0
    OBVIOUS
  <2>q. QED BY <2>1, <2>2
<1>8. \A k \in Nat : k <= n => sum[k] \in Nat
  <2>1. PICK S : S = {k \in Nat : k <= n => sum[k] \in Nat}
    OBVIOUS
  <2>2. 0 \in S
    BY <1>7, <2>1
  <2>3. ASSUME NEW k \in Nat, k \in S PROVE k + 1 \in S
    <3> SUFFICES ASSUME k + 1 <= n PROVE sum[k + 1] \in Nat
      BY <2>1
    <3>1. k + 1 \in 1 .. n /\ (k + 1) - 1 = k /\ sum[k] \in Nat
      BY <2>1, <2>3
    <3>2. sum[k + 1] = sum[k] + a[k + 1] /\ a[k + 1] \in Nat
      BY <1>7, <3>1
    <3>q. QED BY <3>1, <3>2
  <2>4. Nat \subseteq S
    BY <2>2, <2>3, StepByStep
  <2>q. QED BY <2>1, <2>4
<1>9. \A k \in 1 .. n : sum[k - 1] \in Nat
  <2>1. \A k \in 1 .. n : k - 1 \in Nat /\ k - 1 <= n
    OBVIOUS
  <2>q. QED BY <1>8, <2>1
<1>q. QED BY <1>0, <1>7, <1>9 DEF Adds
-----------------------------------------------------------------------------
(* The first codes of two lengths, one after the other. *)
LEMMA SharesAre ==
    ASSUME NEW numbers \in Seq(Nat), NEW l \in 1 .. Len(numbers) + 1
    PROVE  \E share : /\ First(numbers, l) = share[l - 1] /\ share[0] = 0
                      /\ \A k \in 1 .. l - 1 : /\ share[k] = share[k - 1] + numbers[k] * Pow2[l - k]
                                               /\ share[k - 1] \in Nat
<1>1. PICK n, a : n = l - 1 /\ a = [k \in 1 .. n |-> numbers[k] * Pow2[l - k]]
  OBVIOUS
<1>2. n \in Nat /\ a \in [1 .. n -> Nat]
  <2>1. n \in Nat
    BY <1>1
  <2>2. ASSUME NEW k \in 1 .. n PROVE numbers[k] * Pow2[l - k] \in Nat
    <3>1. k \in 1 .. Len(numbers) /\ l - k \in Nat
      BY <1>1
    <3>2. numbers[k] \in Nat
      BY <3>1
    <3>3. PICK p : p = Pow2[l - k]
      OBVIOUS
    <3>4. p \in Nat
      BY <3>1, <3>3, Pow2Is
    <3>q. QED BY <3>2, <3>3, <3>4
  <2>q. QED BY <1>1, <2>1, <2>2
<1>3. PICK share : share = Sums(n, a)
  OBVIOUS
<1>4. share[0] = 0 /\ \A k \in 1 .. n : share[k] = share[k - 1] + a[k] /\ share[k - 1] \in Nat
  BY <1>2, <1>3, SumIs DEF Adds
<1>5. First(numbers, l) = share[l - 1]
  <2>1. ASSUME NEW f
        PROVE  [k \in 0 .. n |-> IF k = 0 THEN 0 ELSE f[k - 1] + a[k]]
             = [k \in 0 .. l - 1 |-> IF k = 0 THEN 0 ELSE f[k - 1] + numbers[k] * Pow2[l - k]]
    BY <1>1
  <2>2. share = CHOOSE f : f = [k \in 0 .. l - 1 |->
                      IF k = 0 THEN 0 ELSE f[k - 1] + numbers[k] * Pow2[l - k]]
    BY <1>3, <2>1 DEF Sums
  <2>q. QED BY <2>2 DEF First
<1>q. QED BY <1>1, <1>4, <1>5

LEMMA FirstIs ==
    ASSUME NEW numbers \in Seq(Nat)
    PROVE  /\ First(numbers, 1) = 0
           /\ \A l \in 1 .. Len(numbers) : First(numbers, l + 1) = 2 * (First(numbers, l) + numbers[l])
           /\ \A l \in 1 .. Len(numbers) + 1 : First(numbers, l) \in Nat
<1>1. First(numbers, 1) = 0
  BY SharesAre
<1>2. ASSUME NEW l \in 1 .. Len(numbers)
      PROVE  /\ First(numbers, l + 1) = 2 * (First(numbers, l) + numbers[l])
             /\ First(numbers, l) \in Nat
  <2>0. l \in 1 .. Len(numbers) + 1 /\ l + 1 \in 1 .. Len(numbers) + 1 /\ (l + 1) - 1 = l
    OBVIOUS
  <2>1. PICK s : /\ First(numbers, l) = s[l - 1] /\ s[0] = 0
                 /\ \A k \in 1 .. l - 1 : /\ s[k] = s[k - 1] + numbers[k] * Pow2[l - k]
                                          /\ s[k - 1] \in Nat
    BY <2>0, SharesAre
  <2>a. PICK m : m = l + 1
    OBVIOUS
  <2>b. m \in 1 .. Len(numbers) + 1 /\ m - 1 = l
    BY <2>a
  <2>c. PICK t : /\ First(numbers, m) = t[m - 1] /\ t[0] = 0
                 /\ \A k \in 1 .. m - 1 : /\ t[k] = t[k - 1] + numbers[k] * Pow2[m - k]
                                          /\ t[k - 1] \in Nat
    BY <2>b, SharesAre
  <2>2. /\ First(numbers, l + 1) = t[l] /\ t[0] = 0
        /\ \A k \in 1 .. l : t[k] = t[k - 1] + numbers[k] * Pow2[(l + 1) - k]
    BY <2>a, <2>b, <2>c
  <2>3. PICK U : U = {k \in Nat : k <= l - 1 => s[k] \in Nat /\ t[k] = 2 * s[k]}
    OBVIOUS
  <2>4. 0 \in U
    BY <2>1, <2>2, <2>3
  <2>5. ASSUME NEW k \in Nat, k \in U PROVE k + 1 \in U
    <3> SUFFICES ASSUME k + 1 <= l - 1 PROVE s[k + 1] \in Nat /\ t[k + 1] = 2 * s[k + 1]
      BY <2>3
    <3>1. /\ k + 1 \in 1 .. l - 1 /\ k + 1 \in 1 .. l /\ (k + 1) - 1 = k /\ k + 1 \in 1 .. Len(numbers)
          /\ l - (k + 1) \in Nat /\ (l + 1) - (k + 1) = (l - (k + 1)) + 1
      OBVIOUS
    <3>2. s[k] \in Nat /\ t[k] = 2 * s[k]
      BY <2>3, <2>5, <3>1
    <3>3. PICK n, p : n = numbers[k + 1] /\ p = Pow2[l - (k + 1)]
      OBVIOUS
    <3>a. PICK r : r = l - (k + 1)
      OBVIOUS
    <3>b. r \in Nat /\ (l + 1) - (k + 1) = r + 1 /\ Pow2[r] = p
      BY <3>1, <3>3, <3>a
    <3>c. p \in Nat /\ Pow2[r + 1] = 2 * p
      BY <3>b, Pow2Is
    <3>d. n \in Nat
      BY <3>1, <3>3
    <3>4. n \in Nat /\ p \in Nat /\ n * p \in Nat /\ Pow2[(l + 1) - (k + 1)] = 2 * p
      BY <3>b, <3>c, <3>d
    <3>5. s[k + 1] = s[k] + n * p
      BY <2>1, <3>1, <3>3
    <3>6. t[k + 1] = t[k] + n * (2 * p)
      BY <2>2, <3>1, <3>3, <3>4
    <3>7. n * (2 * p) = 2 * (n * p)
      BY <3>4
    <3>e. PICK x : x = n * p
      OBVIOUS
    <3>8. x \in Nat /\ s[k + 1] = s[k] + x /\ t[k + 1] = 2 * s[k] + 2 * x
      BY <3>2, <3>4, <3>5, <3>6, <3>7, <3>e
    <3>q. QED BY <3>2, <3>8
  <2>6. Nat \subseteq U
    BY <2>4, <2>5, StepByStep
  <2>7. s[l - 1] \in Nat /\ t[l - 1] = 2 * s[l - 1]
    <3>1. l - 1 \in Nat /\ l - 1 <= l - 1
      OBVIOUS
    <3>q. QED BY <2>3, <2>6, <3>1
  <2>8. t[l] = t[l - 1] + numbers[l] * 2
    <3>1. l \in 1 .. l /\ (l + 1) - l = 1
      OBVIOUS
    <3>2. Pow2[(l + 1) - l] = 2
      BY <3>1, Pow2Is
    <3>q. QED BY <2>2, <3>1, <3>2
  <2>9. numbers[l] \in Nat
    OBVIOUS
  <2>q. QED BY <2>1, <2>2, <2>7, <2>8, <2>9
<1>3. ASSUME NEW l \in 1 .. Len(numbers) + 1 PROVE First(numbers, l) \in Nat
  <2>1. CASE l = 1
    BY <1>1, <2>1
  <2>2. CASE l # 1
    <3>1. l - 1 \in 1 .. Len(numbers) /\ (l - 1) + 1 = l
      BY <2>2
    <3>2. PICK f, n : f = First(numbers, l - 1) /\ n = numbers[l - 1]
      OBVIOUS
    <3>3. First(numbers, l) = 2 * (f + n) /\ f \in Nat
      BY <1>2, <3>1, <3>2
    <3>4. n \in Nat
      BY <3>1, <3>2
    <3>q. QED BY <3>3, <3>4
  <2>q. QED BY <2>1, <2>2
<1>q. QED BY <1>1, <1>2, <1>3

LEMMA ShorterIs ==
    ASSUME NEW numbers \in Seq(Nat)
    PROVE  /\ Shorter(numbers, 1) = 0
           /\ \A l \in 1 .. Len(numbers) : Shorter(numbers, l + 1) = Shorter(numbers, l) + numbers[l]
           /\ \A l \in 1 .. Len(numbers) + 1 : Shorter(numbers, l) \in Nat
<1>1. ASSUME NEW l \in 1 .. Len(numbers) + 1
      PROVE  \E some : /\ Shorter(numbers, l) = some[l - 1] /\ some[0] = 0
                       /\ \A k \in 1 .. l - 1 : some[k] = some[k - 1] + numbers[k] /\ some[k - 1] \in Nat
  <2>1. PICK n, a : n = l - 1 /\ a = [k \in 1 .. n |-> numbers[k]]
    OBVIOUS
  <2>2. n \in Nat /\ a \in [1 .. n -> Nat]
    BY <2>1
  <2>3. PICK some : some = Sums(n, a)
    OBVIOUS
  <2>4. some[0] = 0 /\ \A k \in 1 .. n : some[k] = some[k - 1] + a[k] /\ some[k - 1] \in Nat
    BY <2>2, <2>3, SumIs DEF Adds
  <2>5. ASSUME NEW f
        PROVE  [k \in 0 .. n |-> IF k = 0 THEN 0 ELSE f[k - 1] + a[k]]
             = [k \in 0 .. l - 1 |-> IF k = 0 THEN 0 ELSE f[k - 1] + numbers[k]]
    BY <2>1
  <2>6. some = CHOOSE f : f = [k \in 0 .. l - 1 |-> IF k = 0 THEN 0 ELSE f[k - 1] + numbers[k]]
    BY <2>3, <2>5 DEF Sums
  <2>7. Shorter(numbers, l) = some[l - 1]
    BY <2>6 DEF Shorter
  <2>q. QED BY <2>1, <2>4, <2>7
<1>2. Shorter(numbers, 1) = 0
  BY <1>1
<1>3. ASSUME NEW l \in 1 .. Len(numbers)
      PROVE  /\ Shorter(numbers, l + 1) = Shorter(numbers, l) + numbers[l]
             /\ Shorter(numbers, l) \in Nat
  <2>0. l \in 1 .. Len(numbers) + 1 /\ l + 1 \in 1 .. Len(numbers) + 1 /\ (l + 1) - 1 = l
    OBVIOUS
  <2>1. PICK s : /\ Shorter(numbers, l) = s[l - 1] /\ s[0] = 0
                 /\ \A k \in 1 .. l - 1 : s[k] = s[k - 1] + numbers[k] /\ s[k - 1] \in Nat
    BY <2>0, <1>1
  <2>a. PICK m : m = l + 1
    OBVIOUS
  <2>b. m \in 1 .. Len(numbers) + 1 /\ m - 1 = l
    BY <2>a
  <2>c. PICK t : /\ Shorter(numbers, m) = t[m - 1] /\ t[0] = 0
                 /\ \A k \in 1 .. m - 1 : t[k] = t[k - 1] + numbers[k] /\ t[k - 1] \in Nat
    BY <2>b, <1>1
  <2>2. /\ Shorter(numbers, l + 1) = t[l] /\ t[0] = 0
        /\ \A k \in 1 .. l : t[k] = t[k - 1] + numbers[k] /\ t[k - 1] \in Nat
    BY <2>a, <2>b, <2>c
  <2>3. PICK U : U = {k \in Nat : k <= l - 1 => t[k] = s[k]}
    OBVIOUS
  <2>4. 0 \in U
    BY <2>1, <2>2, <2>3
  <2>5. ASSUME NEW k \in Nat, k \in U PROVE k + 1 \in U
    <3> SUFFICES ASSUME k + 1 <= l - 1 PROVE t[k + 1] = s[k + 1]
      BY <2>3
    <3>1. k + 1 \in 1 .. l - 1 /\ k + 1 \in 1 .. l /\ (k + 1) - 1 = k
      OBVIOUS
    <3>2. t[k] = s[k]
      BY <2>3, <2>5, <3>1
    <3>q. QED BY <2>1, <2>2, <3>1, <3>2
  <2>6. Nat \subseteq U
    BY <2>4, <2>5, StepByStep
  <2>7. t[l - 1] = s[l - 1]
    <3>1. l - 1 \in Nat /\ l - 1 <= l - 1
      OBVIOUS
    <3>q. QED BY <2>3, <2>6, <3>1
  <2>8. t[l] = t[l - 1] + numbers[l] /\ t[l - 1] \in Nat
    <3>1. l \in 1 .. l
      OBVIOUS
    <3>q. QED BY <2>2, <3>1
  <2>q. QED BY <2>1, <2>2, <2>7, <2>8
<1>4. ASSUME NEW l \in 1 .. Len(numbers) + 1 PROVE Shorter(numbers, l) \in Nat
  <2>1. CASE l = 1
    BY <1>2, <2>1
  <2>2. CASE l # 1
    <3>1. l - 1 \in 1 .. Len(numbers) /\ (l - 1) + 1 = l
      BY <2>2
    <3>2. PICK f, n : f = Shorter(numbers, l - 1) /\ n = numbers[l - 1]
      OBVIOUS
    <3>3. Shorter(numbers, l) = f + n /\ f \in Nat
      BY <1>3, <3>1, <3>2
    <3>4. n \in Nat
      BY <3>1, <3>2
    <3>q. QED BY <3>3, <3>4
  <2>q. QED BY <2>1, <2>2
<1>q. QED BY <1>2, <1>3, <1>4

(* A longer table has the same first codes. *)
LEMMA LongerTables ==
    ASSUME NEW numbers \in Seq(Nat), NEW n \in Nat, NEW l \in 1 .. Len(numbers) + 1
    PROVE  /\ First(Append(numbers, n), l) = First(numbers, l)
           /\ Shorter(Append(numbers, n), l) = Shorter(numbers, l)
<1>1. PICK more : more = Append(numbers, n)
  OBVIOUS
<1>2. /\ more \in Seq(Nat) /\ Len(more) = Len(numbers) + 1
      /\ \A k \in 1 .. Len(numbers) : more[k] = numbers[k]
  BY <1>1
<1>3. PICK U : U = {k \in Nat : k <= Len(numbers) => /\ First(more, k + 1) = First(numbers, k + 1)
                                                     /\ Shorter(more, k + 1) = Shorter(numbers, k + 1)}
  OBVIOUS
<1>4. 0 \in U
  <2>1. First(more, 1) = 0 /\ Shorter(more, 1) = 0 /\ First(numbers, 1) = 0 /\ Shorter(numbers, 1) = 0
    BY <1>2, FirstIs, ShorterIs
  <2>2. 0 + 1 = 1
    OBVIOUS
  <2>q. QED BY <1>3, <2>1, <2>2
<1>5. ASSUME NEW k \in Nat, k \in U PROVE k + 1 \in U
  <2> SUFFICES ASSUME k + 1 <= Len(numbers)
               PROVE  /\ First(more, (k + 1) + 1) = First(numbers, (k + 1) + 1)
                      /\ Shorter(more, (k + 1) + 1) = Shorter(numbers, (k + 1) + 1)
    BY <1>3
  <2>1. PICK m : m = k + 1
    OBVIOUS
  <2>2. m \in 1 .. Len(numbers) /\ m \in 1 .. Len(more)
    BY <1>2, <2>1
  <2>3. First(more, m) = First(numbers, m) /\ Shorter(more, m) = Shorter(numbers, m)
    BY <1>3, <1>5, <2>1
  <2>4. /\ First(more, m + 1) = 2 * (First(more, m) + more[m])
        /\ First(numbers, m + 1) = 2 * (First(numbers, m) + numbers[m])
    BY <1>2, <2>2, FirstIs
  <2>5. /\ Shorter(more, m + 1) = Shorter(more, m) + more[m]
        /\ Shorter(numbers, m + 1) = Shorter(numbers, m) + numbers[m]
    BY <1>2, <2>2, ShorterIs
  <2>q. QED BY <1>2, <2>1, <2>2, <2>3, <2>4, <2>5
<1>6. Nat \subseteq U
  BY <1>4, <1>5, StepByStep
<1>7. PICK k : k = l - 1
  OBVIOUS
<1>8. k \in Nat /\ k <= Len(numbers) /\ k + 1 = l
  BY <1>7
<1>q. QED BY <1>1, <1>3, <1>6, <1>8

LEMMA Pow2Product ==
    ASSUME NEW m \in Nat, NEW d \in Nat
    PROVE  Pow2[m + d] = Pow2[m] * Pow2[d]
<1>1. PICK U : U = {k \in Nat : Pow2[m + k] = Pow2[m] * Pow2[k]}
  OBVIOUS
<1>2. PICK a : a = Pow2[m]
  OBVIOUS
<1>3. a \in Nat
  BY <1>2, Pow2Is
<1>4. 0 \in U
  <2>1. m + 0 = m /\ a * 1 = a
    BY <1>3
  <2>q. QED BY <1>1, <1>2, <2>1, Pow2Is
<1>5. ASSUME NEW k \in Nat, k \in U PROVE k + 1 \in U
  <2>1. PICK b, c : b = Pow2[k] /\ c = Pow2[m + k]
    OBVIOUS
  <2>2. b \in Nat /\ c = a * b
    BY <1>1, <1>2, <1>5, <2>1, Pow2Is
  <2>3. Pow2[k + 1] = 2 * b
    BY <2>1, Pow2Is
  <2>4. Pow2[m + (k + 1)] = 2 * c
    <3>1. m + k \in Nat /\ m + (k + 1) = (m + k) + 1
      OBVIOUS
    <3>q. QED BY <2>1, <3>1, Pow2Is
  <2>5. 2 * (a * b) = a * (2 * b)
    BY <1>3, <2>2
  <2>q. QED BY <1>1, <1>2, <2>2, <2>3, <2>4, <2>5
<1>6. Nat \subseteq U
  BY <1>4, <1>5, StepByStep
<1>q. QED BY <1>1, <1>6

(* What a length's codes begin, the codes of a greater length lie behind. *)
LEMMA LaterCodes ==
    ASSUME NEW numbers \in Seq(Nat), NEW m \in 1 .. Len(numbers),
           NEW d \in Nat, m + d <= Len(numbers)
    PROVE  First(numbers, m + (d + 1)) >= (First(numbers, m) + numbers[m]) * Pow2[d + 1]
<1>1. PICK e : e = First(numbers, m) + numbers[m]
  OBVIOUS
<1>2. e \in Nat
  <2>1. PICK f : f = First(numbers, m)
    OBVIOUS
  <2>2. m \in 1 .. Len(numbers) + 1
    OBVIOUS
  <2>3. f \in Nat /\ numbers[m] \in Nat
    BY <2>1, <2>2, FirstIs
  <2>q. QED BY <1>1, <2>1, <2>3
<1>3. PICK U : U = {k \in Nat : m + k <= Len(numbers) => First(numbers, m + (k + 1)) >= e * Pow2[k + 1]}
  OBVIOUS
<1>4. 0 \in U
  <2>1. 0 + 1 = 1 /\ m + (0 + 1) = m + 1
    OBVIOUS
  <2>2. Pow2[0 + 1] = 2
    BY Pow2Is
  <2>3. First(numbers, m + 1) = 2 * e
    BY <1>1, FirstIs
  <2>4. 2 * e >= e * 2
    BY <1>2
  <2>q. QED BY <1>3, <2>1, <2>2, <2>3, <2>4
<1>5. ASSUME NEW k \in Nat, k \in U PROVE k + 1 \in U
  <2> SUFFICES ASSUME m + (k + 1) <= Len(numbers)
               PROVE  First(numbers, m + ((k + 1) + 1)) >= e * Pow2[(k + 1) + 1]
    BY <1>3
  <2>1. PICK l, p, f, n : l = m + (k + 1) /\ p = Pow2[k + 1] /\ f = First(numbers, l) /\ n = numbers[l]
    OBVIOUS
  <2>2. l \in 1 .. Len(numbers) /\ l \in 1 .. Len(numbers) + 1 /\ k + 1 \in Nat /\ m + k <= Len(numbers)
    BY <2>1
  <2>3. f \in Nat /\ n \in Nat /\ p \in Nat
    <3>a. f \in Nat
      BY <2>1, <2>2, FirstIs
    <3>b. n \in Nat
      BY <2>1, <2>2
    <3>1. f \in Nat /\ n \in Nat
      BY <3>a, <3>b
    <3>2. p \in Nat
      BY <2>1, <2>2, Pow2Is
    <3>q. QED BY <3>1, <3>2
  <2>4. f >= e * p
    BY <1>3, <1>5, <2>1, <2>2
  <2>5. First(numbers, m + ((k + 1) + 1)) = 2 * (f + n)
    <3>1. m + ((k + 1) + 1) = l + 1
      BY <2>1
    <3>q. QED BY <2>1, <2>2, <3>1, FirstIs
  <2>6. Pow2[(k + 1) + 1] = 2 * p
    BY <2>1, <2>2, Pow2Is
  <2>7. e * (2 * p) = 2 * (e * p) /\ e * p \in Nat
    BY <1>2, <2>3
  <2>q. QED BY <2>3, <2>4, <2>5, <2>6, <2>7
<1>6. Nat \subseteq U
  BY <1>4, <1>5, StepByStep
<1>q. QED BY <1>1, <1>3, <1>6

LEMMA Divisions ==
    ASSUME NEW c \in Nat, NEW e \in Nat, NEW p \in Nat \ {0}
    PROVE  /\ c \div p \in Nat
           /\ c >= e * p => c \div p >= e
           /\ c < e * p => c \div p < e
OBVIOUS
-----------------------------------------------------------------------------
(* What the pass over the numbers of codes has made of those it has read. *)
TableKinds == /\ bits \in Seq(Nat) /\ Len(bits) <= Lengths
              /\ rows \in Seq([val : Nat, min : Nat, max : Nat]) /\ Len(rows) = Len(bits)
              /\ started \in BOOLEAN

RunningTotals == /\ code = First(bits, Len(bits) + 1) /\ (~started => code = 0)
                 /\ symbol_index = Shorter(bits, Len(bits) + 1) % Symbols
                 /\ Shorter(bits, Len(bits) + 1) <= Symbols
                 /\ First(bits, Len(bits) + 1) < Pow2[Len(bits) + 1]

RowOf(numbers, l) ==
    IF numbers[l] = 0 THEN [val |-> NoSymbol, min |-> Marker, max |-> Marker]
    ELSE [val |-> Shorter(numbers, l), min |-> First(numbers, l),
          max |-> First(numbers, l) + numbers[l] - 1]

RowsAsRead == \A l \in 1 .. Len(bits) : /\ First(bits, l) + bits[l] < Pow2[l]
                                        /\ rows[l] = RowOf(bits, l)

TablesInv == TableKinds /\ RunningTotals /\ RowsAsRead

LEMMA MarksAreNumbers == Lengths \in Nat \ {0} /\ Symbols \in Nat \ {0} /\ Marker \in Nat /\ NoSymbol \in Nat
<1>1. PICK p : p = Pow2[Lengths]
  OBVIOUS
<1>2. Lengths \in Nat \ {0} /\ Symbols \in Nat \ {0}
  BY HuffmanAssumption
<1>3. p \in Nat \ {0}
  BY <1>1, <1>2, Pow2Is
<1>q. QED BY <1>1, <1>2, <1>3 DEF Marker, NoSymbol

LEMMA TablesInitially == TablesInit => TablesInv
<1> SUFFICES ASSUME TablesInit PROVE TablesInv
  OBVIOUS
<1>1. bits \in Seq(Nat) /\ Len(bits) = 0 /\ rows = << >> /\ started = FALSE /\ code = 0 /\ symbol_index = 0
  BY DEF TablesInit
<1>2. First(bits, 1) = 0 /\ Shorter(bits, 1) = 0
  BY <1>1, FirstIs, ShorterIs
<1>3. TableKinds
  <2>1. 0 <= Lengths
    BY HuffmanAssumption
  <2>2. rows \in Seq([val : Nat, min : Nat, max : Nat]) /\ Len(rows) = 0
    BY <1>1
  <2>q. QED BY <1>1, <2>1, <2>2 DEF TableKinds
<1>4. RunningTotals
  <2>1. Len(bits) + 1 = 1
    BY <1>1
  <2>2. 0 % Symbols = 0 /\ 0 <= Symbols
    BY HuffmanAssumption
  <2>3. Pow2[1] = 2
    BY Pow2Is
  <2>q. QED BY <1>1, <1>2, <2>1, <2>2, <2>3 DEF RunningTotals
<1>5. RowsAsRead
  BY <1>1 DEF RowsAsRead
<1>q. QED BY <1>3, <1>4, <1>5 DEF TablesInv

(* A new row leaves those before it as they were. *)
LEMMA RowsAfter ==
    ASSUME TablesInv, NEW n \in Nat, bits' = Append(bits, n), NEW row, rows' = Append(rows, row),
           First(bits, Len(bits) + 1) + n < Pow2[Len(bits) + 1],
           row = RowOf(bits', Len(bits) + 1)
    PROVE  RowsAsRead'
<1>1. bits \in Seq(Nat) /\ Len(rows) = Len(bits) /\ rows \in Seq([val : Nat, min : Nat, max : Nat])
  BY DEF TablesInv, TableKinds
<1>2. Len(bits') = Len(bits) + 1
  BY <1>1
<1>3. ASSUME NEW l \in 1 .. Len(bits')
      PROVE  First(bits', l) + bits'[l] < Pow2[l] /\ rows'[l] = RowOf(bits', l)
  <2>1. l \in 1 .. Len(bits) + 1
    BY <1>2
  <2>2. First(bits', l) = First(bits, l) /\ Shorter(bits', l) = Shorter(bits, l)
    BY <1>1, <2>1, LongerTables
  <2>3. CASE l = Len(bits) + 1
    <3>1. bits'[l] = n /\ rows'[l] = row
      BY <1>1, <2>3
    <3>q. QED BY <2>2, <2>3, <3>1
  <2>4. CASE l # Len(bits) + 1
    <3>1. l \in 1 .. Len(bits)
      BY <1>1, <2>1, <2>4
    <3>2. bits'[l] = bits[l] /\ rows'[l] = rows[l]
      BY <1>1, <3>1
    <3>3. First(bits, l) + bits[l] < Pow2[l] /\ rows[l] = RowOf(bits, l)
      BY <3>1 DEF TablesInv, RowsAsRead
    <3>q. QED BY <2>2, <3>2, <3>3 DEF RowOf
  <2>q. QED BY <2>3, <2>4
<1>q. QED BY <1>3 DEF RowsAsRead

(* The first code and the symbols after one more number. *)
LEMMA TotalsAfter ==
    ASSUME NEW numbers \in Seq(Nat), NEW n \in Nat
    PROVE  LET l == Len(numbers) + 1 IN
           /\ First(Append(numbers, n), l + 1) = 2 * (First(numbers, l) + n)
           /\ Shorter(Append(numbers, n), l + 1) = Shorter(numbers, l) + n
<1>1. PICK more, l : more = Append(numbers, n) /\ l = Len(numbers) + 1
  OBVIOUS
<1>2. more \in Seq(Nat) /\ Len(more) = l /\ l \in 1 .. Len(more) /\ more[l] = n /\ l \in 1 .. Len(numbers) + 1
  BY <1>1
<1>3. First(more, l + 1) = 2 * (First(more, l) + more[l])
  BY <1>2, FirstIs
<1>4. Shorter(more, l + 1) = Shorter(more, l) + more[l]
  BY <1>2, ShorterIs
<1>5. First(more, l) = First(numbers, l) /\ Shorter(more, l) = Shorter(numbers, l)
  BY <1>1, <1>2, LongerTables
<1>q. QED BY <1>1, <1>2, <1>3, <1>4, <1>5

LEMMA TablesKeep == TablesInv /\ [TablesNext]_tableVars => TablesInv'
<1> SUFFICES ASSUME TablesInv, [TablesNext]_tableVars PROVE TablesInv'
  OBVIOUS
<1>1. CASE UNCHANGED tableVars
  BY <1>1 DEF tableVars, TablesInv, TableKinds, RunningTotals, RowsAsRead
<1>2. ASSUME TablesNext PROVE TablesInv'
  <2>1. PICK n \in 0 .. Symbols - 1 : /\ RoomFor(n, Len(bits) + 1)
                                      /\ bits' = Append(bits, n)
                                      /\ IF n = 0 THEN Empty ELSE Filled(n)
    BY <1>2 DEF TablesNext
  <2>2. PICK l, f, s, p : /\ l = Len(bits) + 1 /\ f = First(bits, l) /\ s = Shorter(bits, l)
                          /\ p = Pow2[l]
    OBVIOUS
  <2>3. /\ bits \in Seq(Nat) /\ Len(bits) <= Lengths /\ Len(rows) = Len(bits)
        /\ rows \in Seq([val : Nat, min : Nat, max : Nat]) /\ started \in BOOLEAN
    BY DEF TablesInv, TableKinds
  <2>4. l \in 1 .. Len(bits) + 1 /\ l \in Nat /\ n \in Nat /\ l <= Lengths
    <3>1. Len(bits) < Lengths
      BY <1>2 DEF TablesNext
    <3>q. QED BY <2>2, <2>3, <3>1, MarksAreNumbers
  <2>5. f \in Nat /\ s \in Nat /\ p \in Nat
    BY <2>2, <2>3, <2>4, FirstIs, ShorterIs, Pow2Is
  <2>6. /\ code = f /\ (~started => f = 0) /\ symbol_index = s % Symbols /\ s <= Symbols
    BY <2>2 DEF TablesInv, RunningTotals
  <2>7. f + n < p /\ s + n <= Symbols
    BY <2>1, <2>2 DEF RoomFor
  <2>8. bits' \in Seq(Nat) /\ Len(bits') = l
    BY <2>1, <2>2, <2>3, <2>4
  <2>9. First(bits', l + 1) = 2 * (f + n) /\ Shorter(bits', l + 1) = s + n
    BY <2>1, <2>2, <2>3, <2>4, TotalsAfter
  <2>10. Pow2[l + 1] = 2 * p
    BY <2>2, <2>4, Pow2Is
  <2>11. First(bits', l) = f /\ Shorter(bits', l) = s /\ bits'[l] = n
    <3>1. bits'[l] = n
      BY <2>1, <2>2, <2>3
    <3>q. QED BY <2>1, <2>2, <2>3, <2>4, <3>1, LongerTables
  <2>12. CASE n = 0
    <3>1. PICK row : row = [val |-> NoSymbol, min |-> Marker, max |-> Marker]
      OBVIOUS
    <3>2. /\ rows' = Append(rows, row) /\ code' = (IF started THEN 2 * code ELSE code)
          /\ started' = started /\ symbol_index' = symbol_index
      BY <2>1, <2>12, <3>1 DEF Empty, Row
    <3>3. row \in [val : Nat, min : Nat, max : Nat] /\ row = RowOf(bits', l)
      BY <2>11, <2>12, <3>1, MarksAreNumbers DEF RowOf
    <3>4. code' = 2 * f
      BY <2>5, <2>6, <3>2
    <3>5. TableKinds'
      <4>1. rows' \in Seq([val : Nat, min : Nat, max : Nat]) /\ Len(rows') = Len(rows) + 1
        BY <2>3, <3>2, <3>3
      <4>2. started' \in BOOLEAN
        BY <2>3, <3>2
      <4>q. QED BY <2>2, <2>3, <2>4, <2>8, <4>1, <4>2 DEF TableKinds
    <3>6. RunningTotals'
      BY <2>5, <2>6, <2>7, <2>8, <2>9, <2>10, <2>12, <3>2, <3>4 DEF RunningTotals
    <3>7. RowsAsRead'
      BY <2>1, <2>2, <2>4, <2>7, <3>2, <3>3, RowsAfter
    <3>q. QED BY <3>5, <3>6, <3>7 DEF TablesInv
  <2>13. CASE n # 0
    <3>1. PICK row : row = [val |-> symbol_index, min |-> code, max |-> code - 1 + n]
      OBVIOUS
    <3>2. /\ rows' = Append(rows, row) /\ code' = 2 * (code - 1 + n) + 2
          /\ started' = TRUE /\ symbol_index' = (symbol_index + n) % Symbols
      BY <2>1, <2>13, <3>1 DEF Filled, Row
    <3>3. symbol_index = s /\ symbol_index' = (s + n) % Symbols
      <4>1. s \in 0 .. Symbols - 1
        BY <2>4, <2>5, <2>7, <2>13, MarksAreNumbers
      <4>2. s % Symbols = s
        BY <4>1, MarksAreNumbers
      <4>q. QED BY <2>6, <3>2, <4>2
    <3>4. row \in [val : Nat, min : Nat, max : Nat] /\ row = RowOf(bits', l)
      <4>1. f - 1 + n \in Nat /\ f - 1 + n = f + n - 1
        BY <2>4, <2>5, <2>13
      <4>2. row = [val |-> s, min |-> f, max |-> f + n - 1]
        BY <2>6, <3>1, <3>3, <4>1
      <4>q. QED BY <2>5, <2>11, <2>13, <4>1, <4>2 DEF RowOf
    <3>5. code' = 2 * (f + n)
      BY <2>4, <2>5, <2>6, <3>2
    <3>6. TableKinds'
      <4>1. rows' \in Seq([val : Nat, min : Nat, max : Nat]) /\ Len(rows') = Len(rows) + 1
        BY <2>3, <3>2, <3>4
      <4>2. started' \in BOOLEAN
        BY <2>3, <3>2
      <4>q. QED BY <2>2, <2>3, <2>4, <2>8, <4>1, <4>2 DEF TableKinds
    <3>7. RunningTotals'
      <4>1. PICK c, m : c = 2 * (f + n) /\ m = s + n
        OBVIOUS
      <4>2. c < 2 * p /\ m <= Symbols
        BY <2>4, <2>5, <2>7, <4>1
      <4>3. First(bits', l + 1) = c /\ code' = c /\ Shorter(bits', l + 1) = m /\ symbol_index' = m % Symbols
        BY <2>9, <3>3, <3>5, <4>1
      <4>q. QED BY <2>8, <2>10, <3>2, <4>2, <4>3 DEF RunningTotals
    <3>8. RowsAsRead'
      BY <2>1, <2>2, <2>4, <2>7, <3>2, <3>4, RowsAfter
    <3>q. QED BY <3>6, <3>7, <3>8 DEF TablesInv
  <2>q. QED BY <2>12, <2>13
<1>q. QED BY <1>1, <1>2

LEMMA TablesRightAlways == TablesSpec => []TablesInv
<1>1. TablesInit => TablesInv
  BY TablesInitially
<1>2. TablesInv /\ [TablesNext]_tableVars => TablesInv'
  BY TablesKeep
<1>q. QED BY <1>1, <1>2, PTL DEF TablesSpec

(* Powers of two grow. *)
LEMMA Pow2Grows ==
    ASSUME NEW m \in Nat, NEW l \in Nat, m < l
    PROVE  2 * Pow2[m] <= Pow2[l] /\ Pow2[l] = Pow2[m] * Pow2[l - m] /\ Pow2[l - m] >= 2
<1>1. PICK d, e, p, q, r : /\ d = l - m /\ e = d - 1 /\ p = Pow2[m] /\ q = Pow2[e] /\ r = Pow2[d]
  OBVIOUS
<1>2. d \in Nat /\ e \in Nat /\ d = e + 1 /\ l = m + d
  BY <1>1
<1>3. p \in Nat \ {0} /\ q \in Nat \ {0} /\ r = 2 * q
  <2>1. p \in Nat \ {0} /\ q \in Nat \ {0}
    BY <1>1, <1>2, Pow2Is
  <2>2. Pow2[e + 1] = 2 * q
    BY <1>1, <1>2, Pow2Is
  <2>q. QED BY <1>1, <1>2, <2>1, <2>2
<1>4. Pow2[l] = p * r
  BY <1>1, <1>2, Pow2Product
<1>5. p * r >= p * 2
  <2>1. r \in Nat /\ r >= 2
    BY <1>3
  <2>q. QED BY <1>3, <2>1
<1>6. p * 2 = 2 * p
  BY <1>3
<1>q. QED BY <1>1, <1>3, <1>4, <1>5, <1>6

(* What the row of a length says of a number. *)
LEMMA RowMatches ==
    ASSUME TablesInv, NEW l \in 1 .. Len(bits), NEW c \in Nat, c # Marker
    PROVE  Matches(l, c) <=> First(bits, l) <= c /\ c < First(bits, l) + bits[l]
<1>1. PICK f, n, s : f = First(bits, l) /\ n = bits[l] /\ s = Shorter(bits, l)
  OBVIOUS
<1>2. bits \in Seq(Nat)
  BY DEF TablesInv, TableKinds
<1>3. f \in Nat /\ n \in Nat
  <2>1. l \in 1 .. Len(bits) + 1
    OBVIOUS
  <2>2. f \in Nat
    BY <1>1, <1>2, <2>1, FirstIs
  <2>3. n \in Nat
    BY <1>1, <1>2
  <2>q. QED BY <2>2, <2>3
<1>4. rows[l] = RowOf(bits, l)
  BY DEF TablesInv, RowsAsRead
<1>5. CASE n = 0
  <2>1. rows[l].min = Marker /\ rows[l].max = Marker
    BY <1>1, <1>4, <1>5 DEF RowOf
  <2>2. ~(Marker <= c /\ c <= Marker)
    BY MarksAreNumbers
  <2>3. ~(f <= c /\ c < f + n)
    BY <1>3, <1>5
  <2>q. QED BY <1>1, <2>1, <2>2, <2>3 DEF Matches
<1>6. CASE n # 0
  <2>1. rows[l].min = f /\ rows[l].max = f + n - 1
    BY <1>1, <1>4, <1>6 DEF RowOf
  <2>2. c <= f + n - 1 <=> c < f + n
    BY <1>3
  <2>q. QED BY <1>1, <2>1, <2>2 DEF Matches
<1>q. QED BY <1>5, <1>6

(* The beginning of a code, at a shorter length, is none of that length's codes. *)
LEMMA BeginningsMatchNothing ==
    ASSUME TablesInv, NEW l \in 1 .. Len(bits), NEW i \in 0 .. bits[l] - 1, NEW m \in 1 .. l - 1
    PROVE  ~Matches(m, Prefix(First(bits, l) + i, l, m))
<1>1. PICK f, g, n, p, q, c : /\ f = First(bits, l) /\ g = First(bits, m) /\ n = bits[m]
                              /\ p = Pow2[l - m] /\ q = Pow2[m] /\ c = f + i
  OBVIOUS
<1>2. bits \in Seq(Nat) /\ Len(bits) <= Lengths /\ m \in 1 .. Len(bits) /\ m \in Nat /\ l \in Nat /\ l - m \in Nat
  BY DEF TablesInv, TableKinds
<1>3. f \in Nat /\ g \in Nat /\ n \in Nat /\ i \in Nat /\ c \in Nat
  <2>1. l \in 1 .. Len(bits) + 1 /\ m \in 1 .. Len(bits) + 1
    BY <1>2
  <2>2. f \in Nat /\ g \in Nat
    BY <1>1, <1>2, <2>1, FirstIs
  <2>3. n \in Nat /\ bits[l] \in Nat
    BY <1>1, <1>2
  <2>q. QED BY <1>1, <2>2, <2>3
<1>4. p \in Nat \ {0} /\ q \in Nat \ {0}
  BY <1>1, <1>2, Pow2Is
<1>5. f >= (g + n) * p
  <2>1. PICK d : d = l - m - 1
    OBVIOUS
  <2>2. d \in Nat /\ m + d <= Len(bits) /\ m + (d + 1) = l /\ d + 1 = l - m
    BY <1>2, <2>1
  <2>3. First(bits, m + (d + 1)) >= (First(bits, m) + bits[m]) * Pow2[d + 1]
    BY <1>2, <2>2, LaterCodes
  <2>q. QED BY <1>1, <2>2, <2>3
<1>6. PICK b : b = c \div p
  OBVIOUS
<1>7. b \in Nat /\ b >= g + n
  <2>1. c >= (g + n) * p
    <3>1. PICK x : x = (g + n) * p
      OBVIOUS
    <3>2. x \in Nat
      BY <1>3, <1>4, <3>1
    <3>q. QED BY <1>1, <1>3, <1>5, <3>1, <3>2
  <2>2. g + n \in Nat
    BY <1>3
  <2>q. QED BY <1>3, <1>4, <1>6, <2>1, <2>2, Divisions
<1>8. b < q
  <2>1. Pow2[l] = q * p
    BY <1>1, <1>2, Pow2Grows
  <2>2. c < Pow2[l]
    <3>1. f + bits[l] < Pow2[l]
      BY <1>1 DEF TablesInv, RowsAsRead
    <3>2. bits[l] \in Nat /\ Pow2[l] \in Nat
      <4>1. bits[l] \in Nat
        BY <1>2
      <4>2. Pow2[l] \in Nat
        BY <1>2, Pow2Is
      <4>q. QED BY <4>1, <4>2
    <3>q. QED BY <1>1, <1>3, <3>1, <3>2
  <2>q. QED BY <1>3, <1>4, <1>6, <2>1, <2>2, Divisions
<1>9. b # Marker
  <2>1. m < Lengths /\ Lengths \in Nat
    BY <1>2, MarksAreNumbers
  <2>2. PICK r : r = Pow2[Lengths]
    OBVIOUS
  <2>3. 2 * q <= r
    BY <1>1, <1>2, <2>1, <2>2, Pow2Grows
  <2>4. Marker = r - 1 /\ r \in Nat
    BY <2>1, <2>2, Pow2Is DEF Marker
  <2>q. QED BY <1>4, <1>7, <1>8, <2>3, <2>4
<1>10. Matches(m, b) => b < g + n
  BY <1>1, <1>2, <1>7, <1>9, RowMatches
<1>11. ~(b < g + n)
  BY <1>3, <1>7
<1>q. QED BY <1>1, <1>6, <1>10, <1>11 DEF Prefix

(* A code is read at its own length, as its own symbol. *)
LEMMA CodeIsRead ==
    ASSUME TablesInv, NEW l \in 1 .. Len(bits), NEW i \in 0 .. bits[l] - 1
    PROVE  DecodedAs(First(bits, l) + i, l, Shorter(bits, l) + i)
<1>1. PICK f, n, s, c : f = First(bits, l) /\ n = bits[l] /\ s = Shorter(bits, l) /\ c = f + i
  OBVIOUS
<1>2. bits \in Seq(Nat) /\ Len(bits) <= Lengths
  BY DEF TablesInv, TableKinds
<1>3. f \in Nat /\ n \in Nat \ {0} /\ i \in Nat /\ c \in Nat /\ i < n /\ s \in Nat
  <2>1. l \in 1 .. Len(bits) + 1
    OBVIOUS
  <2>2. f \in Nat /\ s \in Nat
    BY <1>1, <1>2, <2>1, FirstIs, ShorterIs
  <2>3. n \in Nat
    BY <1>1, <1>2
  <2>q. QED BY <1>1, <2>2, <2>3
<1>4. Prefix(c, l, l) = c
  <2>1. l - l = 0 /\ c \div 1 = c
    BY <1>3
  <2>q. QED BY <2>1, Pow2Is DEF Prefix
<1>5. c # Marker
  <2>1. PICK p, r : p = Pow2[l] /\ r = Pow2[Lengths]
    OBVIOUS
  <2>2. f + n < p
    BY <1>1, <2>1 DEF TablesInv, RowsAsRead
  <2>3. l \in Nat /\ Lengths \in Nat /\ l <= Lengths
    BY <1>2, MarksAreNumbers
  <2>4. p \in Nat /\ r \in Nat /\ Marker = r - 1
    BY <2>1, <2>3, Pow2Is DEF Marker
  <2>5. p <= r
    <3>1. CASE l = Lengths
      BY <2>1, <2>4, <3>1
    <3>2. CASE l < Lengths
      <4>1. 2 * p <= r
        BY <2>1, <2>3, <3>2, Pow2Grows
      <4>q. QED BY <2>4, <4>1
    <3>q. QED BY <2>3, <3>1, <3>2
  <2>q. QED BY <1>1, <1>3, <2>2, <2>4, <2>5
<1>6. Matches(l, c)
  <2>1. f <= c /\ c < f + n
    BY <1>1, <1>3
  <2>q. QED BY <1>1, <1>3, <1>5, <2>1, RowMatches
<1>7. \A k \in 1 .. l - 1 : ~Matches(k, Prefix(c, l, k))
  BY <1>1, BeginningsMatchNothing
<1>8. s + i = rows[l].val + c - rows[l].min
  <2>1. rows[l] = RowOf(bits, l)
    BY DEF TablesInv, RowsAsRead
  <2>2. rows[l].val = s /\ rows[l].min = f
    BY <1>1, <1>3, <2>1 DEF RowOf
  <2>q. QED BY <1>1, <1>3, <2>2
<1>9. l \in 1 .. l
  OBVIOUS
<1>q. QED BY <1>1, <1>4, <1>6, <1>7, <1>8, <1>9 DEF DecodedAs

LEMMA TablesSuffice == TablesInv => DecodesEveryCode
<1> SUFFICES ASSUME TablesInv PROVE DecodesEveryCode
  OBVIOUS
<1>1. bits \in Seq(Nat) /\ Len(bits) <= Lengths /\ Len(rows) = Len(bits)
  BY DEF TablesInv, TableKinds
<1>2. TablesTypeOK
  <2>1. ASSUME NEW l \in 1 .. Len(rows)
        PROVE  \/ rows[l] = [val |-> NoSymbol, min |-> Marker, max |-> Marker]
               \/ rows[l].min <= rows[l].max /\ rows[l].max < Pow2[l] - 1
    <3>1. PICK f, n, p : f = First(bits, l) /\ n = bits[l] /\ p = Pow2[l]
      OBVIOUS
    <3>2. f + n < p /\ rows[l] = RowOf(bits, l)
      BY <1>1, <3>1 DEF TablesInv, RowsAsRead
    <3>3. f \in Nat
      <4>1. l \in 1 .. Len(bits) + 1
        BY <1>1
      <4>q. QED BY <1>1, <3>1, <4>1, FirstIs
    <3>4. n \in Nat
      BY <1>1, <3>1
    <3>5. p \in Nat
      <4>1. l \in Nat
        BY <1>1
      <4>q. QED BY <3>1, <4>1, Pow2Is
    <3>6. CASE n = 0
      BY <3>1, <3>2, <3>6 DEF RowOf
    <3>7. CASE n # 0
      <4>1. rows[l].min = f /\ rows[l].max = f + n - 1
        BY <3>1, <3>2, <3>7 DEF RowOf
      <4>2. f <= f + n - 1 /\ f + n - 1 < p - 1
        BY <3>2, <3>3, <3>4, <3>5, <3>7
      <4>q. QED BY <3>1, <4>1, <4>2
    <3>q. QED BY <3>6, <3>7
  <2>2. code \in 0 .. Pow2[Len(bits) + 1] - 1
    <3>1. PICK l, p : l = Len(bits) + 1 /\ p = Pow2[l]
      OBVIOUS
    <3>2. l \in 1 .. Len(bits) + 1 /\ l \in Nat
      BY <1>1, <3>1
    <3>3. code = First(bits, l) /\ code < p
      BY <3>1 DEF TablesInv, RunningTotals
    <3>4. code \in Nat /\ p \in Nat
      BY <1>1, <3>1, <3>2, <3>3, FirstIs, Pow2Is
    <3>q. QED BY <3>1, <3>3, <3>4
  <2>q. QED BY <1>1, <2>1, <2>2 DEF TablesTypeOK
<1>3. RowsMatchTheirCodes
  <2>1. ASSUME NEW l \in 1 .. Len(rows), NEW c \in (0 .. Pow2[l] - 1) \ {Marker}
        PROVE  Matches(l, c) <=> c \in First(bits, l) .. First(bits, l) + bits[l] - 1
    <3>1. PICK f, n : f = First(bits, l) /\ n = bits[l]
      OBVIOUS
    <3>2. l \in 1 .. Len(bits) /\ c \in Nat /\ c # Marker
      BY <1>1
    <3>3. f \in Nat
      <4>1. l \in 1 .. Len(bits) + 1
        BY <1>1
      <4>q. QED BY <1>1, <3>1, <4>1, FirstIs
    <3>4. n \in Nat
      BY <1>1, <3>1, <3>2
    <3>5. Matches(l, c) <=> f <= c /\ c < f + n
      BY <3>1, <3>2, RowMatches
    <3>6. f <= c /\ c < f + n <=> c \in f .. f + n - 1
      BY <3>2, <3>3, <3>4
    <3>q. QED BY <3>1, <3>5, <3>6
  <2>q. QED BY <2>1 DEF RowsMatchTheirCodes
<1>4. CodesAreDecoded
  BY <1>1, CodeIsRead DEF CodesAreDecoded
<1>q. QED BY <1>2, <1>3, <1>4 DEF DecodesEveryCode

(* Whatever numbers of codes a jpeg has, every row is matched by the codes of its
   length alone, and the adapter reads each code as the symbol it stands for
   (cnm.c, build_derived_huffman). *)
THEOREM TablesDecode == TablesSpec => []DecodesEveryCode
BY TablesRightAlways, TablesSuffice, PTL
=============================================================================
