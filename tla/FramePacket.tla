---------------------------- MODULE FramePacket -----------------------------
(* A video packet, built in place in a slot that is used again and again
   (frame_packet.c): header, jpeg, padding to whole blocks, the decoder's
   tables.  Full bands, companions and black bands of any size follow one another
   in a slot, and each of the calls that make a packet can fail.

   One byte of the slot is watched, at any place: who wrote it last tells whether
   a packet is all its own. *)
EXTENDS Integers

CONSTANTS
    JpegCap,        \* smid_encoder_jpeg_capacity
    Sizes,          \* how long a jpeg comes out, or would
    Places          \* where the byte is that is watched

HEADER == 48        \* SMID_FRAME_HEADER_SIZE
BLOCK  == 512
CNM    == 20480     \* SMID_CNM_SIZE

ASSUME FramePacketAssumption ==
    JpegCap \in Nat \ {0} /\ Sizes \subseteq Nat /\ Places \subseteq Nat

VARIABLES
    wire_len,       \* the slot's
    sendable,       \* the last build has succeeded: main submits the packet
    at,             \* the byte watched
    by,             \* who wrote it: nobody, a build before, or the last one
    refused         \* history: a packet was too large for its slot

packetVars == <<wire_len, sendable, at, by, refused>>

(* align_up_u32(v, 512) *)
AlignUp(v) == (v + BLOCK - 1) - ((v + BLOCK - 1) % BLOCK)

(* smid_frame_slot_capacity *)
Capacity == HEADER + AlignUp(JpegCap) + CNM + 1

Parts(len) == HEADER + AlignUp(len) + CNM

(* Mutant: the header is counted into the blocks, nothing is added. *)
WireLenOfBlocks(len) == AlignUp(HEADER + len) + CNM

(* A transfer that ends on a block has no end the adapter could see.  With this
   header and these tables none does, and the byte is never added. *)
WireLen(len) == IF Parts(len) % BLOCK = 0 THEN Parts(len) + 1 ELSE Parts(len)

PacketInit == /\ wire_len = 0 /\ sendable = FALSE
              /\ at \in Places /\ by = "nobody" /\ refused = FALSE

(* What a build has written, and what it has left as it was. *)
Writes(written) == by' = IF at \in written THEN "now"
                         ELSE IF by = "nobody" THEN by ELSE "before"

JpegBytes(len) == HEADER .. HEADER + len - 1

(* Mutant: the padding keeps what was there. *)
PacketBytesUnpadded(len) == (0 .. HEADER + len - 1)
                              \cup (HEADER + AlignUp(len) .. Parts(len) - 1)

(* Header, jpeg, padding and tables. *)
PacketBytes(len) == (0 .. HEADER - 1) \cup JpegBytes(len)
                      \cup (HEADER + len .. HEADER + AlignUp(len) - 1)
                      \cup (HEADER + AlignUp(len) .. Parts(len) - 1)

Failed == sendable' = FALSE /\ UNCHANGED <<wire_len, at>>

Encodes(len) == len <= JpegCap

(* The encoder fails, perhaps with a part of its data copied. *)
EncodeFails(len) == /\ Encodes(len) /\ Failed /\ Writes(JpegBytes(len))
                    /\ UNCHANGED refused

(* An empty jpeg, and one that does not fit into its slot. *)
Refuses(len) == len = 0 \/ WireLen(len) > Capacity

BuildRefused(len) == /\ Encodes(len) /\ Refuses(len)
                     /\ Failed /\ Writes(JpegBytes(len))
                     /\ refused' = (refused \/ len # 0)

(* The tables cannot be made of the jpeg: the packet is complete but for them,
   and the slot keeps the length of the one before. *)
TablesFail(len) == /\ Encodes(len) /\ ~Refuses(len)
                   /\ Failed /\ Writes(PacketBytes(len))
                   /\ UNCHANGED refused

(* smid_build_frame_packet_rect_base *)
Build(len) == /\ Encodes(len) /\ ~Refuses(len)
              /\ wire_len' = WireLen(len) /\ sendable' = TRUE
              /\ Writes(PacketBytes(len))
              /\ UNCHANGED <<at, refused>>

PacketNext == \E len \in Sizes :
            EncodeFails(len) \/ BuildRefused(len) \/ TablesFail(len) \/ Build(len)

PacketSpec == PacketInit /\ [][PacketNext]_packetVars

-----------------------------------------------------------------------------
(* In particular the transport never reads past the slot. *)
PacketTypeOK == /\ wire_len \in 0 .. Capacity /\ sendable \in BOOLEAN
                /\ at \in Places /\ by \in {"nobody", "before", "now"}
                /\ refused \in BOOLEAN

(* Nothing of a packet before is in the packet sent, however long that was and
   wherever its build broke off (frame_packet.c:93-118). *)
PacketIsItsOwn == sendable /\ at < wire_len => by = "now"

(* Nothing is ever written past the slot. *)
InsideSlot == at >= Capacity => by = "nobody"

(* The slot is large enough for whatever the encoder may produce: a jpeg of up to
   its capacity is in the slot before its length is known, and it must not be
   refused once it is rounded up and has its tables (frame_packet.c:18-20, 102). *)
AlwaysFits == ~refused

(* No packet ends on a block, with or without the byte for it
   (frame_packet.c:98-100). *)
EndsShort == sendable => wire_len % BLOCK # 0

(* The length of a packet is right at every boundary: for the slot, for the
   encoder and for the adapter. *)
LengthsFit == PacketTypeOK /\ InsideSlot /\ AlwaysFits /\ EndsShort
=============================================================================
