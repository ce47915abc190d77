---------------------------- MODULE TileEncoder -----------------------------
(* What a video tile owns and how it encodes (encoder.c; main.c:420-468): the
   encoder for full bands, through VA-API with the CPU to fall back on, the CPU
   encoder for companions, two packet slots and their result cells.  Every call
   that creates something can fail, and what was there before must then go, in
   an order the driver accepts.

   The main thread sets up and takes down; while the tile is ready its build
   worker encodes, under the framebuffer's read lock.  The EVDI thread replaces
   the framebuffer under the write lock, so an encoding is one step here. *)
EXTENDS Integers, FiniteSets, SequencesExt

CONSTANTS
    Qualities,      \* what the quality controller may ask for
    Addresses,      \* where a framebuffer may lie
    Modes,          \* what a mode makes of it
    None,           \* VA_INVALID_ID, a null pointer, or no quality
    MaxModes        \* bound on the mode changes

VARIABLES
    pc,         \* what happens to the tile
    stage,      \* direct_vaapi_init: the next call
    todo, after,    \* a destruction under way, and where it leads
    backend,
    held,       \* the handles: what the tile's fields name
    live,       \* what exists in the driver, in libjpeg and on the heap
    current_quality, userptr_failed,
    fb,         \* the stream's framebuffer
    last,       \* history: the last encoding that succeeded
    recycled    \* history: a framebuffer came to lie exactly where the surface
                \* of an earlier one does

setup  == <<pc, stage, todo, after, backend>>
owned  == <<held, live>>
inside == <<current_quality, userptr_failed>>
encoderVars == <<setup, owned, inside, fb, last, recycled>>

(* direct_vaapi_init, in its order.  Two of the calls create nothing. *)
VaCalls == <<"drm_fd", "dpy", "initialize", "vpp_config", "vpp_context", "attributes",
             "jpeg_config", "bgrx_surface", "nv12_surface", "vpp_param_buf",
             "jpeg_context", "bgrx_image", "image_data", "coded_buf", "qmatrix_buf",
             "huffman_buf", "slice_param_buf">>
CreateNothing == {"initialize", "attributes"}

(* The three buffers that carry the quality. *)
QualityBufs == <<"pic_param_buf", "packed_header_param_buf", "packed_header_data_buf">>

(* Mutant: the surfaces go before the context that renders to one of them. *)
VaDestroyTooEarly ==
    <<"image_data", "bgrx_image", "vpp_param_buf", "pic_param_buf", "qmatrix_buf",
      "huffman_buf", "packed_header_param_buf", "packed_header_data_buf",
      "slice_param_buf", "coded_buf", "userptr", "nv12_surface", "bgrx_surface",
      "jpeg_context", "vpp_context", "jpeg_config", "vpp_config", "dpy", "drm_fd">>

(* direct_vaapi_destroy *)
VaDestroy ==
    <<"image_data", "bgrx_image", "vpp_param_buf", "pic_param_buf", "qmatrix_buf",
      "huffman_buf", "packed_header_param_buf", "packed_header_data_buf",
      "slice_param_buf", "coded_buf", "jpeg_context", "vpp_context", "userptr",
      "nv12_surface", "bgrx_surface", "jpeg_config", "vpp_config", "dpy", "drm_fd">>

EncoderDestroy == <<"tj", "direct">> \o VaDestroy
TileDestroy == <<"result0", "slot0", "result1", "slot1", "companion">> \o EncoderDestroy

Fields == Range(TileDestroy)

(* An object: which field it was made for, a free number for it, and what it was
   made with. *)
Framebuffers == [at : Addresses, size : Modes, made : Nat \ {0}]
Objects == [for : Fields, id : Nat, made : Qualities \cup Framebuffers \cup {None}]

ASSUME EncoderAssumption ==
    MaxModes \in Nat /\ None \notin Objects \cup Qualities \cup Framebuffers

NumberFor(f, existing) ==
    CHOOSE n \in 0 .. Cardinality(existing) : \A o \in existing : o.for = f => o.id # n
New(f, made, existing) == [for |-> f, id |-> NumberFor(f, existing), made |-> made]

Valid(f) == held[f] # None

Nothing == [quality |-> None, header |-> None, asked |-> None,
            from |-> None, shown |-> None, missing |-> {}]

EncoderInit ==
    /\ pc = "start" /\ stage = 1 /\ todo = << >> /\ after = "start"
    /\ backend = None
    /\ held = [f \in Fields |-> None] /\ live = {}
    /\ current_quality = None /\ userptr_failed = FALSE
    /\ fb \in [at : Addresses, size : Modes, made : {1}]
    /\ last = Nothing /\ recycled = FALSE

-----------------------------------------------------------------------------
(* video_tile_init and smid_encoder_init_size *)

Creates(f) == LET o == New(f, None, live)
              IN  held' = [held EXCEPT ![f] = o] /\ live' = live \cup {o}

TakeDown(fields, next) == /\ pc' = "destroy" /\ todo' = fields /\ after' = next
                          /\ UNCHANGED <<stage, backend>>

ChooseCpu == /\ pc = "start" /\ pc' = "cpu"
             /\ UNCHANGED <<stage, todo, after, backend, owned, inside, fb, last, recycled>>

(* malloc of struct smid_direct_vaapi *)
ChooseVaapi == /\ pc = "start" /\ pc' = "vaapi"
               /\ backend' = "vaapi" /\ Creates("direct")
               /\ UNCHANGED <<stage, todo, after, inside, fb, last, recycled>>

NoMemory == /\ pc = "start" /\ TakeDown(EncoderDestroy, "cpu")
            /\ UNCHANGED <<owned, inside, fb, last, recycled>>

NextStage(n) == IF n > Len(VaCalls) THEN pc' = "companion" /\ stage' = 1
                ELSE pc' = "vaapi" /\ stage' = n

(* A call of direct_vaapi_init succeeds.  An image that vaDeriveImage makes of
   the surface is only mapped while it is written: no "image_data" then. *)
VaCall ==
    /\ pc = "vaapi"
    /\ LET f == VaCalls[stage]
       IN  /\ IF f \in CreateNothing THEN UNCHANGED owned ELSE Creates(f)
           /\ \/ NextStage(stage + 1)
              \/ f = "bgrx_image" /\ NextStage(stage + 2)
    /\ UNCHANGED <<todo, after, backend, inside, fb, last, recycled>>

(* It fails: what was made goes, and the CPU takes over. *)
VaCallFails == /\ pc = "vaapi" /\ TakeDown(EncoderDestroy, "cpu")
               /\ UNCHANGED <<owned, inside, fb, last, recycled>>

(* encoder_init_cpu *)
CpuInit == /\ pc = "cpu" /\ pc' = "companion"
           /\ backend' = "cpu" /\ Creates("tj")
           /\ UNCHANGED <<stage, todo, after, inside, fb, last, recycled>>

CpuInitFails == /\ pc = "cpu" /\ pc' = "failed" /\ backend' = "cpu"
                /\ UNCHANGED <<stage, todo, after, owned, inside, fb, last, recycled>>

TileParts == <<"companion", "slot0", "result0", "slot1", "result1">>

(* The rest of the tile; a result cell cannot fail. *)
TilePart ==
    /\ pc \in Range(TileParts) /\ Creates(pc)
    /\ LET n == CHOOSE i \in DOMAIN TileParts : TileParts[i] = pc
       IN  pc' = IF n = Len(TileParts) THEN "ready" ELSE TileParts[n + 1]
    /\ UNCHANGED <<stage, todo, after, backend, inside, fb, last, recycled>>

(* What video_tile_init takes down itself when one of them fails. *)
Undone == [part \in {"companion", "slot0", "slot1"} |->
    IF part = "slot1" THEN <<"result0", "slot0", "companion">> \o EncoderDestroy
    ELSE IF part = "slot0" THEN <<"companion">> \o EncoderDestroy
    ELSE EncoderDestroy]

TilePartFails == /\ pc \in DOMAIN Undone /\ TakeDown(Undone[pc], "failed")
                 /\ UNCHANGED <<owned, inside, fb, last, recycled>>

(* The program ends, or the tile or another one failed: video_tile_destroy,
   also for a tile that was never set up (main.c:1413-1416). *)
Exit == /\ pc \in {"start", "ready", "failed"} /\ TakeDown(TileDestroy, "gone")
        /\ UNCHANGED <<owned, inside, fb, last, recycled>>

(* One destruction, if its handle is valid. *)
Destroy ==
    /\ pc = "destroy" /\ todo # << >>
    /\ held' = [held EXCEPT ![Head(todo)] = None]
    /\ live' = live \ {held[Head(todo)]}
    /\ todo' = Tail(todo)
    /\ UNCHANGED <<pc, stage, after, backend, inside, fb, last, recycled>>

(* direct_vaapi_reset and the memset of smid_encoder_destroy forget the rest. *)
Destroyed ==
    /\ pc = "destroy" /\ todo = << >>
    /\ pc' = after /\ stage' = 1 /\ backend' = None
    /\ held' = [f \in Fields |-> IF f \in Range(EncoderDestroy) \cup {"userptr"}
                                 THEN None ELSE held[f]]
    /\ current_quality' = None /\ userptr_failed' = FALSE
    /\ UNCHANGED <<todo, after, live, fb, last, recycled>>

-----------------------------------------------------------------------------
(* Encoding *)

Dropped(v, fields) ==
    [held |-> [f \in Fields |-> IF f \in fields THEN None ELSE v.held[f]],
     live |-> v.live \ {v.held[f] : f \in fields}]

Added(v, fields, made) ==
    [held |-> [f \in Fields |-> IF f \in fields THEN New(f, made, v.live) ELSE v.held[f]],
     live |-> v.live \cup {New(f, made, v.live) : f \in fields}]

Owned == [held |-> held, live |-> live]
Becomes(v) == held' = v.held /\ live' = v.live

(* Mutant: only the picture parameters follow the quality. *)
RebuiltByHalf(q, n) ==
    LET fields == IF Valid("packed_header_param_buf") THEN {"pic_param_buf"}
                  ELSE Range(QualityBufs)
    IN  Added(Dropped(Owned, fields), fields \cap {QualityBufs[i] : i \in 1 .. n}, q)

(* Mutant: the buffers of the quality before are not destroyed. *)
RebuiltOver(q, n) == Added(Owned, {QualityBufs[i] : i \in 1 .. n}, q)

(* The three buffers anew, the first n of them if a call fails. *)
Rebuilt(q, n) ==
    Added(Dropped(Owned, Range(QualityBufs)), {QualityBufs[i] : i \in 1 .. n}, q)

UpToDate(q) == current_quality = q /\ \A f \in Range(QualityBufs) : Valid(f)

(* direct_vaapi_update_quality, and what the encoder owns when it succeeds. *)
QualityFails(q) == /\ ~UpToDate(q) /\ \E n \in 0 .. 2 : Becomes(Rebuilt(q, n))
                   /\ current_quality' = None
                   /\ UNCHANGED <<userptr_failed, last>>

WithQuality(q) == IF UpToDate(q) THEN Owned ELSE Rebuilt(q, 3)

(* Mutant: the surface is known by its address alone. *)
FitsByAddress(v) == v.held["userptr"] # None /\ v.held["userptr"].made.at = fb.at

(* direct_vaapi_ensure_userptr_bgrx_surface: address, width, height, stride. *)
Fits(v) == /\ v.held["userptr"] # None
           /\ v.held["userptr"].made.at = fb.at /\ v.held["userptr"].made.size = fb.size

SurfaceFails(q) ==
    LET v == WithQuality(q)
    IN  /\ ~Fits(v) /\ current_quality' = q
        /\ IF userptr_failed THEN Becomes(v) ELSE Becomes(Dropped(v, {"userptr"}))
        /\ userptr_failed' = TRUE
        /\ UNCHANGED last

WithSurface(v) == IF Fits(v) THEN v ELSE Added(Dropped(v, {"userptr"}), {"userptr"}, fb)

(* The buffers and the surfaces that a jpeg is rendered from. *)
JpegUses == {"jpeg_context", "nv12_surface", "coded_buf", "qmatrix_buf", "huffman_buf",
             "slice_param_buf"} \cup Range(QualityBufs)

MadeWith(v, f) == IF v.held[f] = None THEN None ELSE v.held[f].made

Success(v, q, uses, source) ==
    last' = [asked |-> q, quality |-> MadeWith(v, "pic_param_buf"),
             header |-> MadeWith(v, "packed_header_data_buf"),
             from |-> source, shown |-> fb,
             missing |-> {f \in uses : v.held[f] = None}]

(* direct_vaapi_encode_userptr_bgrx_region: the calls of the conversion and of
   the encoder follow, and any of them may fail. *)
RegionEncoded(q) ==
    LET v == WithSurface(WithQuality(q))
    IN  /\ Fits(WithQuality(q)) \/ ~userptr_failed
        /\ Becomes(v) /\ current_quality' = q /\ UNCHANGED userptr_failed
        /\ \/ UNCHANGED last
           \/ Success(v, q, JpegUses \cup {"vpp_context", "userptr"}, MadeWith(v, "userptr"))

EncodeRegion(q) ==
    /\ pc = "ready" /\ backend = "vaapi"
    /\ QualityFails(q) \/ SurfaceFails(q) \/ RegionEncoded(q)
    /\ UNCHANGED <<setup, fb, recycled>>

(* direct_vaapi_encode_bgrx_writer_into, for black bands: the image is written
   and put on the surface, if that is not the same, and encoded from there. *)
ImageFails == UNCHANGED <<owned, inside, last>>

BlackEncoded(q) ==
    LET v == WithQuality(q)
    IN  /\ Becomes(v) /\ current_quality' = q /\ UNCHANGED userptr_failed
        /\ \/ UNCHANGED last
           \/ Success(v, q, JpegUses \cup {"vpp_context", "vpp_param_buf", "bgrx_surface",
                                           "bgrx_image"}, fb)

EncodeBlack(q) ==
    /\ pc = "ready" /\ backend = "vaapi"
    /\ ImageFails \/ QualityFails(q) \/ BlackEncoded(q)
    /\ UNCHANGED <<setup, fb, recycled>>

(* tjCompress2: companions always, everything without VA-API. *)
EncodeCpu(q) ==
    /\ pc = "ready"
    /\ \E tj \in (IF backend = "cpu" THEN {"tj", "companion"} ELSE {"companion"}) :
          last' = [asked |-> q, quality |-> q, header |-> q, from |-> fb, shown |-> fb,
                   missing |-> {f \in {tj} : held[f] = None}]
    /\ UNCHANGED <<setup, owned, inside, fb, recycled>>

(* evdi_alloc_buffer: the new buffer is there before the old one is freed. *)
ModeChange ==
    /\ fb.made <= MaxModes
    /\ \E a \in Addresses \ {fb.at}, n \in Modes :
          /\ fb' = [at |-> a, size |-> n, made |-> fb.made + 1]
          /\ recycled' = \/ recycled
                         \/ /\ Valid("userptr") /\ held["userptr"].made.at = a
                            /\ held["userptr"].made.size = n
    /\ UNCHANGED <<setup, owned, inside, last>>

Setup == \/ ChooseCpu \/ ChooseVaapi \/ NoMemory \/ VaCall \/ VaCallFails
         \/ CpuInit \/ CpuInitFails \/ TilePart \/ TilePartFails

Gone == pc = "gone" /\ UNCHANGED encoderVars

EncoderNext == \/ Setup \/ Exit \/ Destroy \/ Destroyed
               \/ \E q \in Qualities : EncodeRegion(q) \/ EncodeBlack(q) \/ EncodeCpu(q)
               \/ ModeChange \/ Gone

EncoderSpec == EncoderInit /\ [][EncoderNext]_encoderVars

-----------------------------------------------------------------------------
SetupOK == /\ pc \in {"start", "vaapi", "cpu", "ready", "failed", "destroy", "gone"}
                        \cup Range(TileParts)
           /\ stage \in 1 .. Len(VaCalls) /\ todo \in Seq(Fields)
           /\ after \in {"start", "cpu", "failed", "gone"}
           /\ backend \in {None, "cpu", "vaapi"}

OwnedOK == held \in [Fields -> Objects \cup {None}] /\ live \subseteq Objects

EncoderTypeOK ==
    /\ SetupOK /\ OwnedOK
    /\ current_quality \in Qualities \cup {None} /\ userptr_failed \in BOOLEAN
    /\ fb \in Framebuffers /\ fb.made <= MaxModes + 1
    /\ recycled \in BOOLEAN

(* Whatever call fails, in the set-up or years later, the tile names everything
   that exists and nothing else: nothing leaks, nothing is used or destroyed
   after it is gone; and nothing is left at the end (encoder.c:522-820). *)
HandlesAreLive == /\ EncoderTypeOK
                  /\ \A f \in Fields : Valid(f) => held[f].for = f
                  /\ {held[f] : f \in {g \in Fields : Valid(g)}} = live
                  /\ pc = "gone" => live = {}

(* What an object rests on. *)
Bases(f) ==
    CASE f \in {"drm_fd", "tj", "direct", "companion"} \cup Range(TileParts) -> {}
      [] f = "dpy" -> {"drm_fd"}
      [] f = "vpp_context" -> {"dpy", "vpp_config"}
      [] f = "vpp_param_buf" -> {"dpy", "vpp_context", "bgrx_surface"}
      [] f = "jpeg_context" -> {"dpy", "jpeg_config", "nv12_surface"}
      [] f = "bgrx_image" -> {"dpy", "bgrx_surface"}
      [] f = "image_data" -> {"dpy", "bgrx_image"}
      [] f \in JpegUses \ {"jpeg_context", "nv12_surface"} -> {"dpy", "jpeg_context"}
      [] OTHER -> {"dpy"}

(* No object outlives one it rests on, wherever a set-up stops
   (encoder.c:697-744). *)
NothingOutlivesItsBase ==
    \A o \in live : \A b \in Bases(o.for) : \E p \in live : p.for = b

(* A jpeg carries the quality it was asked for, in the parameters that quantise
   it and in the header that tells the adapter how: whatever rebuild failed
   before (encoder.c:746-820).  And it is rendered from objects that exist. *)
QualityAsAsked ==
    /\ last.asked # None => last.quality = last.asked /\ last.header = last.asked
    /\ last.missing = {}

(* What is encoded is the stream's framebuffer, although the surface over it is
   kept from one encoding to the next and known by address and size only
   (encoder.c:333-401) - unless a later framebuffer came to lie exactly where
   one lay whose surface is still kept. *)
EncodesTheFramebuffer == last.from # last.shown => recycled
=============================================================================
