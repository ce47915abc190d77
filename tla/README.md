# smid: formal verification

TLA+ models of `smid`, the userspace driver for the Silicon Motion USB display
adapter, with TLC configurations and TLAPS proofs. Line numbers refer to the
files of the repository.

## 1. The system

| part | code | state | operations | depends on |
|---|---|---|---|---|
| transport | `transport.c` | four priority rings, stop flag, result cells | submit, submit_sync, wait, poll, worker loop, start, stop | libusb |
| USB session | `usb.c` | device handle, receiver thread, response counters, ACK registers, receiver error | open, start_io, reconnect, close, send_cmds, wait_code, ack window | transport |
| heartbeat | `heartbeat.c` | thread, stop flag | start, stop, a packet per quiet second | transport |
| EVDI streams | `evdi_source.c` | framebuffer, band hashes, `dpms_on`, `requested`, dirty and blank atomics, one thread each | mode, update and DPMS handlers, request, consume_dirty, consume_blank, capture | kernel, main loop |
| display power | `evdi_source.c` | whether the outputs were last told to be on | update on DPMS and after recovery | transport |
| cursor | `evdi_source.c` | cursor state per stream, image cache of the device, upload in flight, pump thread | event handlers, pump, replay after recovery | transport |
| main frame loop | `main.c` | local `dirty`, `blank`, `seq`, in-flight frame | consume, plan, build, wait, ACK gate, late rebuild, submit, recover | all of the above |
| retained bands | `main.c` | ring of the last three hashes per band | plan, note, reset | frame loop, adapter |
| build workers | `main.c` | one thread, two packet slots and two result cells per tile | submit job, wait, destroy | encoder, transport |
| quality controller | `main.c` | current quality, pressure windows | update per second, idle reset | frame loop |
| frame packet, CNM, protocol | `frame_packet.c`, `cnm.c`, `protocol.c` | packet buffers | build | - |
| log | `log.c` | ring that drops its oldest message, thread | start, stop, log | - |
| encoder | `encoder.c` | VA-API objects, CPU encoders, quality | set up, encode, capture, change quality, take down | libjpeg-turbo, VA-API |

Threads: the main thread, one thread per EVDI stream, a cursor pump, four
build workers, the transport's worker, the receiver, the heartbeat and the log
thread. They meet in the transport's lock and result cells, the framebuffer's
reader-writer lock, the dirty and blank atomics, the `usb` pointer under its
lock, and the packet buffers, which have no lock at all.

What makes each part correct:

* transport: every accepted transfer is reported exactly once, with its own
  outcome; nobody sleeps for ever; stop returns;
* frame loop and streams: no damage, no blank note is lost between the
  threads; the panels come to show the desktops; frame indexes stay in order
  and are never zero;
* retained bands: a companion is only sent over the picture it was planned for;
* build workers: the packet that is sent is the packet that was built;
* USB session: an answer is taken for the command it answers, a recovery leaves
  one of everything running;
* cursor: the device's cache and the driver's picture of it agree;
* display power: what settles is that the outputs are on exactly while a stream is;
* quality: it moves only for a reason, and reaches its ends when the reason lasts;
* frame packet: a packet that is sent is all its own and fits into its slot;
* decoder tables: the adapter can decode every code of the jpeg and nothing else;
* tile encoder: whatever call fails, nothing leaks and nothing is used after its base
  is gone;
* log: every message is written, or counted and told of.

Behaviours that are hard: threads that interleave at every lock release, notes
taken and left without a lock, transfers that fail or time out, sessions that
end while callers are anywhere in their work, and a recovery that has to
rebuild a remote state nobody can read. `PROJECT.json` lists them by line under
`hazards`.

## 2. Modules

| module | models | abstract counterpart |
|---|---|---|
| `Ring` | one priority ring: head, tail, count (`transport.c:79-94, 179-215`) | `BoundedFifo`, by refinement |
| `Transport` | callers, worker, sessions (`transport.c`) | `TxService`, by refinement |
| `RetainedBands` | send plan and retained hashes against the adapter (`main.c:326-424`) | - |
| `BuildWorkers` | workers, slots, in-flight frame, exit (`main.c:596-743, 1404-1418`) | - |
| `FrameLoop` | EVDI threads, main loop, frames on the wire (`evdi_source.c:510-585, 930-975, 1147-1201, 1512-1539`; `main.c:1152-1403`) | - |
| `UsbSession` | the session, its threads, commands and recovery (`usb.c`, `heartbeat.c`; `main.c:859-959, 1404-1421`) | - |
| `AckGate` | the ACKs of stream A and the gate they control (`usb.c:184-208, 343-390`; `main.c:1267-1296`) | - |
| `Cursor` | cursor handlers, pump, image cache, replay (`evdi_source.c`) | - |
| `DisplayPower` | the outputs' power (`evdi_source.c:155-200`) | - |
| `Log` | the ring that drops, its thread (`log.c`) | - |
| `QualityController` | the JPEG quality (`main.c:123-325`) | - |
| `TileEncoder` | what a tile's encoders own (`encoder.c`; `main.c:420-468`) | - |
| `FramePacket` | a packet in its slot (`frame_packet.c`) | - |
| `HuffmanTables` | the tables sent with a jpeg (`cnm.c`) | the definition of a jpeg's codes, within the module |
| `PacketsProofs` | theorems about `Ring`, `FramePacket`, `TileEncoder` and `HuffmanTables` | |
| `SupportProofs` | theorems about `AckGate`, `QualityController` and `Log` | |
| `TransportProofs`, `RetainedProofs`, `BuildWorkersProofs`, `FrameLoopProofs`, `UsbSessionProofs`, `CursorProofs` | theorems about the module of that name | |
| `MC*` | instances for TLC | |

`MCControllers` joins `AckGate` and `QualityController`, and `MCPackets` joins
`Ring`, `FramePacket`, `HuffmanTables` and `DisplayPower`: small parts that share no
state. Each behaviour runs one part, chosen in its first state, and the others
rest.

How a module corresponds to the code:

**Ring.** `slots`, `head`, `tail`, `count` are the fields of one
`queues[prio]`; `Push` and `Pop` are submit past its checks and
`queue_pop_locked`. `Transport` uses sequences where the code has this ring:
that is what `IsFifo` licenses.

**Transport.** Every section under a lock is a step. `thread` is the worker's
place in `transport_thread_main`; `caller` is where each owner of a result cell
is; `session` is what the main thread does with the transport. A transfer is
known by its caller, whose packet is never looked at. `Unfenced` is the set of
callers that may submit after the session was taken from them: device power
reads `src->usb`, releases the lock, and submits (`evdi_source.c:166-183`). The
synchronous caller is the main thread itself, so it never stops a session it
waits in: that is the guard of `StopBegins`.

**RetainedBands.** One stream with its two bands. The adapter's side is taken
from the way the code computes a basis (`main.c:340-354`): it keeps the last
`Period` pictures of a band and lays a companion over the oldest. A kept picture
is a pair, the `body` and the `patch` under the companion's rectangle. Grabs
happen between any two accesses of the framebuffer. The hash stands for its
picture: collisions are not modelled. Two streams share nothing here but the
reset of all hashes.

**BuildWorkers.** `job` holds the fields under a worker's lock, `running` the
local copies. What a build puts into a buffer is the number of the build, and
`Torn` while it is being written, so that a stale, half-written or overwritten
packet is visible. The loop leaves for `exit` from every place the code does.
After a failed job the remaining workers are not waited for (`main.c:733-736`), and
only the length of a USB recovery keeps the next build from meeting them: nothing in
the code does, and nothing in the model. Two histories follow what comes of it.
`abandoned` holds the tiles whose worker was at a job when the main thread gave up
waiting for it, until it is found at rest; `overlapped` those whose latest job was
handed to a worker still at an earlier one. The end of the earlier job is taken for
the new one's, and the packet that is sent is old, or torn by the job that still
writes it: the run reaches this. `QueuedPacketIntact` excepts these packets, and
shows that they come from abandoned workers only. The repository says nothing about
it either way, so it is a hazard and not a finding. The other modules take a build as
complete when its wait ends.

**FrameLoop.** Per stream: the kernel's damage and outstanding request, the
thread's place in its handlers, the framebuffer and the last hash, and the two
notes. The DPMS handler is three steps (exchange, withdraw, note), the update
handler two (grab and hash under the lock, publish). The main thread consumes
blank and dirty notes in two steps at its three places (top of the loop, after
the just-in-time wait, after a long wait). `Recover` is one step: the attempts
within are those of `UsbSession`. Sleeping is a step back to the
top, since `wait_damage` returns after a second at the latest.

**UsbSession.** `pc` is the main thread's place, `how` which of its four ways
through the same calls it is on: startup, reconnection of the endpoints, reset of
the device, exit. `usb` is `struct smid_usb`: zeroed, initialized without a
handle, or with one. The retries within one open (waiting for the device,
clearing halts, the cooldown) are an open that succeeds or fails. The command
script is a sequence of three kinds: commands without a `wait_code`, with one whose
response may stay out, and set-mode (0x30), which is repeated. The counters per
code are represented by what is asked of them, whether they have grown since the
snapshot (`fresh`). A command the adapter owes a response to carries `old` once the
main thread has begun another try: no field of a real response says so. The
adapter answers in order and can lose, refuse or delay. The device-power sender
that reads the `usb` pointer without holding its lock is in `Transport`
(`Unfenced`) and not here.

**AckGate.** The main loop as far as stream A's indexes are concerned; a
frame of stream B alone changes nothing here. An ACK in flight carries `old` when it
belongs to an earlier session, which the code cannot see. The loop never meets
index 0: `video_skip_zero_frame_indexes` is called once, with indexes of 2, and
`video_sequence_wrapped` rebuilds the session, so the exemption of
`ack_pre_wrap_stale` concerns ACKs left over from before the wrap. Likewise the
inner reset at `main.c:1287-1290` is never reached, as `ack_uncertain` is false
there, and has no counterpart. `RetainedBands` and `FrameLoop` take the gate's
verdict as a free choice, which this module refines by hand and not by `INSTANCE`.

**Cursor.** Every section under `cursor_lock` is a step. `src` is what the lock protects:
per stream the slot, the place and whether it is shown, the upload in flight with its
packet and result cell, and, shared, the cache with its next slot and its rewind. A picture
is a model value: its hash and its pixels are the same thing. The transport reads
an upload's packet, one buffer per stream, when it sends the item, so that a packet written
over while it is queued would be seen. An upload is over when its transfer failed, or when
it succeeded and a response with code 0x42 has come or a second has passed; no field of
a response says which upload it answers. The device holds images by slot, a
selection, and a state. History variables mark the ways in which the code gives up
knowing what the adapter has; they are listed with the runs.

**DisplayPower.** `update_device_power` is a loop over the streams' modes, one read a
step, an exchange of the record, a read of the `usb` pointer under its lock, and a
submission without one. It is run by the thread of each stream and by the main thread.

**Log.** `slots`, `head`, `tail`, `count`, `dropped` are `log.c`'s. Messages have the
number of their turn under the lock. The thread takes the dropped count, or else the
oldest message, in a step under the lock and writes it in the next, without the lock. `main` starts the log first and stops it last
(`main.c:1060, 1412-1429`), so nobody logs while it stops; a message
outside that time is written by its own thread.

**QualityController.** One action per window, all branches of `quality_controller_update`
in their order. What a window may measure is a constant: the statistics are sums
of what other modules do. `run` and `sinceAck` are histories of the kinds of windows,
built without looking at the controller's counters.

**TileEncoder.** `held` names the handles in the tile's fields and `live` what exists in
the VA-API driver, in libjpeg and on the heap, each with the field it was made for, a
number no other object of that field has, and what it was made with. Any call
may fail; what the code then destroys, and in which order, is a list worked off
one by one. An encoding is one step because it holds the framebuffer's read lock.

**FramePacket.** The slot is known by one byte of it, at any place, and by who wrote it
last: that makes "every byte of a packet is its own" a statement about every place
without a sequence of bytes. Lengths are arithmetic on the real sizes (48, 512, 20480).

**HuffmanTables.** `build_derived_huffman`, one length a step, against the definition
of a jpeg's codes. The inputs are all counts per length that a jpeg may have: no
more codes than fit, none all ones, and no more than there are symbols. The last is
what keeps the index of a symbol, a byte in the code, from going round and being used.

## 3. Runs

| run | bounds | shows |
|---|---|---|
| `transport` | 5 callers, 4 priorities, 2 slots per ring | results accounted for, service refined, accepted transfers return, stop returns |
| `retained_bands` | 2 bands, 2 pictures, period 2, 3 grabs, 1 mishap | hashes in step with the adapter, companions on their basis, what settles is right |
| `retained_bands_race` | the same, period 3, 4 grabs | expected violation of `CompanionBasis` |
| `build_workers` | tiles {0} and {2,3}, 3 builds, 2 faults | packets intact, nothing freed in use, shutdown completes |
| `frame_loop` | 1 display, 1 change, 2 power or mode events, 1 fault | panel converges (liveness) |
| `frame_loop_two` | 2 displays, 1 event, 1 fault, indexes modulo 4 | indexes in order, nothing forgotten |
| `usb_session` | 4 commands (2 set-modes), 2 tries each, 4 faults | whole sessions only, resources in order, recovery and shutdown end |
| `cursor` | 2 streams, 2 images, 2 cache slots, rewind by 1, queue of 2, seven mixes of images, moves, faults and recoveries | the cache and the records are the adapter's, what settles is what was asked for, a packet in use is left alone, uploads and the program end |
| `log` | 2 logging threads, 3 slots, 9 messages | each message written, or told of where it is missing |
| `tile_encoder` | 2 qualities, 2 addresses, 2 sizes, 3 modes | handles live, nothing outlives its base, quality and framebuffer as asked |
| `controllers` | gate: indexes modulo 10, window 1, 2 sessions that leave ACKs behind, 2 lost ACKs; quality: asked for 0, 70, 75 or 120, 224 kinds of window | the gate certifies what it should, a miss lasts until news, the quality moves for a reason and finds its ends |
| `packets` | ring of 3; jpeg lengths and places around 48, 512, the capacity and its end; code lengths up to 5 for 8 symbols; 2 streams with 5 changes of power, 1 recovery, 1 fault | ring = FIFO, packets all their own and within the slot, tables decode every code, outputs follow the streams |

`ResourcesInOrder` in `UsbSession` is its type invariant, "nothing is closed in use" and
"everything is released at the end"; `GateRemembers` joins the type invariant of `AckGate`
with what the gate must remember. Each property has a mutant in `PROJECT.json`, a changed
definition under which the same run fails.

Why the bounds are enough for the cases of interest.

* Two slots per ring make full rings, refusals and dropped heartbeats happen, three
  make a ring wrap in every fill state.
* With period 2, three grabs and the initial frame fill the hash rings and
  send companions, with a mishap (display switched off, failed build, failed
  transfer, receiver error) at any place; the run with the code's period of 3 is the
  one with the violation. `RetainedProofs` covers every period.
* Three tiles let a job fail between one that is done and one that runs; with 3 builds
  the worker that was left at its job meets the next build, and again the one after,
  and with 2 faults a recovery can follow a recovery.
* Two power events are off and on in both orders; index modulo 4 wraps after
  two frames, so that wraps meet everything else.
* Four faults fail the stream, the reconnection, the reset and one call or
  response of the next attempt; two tries make a repeated set-mode meet its own
  late response, two set-modes that of the other.
* Two cache slots for two images and three sets reuse and rewind slots; the mixes
  are the pairs of troubles that touch the same state (an upload and a recovery, an
  upload and a fault, two streams and the shared cache, a hide and a move over an
  upload). All at once would be too large.
* Nine messages over three slots drop, tell and wrap again and again.
* A change of mode to the same address with another size, to another address with the
  same, and back are what a cached surface over the framebuffer can get wrong: three
  modes, two addresses, two sizes.
* Modulo 10 leaves a session eight frames, enough for a miss, a hold and
  news before the wrap, and keeps the two ends of the range (below 5, from 7) apart.
* The measurements have, for each threshold of the quality, values on both sides of it,
  and loads of one and of two streams; a second of 100 ticks keeps the code's ratios.
* Jpeg lengths and watched bytes lie on, before and after each boundary of the layout,
  and beyond the capacity; `FramePacketLengthsFit` covers all of them.
* Five lengths have a table with every pattern of empty lengths before, between and
  after filled ones; eight symbols are few enough for tables that use all of them, after
  which the index is back at zero.

`CHECK_DEADLOCK FALSE` is set for `retained_bands` and its violation run, where
a settled system only waits for grabs that the bound no longer allows; for
`build_workers`, which ends with the program; and for `packets`, where a desktop need
not change its power again and the pass over the tables ends. Where
one of these could stop too early a property of the run finds it: `SettledShowsFramebuffer`,
`ShutdownCompletes`, `PowerFollows`, `DecodesEveryCode`.

Symmetry is used over pictures only, and only in runs without liveness.

**The violation.** `video_make_send_plan` reads the band hashes under the read
lock; the workers encode the framebuffer under later read locks; the stream's
thread may grab in between. `video_retained_note_plan` then notes the hash of
the picture before for a packet that shows the picture after. The following
grab is dirty, so the panel is corrected by the next frame, but the noted hash
stays in the ring for three frames. If the old picture is back when that entry
is the basis, and only the other band is dirty, the band is sent as a companion
over the wrong picture, which stays. `README.md:77-79` promises companions only
where the basis is known. `CompanionBasisUnlessRaced` shows that this race is the
only way to it, and `RetainedBasis` proves so for every period.

**Exceptions in the properties.** What the code does gives up in some places, and the
properties name these places.

* `ModesAcceptedUnlessMisread` excepts sessions in which a response to an earlier
  try arrived while one was awaited: it is taken for the answer, and an adapter
  that then refuses the later try is streamed to all the same.
* `GateIsSound` speaks of sessions with an ACK of their own: before it, nothing or
  a stale one is compared. `NoFalseAlarm` excepts sessions that received a stale
  ACK: the gate remembers its value, and holds when the session's own frames come
  to the same index (`main.c:1285`), at the price of one full refresh.
* `Right` in `FrameLoop` excuses a display that is on but black because its last
  frame was a black one submitted while it was on (`ghost`): when a display is
  switched on while its blank note is already consumed, the black frame takes the
  damage note with it (`main.c:1153-1154, 1345, 1375`) and the panel stays black until
  the desktop changes. It also excuses a display that is off and repainted by a
  recovery (`main.c:949`).
* `Cursor`: a slot whose upload ended without its own response is in `doubt`, as an
  image the adapter did not take stays in the cache; an upload still queued when a replay
  began is `overtaken` by it; an image that could not be sent is given up until it is
  set again (`lapsed`); a failed selection leaves the adapter `misled`, a refused or
  failed state leaves it `adrift`; and a replay that reads the asked-for image
  before its thread notes a newer one sends the older one last (`reverted`,
  `evdi_source.c:1434-1477`). None of these is checked or repeated by the code; the
  next image, state or recovery corrects it.
* `PowerFollows` excepts outputs that are `spoiled`: two updates that overlap, a refused
  submission or a failed transfer leave a record that is not the adapter's, which can
  keep the outputs off while a stream is on until the mask changes or a recovery sends it
  again.
* `QueuedPacketIntact` excepts packets whose job was handed to a worker still at an
  earlier one (`overlapped`), and shows that this befalls abandoned workers only.
* `EncodesTheFramebuffer` excepts a framebuffer that was freed and came to lie at
  the very address, size and stride of the one the surface was made over
  (`recycled`): the code compares just these three and keeps the surface.
* `QualityMovesForAReason` lets a window limited by ACKs count against the service of
  frames but not against the encoder, as the code does.

## 4. Fairness

* `Transport`: weak fairness of the worker (a thread, and libusb transfers have
  timeouts), of each caller taking a finished result, and of the join. Nobody
  has to submit, start or stop.
* `BuildWorkers`: weak fairness of the main thread, of each worker (an encode
  ends) and of the transport.
* `FrameLoop`: weak fairness of the main thread, of each stream's thread, of the
  wire, and of a first mode per stream (the compositor sets one; until it does
  every build fails with -1 and the session is recovered again and again).
  Drawing, power events and faults need not happen.
* `UsbSession`: weak fairness of the main thread, the receiver and the heartbeat.
  Every wait of the main thread has a timeout or is a join; the receiver reads in
  rounds of 250 ms, and what the adapter has to say arrives unless it is lost,
  which is a fault. Calls stop failing (`MaxFaults`): a device that stays
  away is retried for ever, and only a signal ends that (`main.c:894`).
* `Cursor`: weak fairness of the cursor thread, of the transport's worker, of the
  main thread (which ends a recovery and, when asked, the program), and of time, on which
  an upload without a response runs out. The desktop need not do anything. Each of them is
  stated over the variables the thread works on.
* `DisplayPower`: weak fairness of each thread within an update it has begun, of the
  transfer and of the recovery. Power need not change.
* `Log`: weak fairness of the log thread and of the join in `smid_log_stop`. Nobody has
  to log, or to stop.
* `QualityController`: weak fairness of the measurement, which the main loop makes once
  a second (`main.c:1159`).
* `TileEncoder`, `FramePacket`, `HuffmanTables`, `AckGate`, `RetainedBands`: none, their
  properties are about safety.

## 5. Proofs

Checked by TLAPS for all values of the constants:

* `RingIndicesAgree`, `RingIsFifo`: from `RingAssumption` (a positive capacity).
  The inductive invariant is `TypeOK /\ IndicesAgree`; the refinement needs one
  lemma per operation about the window of slots that `Contents` reads, with
  the cases of wrapping in `WrapOnce`.
* `TransportTypeOK`, `TransportResultAccounting`: from `TransportAssumption`. The
  inductive invariant `IInv` adds to both: a caller is queued at its own priority
  only (`AtOwnPriority`), the worker's place fits the session and a stopped
  session has empty rings but for unfenced callers (`SessionShape`), and a cell
  about to be submitted is not done (`FreshCell`). Without the second the drain
  could leave an item behind, without the third a submitted cell could be taken
  for finished. Lemmas say what appending to and popping from a queue do to
  membership (`EnqueueEffect`, `DequeueEffect`) and what completing a cell does.
* `TransportIsTxService`: each step maps to a step or a stutter of `TxService`,
  from the invariant.
* `RetainedInStep`, `RetainedBasis`, `RetainedShows`: from `RetainedAssumption` (finitely many bands, a
  positive period). The inductive invariant of `RetainedProofs` is, for these two, `Planned` (the plan is
  of the streams and hashes it was made from), `Quiet` and `OneOfEach` (a frame is
  submitted only when the one before has arrived, so at most one packet per band is on its
  way), `InStep` (hashes and retained pictures agree but for that packet) and `Based`
  (a companion under way lies on what the code takes for its basis). Without `OneOfEach`
  two packets of a band could be noted in one step and retained in two. `RetainedShows`
  adds `Fresh`: what is planned and built of a band shows the framebuffer unless a later grab
  has marked the band again (`Building`), and between two frames a band that is not marked
  shows the framebuffer, or will when the packet on its way arrives (`Showing`).
* `AckGateRemembers`, `AckGateIsSound`, `AckGateNoFalseAlarm`: from `AckGateAssumption`. The
  key of the inductive invariant is that the indexes of a session do not wrap within
  it, so that the code's unsigned difference is the number of frames owed, and
  that a session's own ACKs come in order, after the stale ones and without a gap but
  for the lost.
* `LogAccounted`, `LogTellsBeforeItSkips`, `LogWritesInOrder`: from `LogAssumption`. The
  invariant says that the ring holds exactly the newest messages, in order; everything
  older is written, told of, in the thread's hands, or counted.
* `QualityTypeOK`, `QualityMoves`: from `QualityAssumption`, for all measurements. The
  invariant ties the counters to the histories of the windows.
* `FramePacketIsItsOwn`, `FramePacketLengthsFit`: from `FramePacketAssumption`. The lemma
  `NeverOnABlock` is the arithmetic of the lengths: every packet ends 48 bytes past a
  block, so that the byte for those that would not is never added; the rest is a case for each
  part of the packet the watched byte may lie in.
* `PacketsIntact`, `NothingFreed`: from `BuildAssumption` (a stream has tiles, tiles are
  numbers) alone. The inductive invariant of `BuildWorkersProofs` is `Phase` (where the
  main thread is, which tiles are left, and that the frame in flight has the other slot),
  `Queued` (an item of the transport is of the frame in flight or of the one being handed
  over, unfinished and, unless its job overlapped another, `Kept`: its buffer is as built
  and no job, waiting or running, writes that slot), `Jobs` (a worker that got its job of
  this build at rest is `AtItsJob` and no other, and done when the job is) and `Strays`
  (outside the two loops over the workers only the abandoned ones are at a job). A packet that
  is kept stays so next to abandoned workers: its own worker was at rest when it got the job,
  so whatever it is at since was handed to it for a later frame, into the other slot.

* `FrameIndexesInOrder`, `NothingIsForgotten`: from `FrameLoopAssumption`. The inductive
  invariant of `FrameLoopProofs` goes along the way of a frame: `Staged` (which stages of the
  loop have a plan, packets and a flight), `Counted` (a stream's next index follows the
  one on its way, or the one that arrived last), `Hashed` and `Grabbed` (the last hash is that
  of the framebuffer, which is the desktop's unless there is damage to grab), `BuiltNoted` (a
  packet that does not show the framebuffer any more has its note left), and `OnNoted` and
  `OffNoted` (a display that is on, or off, and whose panel is wrong has a note with its own
  thread or the main thread, a packet that corrects it, or a recovery coming).
* `SessionResources`, `SessionWhole`, `SessionModes`: from `SessionAssumption`. The
  inductive invariant of `UsbSessionProofs` is `Sheltered` (receiver and transport come
  and go together and within the handle's life, and everybody else within theirs), `Standing`
  (what is there at each place of the main thread, on each of its ways through startup,
  recovery and exit), `Marked` (a response on its way is to the command awaited or known
  to be of an earlier one, and tells the truth of what was accepted) and `Agreed` (the
  modes before the script's place were accepted, unless an answer was misread).
* `CacheMirrorsTheDevice`, `ShowsWhatWasAsked`, `RecordsStayInStep`, `PacketsAreLeftAlone`:
  from `CursorAssumption` (the streams are finitely many numbers, the rewind is within the
  cache, the marks of the model are no images). A section under `cursor_lock` is a
  chain of calls, so the invariant of `CursorProofs` is stated of a world - the source,
  the queue, the answers and the marks, as one call hands them to the next - and each call
  is proved to keep it on its own, with lemmas for what an append to the queue and a
  removal of its head leave. Its parts are `Shaped` (an upload in flight has its slot and
  packet), `Single` (of an upload there is one item, or one answer, or neither),
  `Mirrored` (an entry of the cache is in the adapter's slot, or an upload that is in
  flight brings it or fails, and nothing queued behind writes anything else there),
  `Selected` and `Stated` (the last item of a kind in the queue is what the driver has
  recorded, and with none queued the adapter has it), `Unmoved` (what is queued is
  waited for, unless a replay overtook it), `HeldOf` (the image asked for is in the
  stream's slot and selected, on its way, or still to be replayed), `Sleeping` (nobody
  sleeps on an upload) and `Leaving` (at the end only the transport runs). Without the
  clause on what is queued behind, two streams that share a slot after a rewind could
  leave the older image there; without `Single`, an upload that was answered
  could have a second item queued that writes its packet once more.
* `EncoderHandles`, `EncoderOrder`, `EncoderQuality`, `EncoderFramebuffer`: from
  `EncoderAssumption` (a handle that names nothing is no object). The inductive invariant
  is `Linked` (handles and objects are one to one), `Phase` (what the calls made so far
  have left, and that a destruction has everything that exists still before it, in an
  order `Rank` describes), `Closed` (what exists has its bases), `Carried` and `Overlaid`
  (what the buffers and the surface were made with). `FreeNumber` is why a new object is
  never taken for an old one; `BasesAre` says that the order of destruction puts every
  object before its bases.
* `TablesDecode`: from `HuffmanAssumption`. The inductive invariant says that the totals of
  the pass are the first code and the first symbol of the next length, and every row
  what `RowOf` says. What these are is a recursion over the lengths; the provers have no
  induction with an operator, so `StepByStep` is one over a set of numbers, from the least
  element that every set of numbers has (`LeastOf`, by the well-foundedness of `<`), and
  `RecursionDefines` shows with it that a function defined step by step exists. `FirstIs`
  is then how the first codes follow each other, `LaterCodes` that the codes of a greater
  length lie behind those a shorter one begins, and `BeginningsMatchNothing` that no
  shorter row matches a code's beginning.

Only model-checked: every liveness property (`TransfersReturn`, `StopReturns`,
`ShutdownCompletes`, `PanelsConverge`, `SessionsRecover`, `SignalEndsProgram`,
`UploadsAndStopEnd`, `EverythingOut`, `PowerFollows`, `QualityFindsItsEnds`), which TLAPS
cannot prove under fairness.

## 6. Not modelled

* Protocol tables: constant packets, filled in once. Their order and the
  responses they wait for are the command script of `UsbSession`.
* The layout of the CNM blocks and the jpeg parser; compression, the conversion of
  pixels, and how large a jpeg gets: functions on bytes. The capacity is a
  constant of `FramePacket`.
* Real time: delays, frame rates, the just-in-time start of a frame, the interval of
  the heartbeat. Waits end at any time, within the fairness above. So nothing is
  said of whether a heartbeat that is left out after a success (`heartbeat.c:31`)
  comes soon enough: how long the adapter waits is not in the code.
* Start and stop of the EVDI threads, and the damage signal: a sleep may end at any
  time. Seen while reading and not modelled: when the first display fails to start, the
  stop of the source also visits the streams that never started, whose zeroed pipe
  descriptors it takes for descriptor 0 and closes (`evdi_source.c:1284-1289, 1368-1370`).
* Printing of statistics, the command line, the build and installation files, memory
  allocation failures at start.

What could follow: an abstract mirror (a panel shows the desktop, or is to be
refreshed) that `FrameLoop` implements, and an abstract session (one at a time, up or
down) that `UsbSession` implements.
