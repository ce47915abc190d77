---------------------------- MODULE CursorProofs ----------------------------
(* The cursor, for every set of streams, slots and images, every length of the
   queue and of the cache's numbering, through faults and recoveries: the
   driver's cache mirrors the adapter, what settles is the image asked for, the
   records of selection and state stay in step, and a waiting packet is left
   alone.

   A step of the code is a chain of calls, so the invariant is stated of a world
   (World gathers what the calls hand on) and each call is proved to keep it:
   first what each call does, then that it keeps each part, then the actions. *)
EXTENDS Cursor, SequenceTheorems, WellFoundedInduction, TLAPS

Spots   == Slots \cup {NoSlot}
Answers == [of : Streams \cup {NoSlot}, old : BOOLEAN, ok : BOOLEAN]
Packets == [shape : Spots, img : Pictures]
Units   == [slot : Spots, upShape : Spots, inflight : BOOLEAN, txDone : BOOLEAN,
            seen : Answers, late : BOOLEAN, result : {None, "ok", "failed"},
            at : Places, shown : BOOLEAN, packet : Packets]
Sources == [st : [Streams -> Units], cache : [Slots -> Pictures], next : 0 .. CacheMax + 1,
            selStream : Streams \cup {NoSlot}, selShape : [Streams -> Spots]]
Uploads == [kind : {"image"}, stream : Streams, old : BOOLEAN]
Selects == [kind : {"select"}, stream : Streams, shape : Slots]
States  == [kind : {"state"}, stream : Streams, at : Places, shown : BOOLEAN]
Items   == Uploads \cup Selects \cup States
Worlds  == [s : Sources, q : Seq(Items), rc : {0, -1}, ans : Seq(Answers),
            doubt : SUBSET Slots, asked : [Streams -> Pictures],
            lapsed : SUBSET Streams, adrift : SUBSET Streams]

(* What one more item leaves. *)
LEMMA SubmitEffect ==
    ASSUME NEW w \in Worlds, NEW item \in Items, NEW v, v = Submit(w, item)
    PROVE  /\ v \in Worlds
           /\ v.s = w.s /\ v.ans = w.ans /\ v.doubt = w.doubt /\ v.asked = w.asked
           /\ v.lapsed = w.lapsed /\ v.adrift = w.adrift
           /\ \/ v.rc = 0 /\ v.q = Append(w.q, item) /\ Len(w.q) # QueueCap
              \/ v.rc = -1 /\ v.q = w.q
<1>1. CASE v = [w EXCEPT !.rc = -1]
  BY <1>1 DEF Worlds
<1>2. CASE v = [[w EXCEPT !.rc = 0] EXCEPT !.q = Append(w.q, item)] /\ Len(w.q) # QueueCap
  <2>1. Append(w.q, item) \in Seq(Items)
    BY DEF Worlds
  <2>q. QED BY <1>2, <2>1 DEF Worlds
<1>q. QED BY <1>1, <1>2 DEF Submit, Fine, Worlds

LEMMA SelectWorld ==
    ASSUME NEW w \in Worlds, NEW s \in Streams, NEW v, v = Select(w, s)
    PROVE  /\ v \in Worlds
           /\ v.s.st = w.s.st /\ v.s.cache = w.s.cache /\ v.s.next = w.s.next
           /\ v.ans = w.ans /\ v.doubt = w.doubt /\ v.asked = w.asked /\ v.adrift = w.adrift
           /\ \A r \in Streams : r # s => v.s.selShape[r] = w.s.selShape[r]
           /\ \/ v.q = w.q /\ v.s.selShape = w.s.selShape /\ v.lapsed = w.lapsed
                 /\ v.rc = 0
                 /\ LET u == w.s.st[s] IN \/ u.slot = NoSlot
                                          \/ u.inflight /\ u.upShape = u.slot
                                          \/ w.s.selShape[s] = u.slot
              \/ v.q = w.q /\ v.s.selShape = w.s.selShape /\ v.lapsed = w.lapsed \cup {s} /\ v.rc = -1
              \/ /\ v.lapsed = w.lapsed /\ v.rc = 0 /\ w.s.st[s].slot # NoSlot /\ Len(w.q) # QueueCap
                 /\ v.s.selShape[s] = w.s.st[s].slot
                 /\ v.q = Append(w.q, [kind |-> "select", stream |-> s, shape |-> w.s.st[s].slot])
<1>1. PICK u : u = w.s.st[s]
  OBVIOUS
<1>2. u \in Units
  BY <1>1 DEF Worlds, Sources
<1>3. CASE u.slot = NoSlot \/ (u.inflight /\ u.upShape = u.slot)
           \/ (w.s.selStream = s /\ w.s.selShape[s] = u.slot)
  <2>1. v = [w EXCEPT !.rc = 0]
    BY <1>1, <1>3 DEF Select, Fine
  <2>2. v \in Worlds
    BY <2>1 DEF Worlds
  <2>q. QED BY <1>1, <1>3, <2>1, <2>2 DEF Worlds
<1>4. CASE ~(u.slot = NoSlot \/ (u.inflight /\ u.upShape = u.slot)
             \/ (w.s.selStream = s /\ w.s.selShape[s] = u.slot))
  <2>1. PICK item : item = [kind |-> "select", stream |-> s, shape |-> u.slot]
    OBVIOUS
  <2>2. item \in Items
    BY <1>2, <1>4, <2>1 DEF Items, Selects, Units, Spots
  <2>3. PICK x : x = Submit(w, item)
    OBVIOUS
  <2>4. /\ x \in Worlds
        /\ x.s = w.s /\ x.ans = w.ans /\ x.doubt = w.doubt /\ x.asked = w.asked
        /\ x.lapsed = w.lapsed /\ x.adrift = w.adrift
        /\ \/ x.rc = 0 /\ x.q = Append(w.q, item) /\ Len(w.q) # QueueCap
           \/ x.rc = -1 /\ x.q = w.q
    BY <2>2, <2>3, SubmitEffect
  <2>5. v = IF x.rc # 0 THEN Lapse(x, s)
            ELSE [x EXCEPT !.s.selStream = s, !.s.selShape[s] = u.slot]
    BY <1>1, <1>4, <2>1, <2>3 DEF Select
  <2>6. CASE x.rc # 0
    <3>1. v = [x EXCEPT !.lapsed = x.lapsed \cup {s}]
      BY <2>5, <2>6 DEF Lapse
    <3>2. x.lapsed \cup {s} \in SUBSET Streams
      BY <2>4 DEF Worlds
    <3>3. v \in Worlds
      BY <2>4, <3>1, <3>2 DEF Worlds
    <3>q. QED BY <2>4, <2>6, <3>1, <3>3 DEF Worlds
  <2>7. CASE x.rc = 0
    <3>1. PICK src2 : src2 = [x.s EXCEPT !.selStream = s, !.selShape[s] = u.slot]
      OBVIOUS
    <3>2. v = [x EXCEPT !.s = src2]
      BY <2>5, <2>7, <3>1 DEF Worlds
    <3>3. x.s \in Sources /\ u.slot \in Spots
      BY <1>2, <2>4 DEF Worlds, Units
    <3>4. src2 \in Sources /\ src2.st = w.s.st /\ src2.cache = w.s.cache /\ src2.next = w.s.next
          /\ src2.selShape = [w.s.selShape EXCEPT ![s] = u.slot]
      BY <2>4, <3>1, <3>3 DEF Sources
    <3>5. v \in Worlds /\ v.s = src2 /\ v.q = x.q /\ v.rc = x.rc /\ v.ans = x.ans /\ v.doubt = x.doubt
          /\ v.asked = x.asked /\ v.lapsed = x.lapsed /\ v.adrift = x.adrift
      BY <2>4, <3>2, <3>4 DEF Worlds
    <3>6. w.s.selShape \in [Streams -> Spots]
      BY DEF Worlds, Sources
    <3>q. QED BY <1>1, <1>4, <2>1, <2>4, <2>7, <3>4, <3>5, <3>6
  <2>q. QED BY <2>4, <2>6, <2>7
<1>q. QED BY <1>3, <1>4
-----------------------------------------------------------------------------
IsImage(w, i, s) == i \in DOMAIN w.q /\ w.q[i].kind = "image" /\ w.q[i].stream = s
Current(w, i, s) == IsImage(w, i, s) /\ ~w.q[i].old
Own(a, s)        == a.of = s /\ ~a.old

(* An upload in flight has its slot and its packet. *)
Shaped(w) == \A s \in Streams : LET u == w.s.st[s] IN
    /\ u.inflight <=> u.upShape # NoSlot
    /\ u.txDone => u.inflight
    /\ u.inflight => u.packet.shape = u.upShape /\ u.slot # NoSlot
    /\ ~u.inflight => u.seen = NoAnswer
    /\ ~u.shown => u.at = 0

(* Of an upload in flight there is its item in the queue, or the answer to it, or
   neither. *)
Single(w) == \A s \in Streams : LET u == w.s.st[s] IN
    /\ \A i \in DOMAIN w.q : Current(w, i, s) =>
          /\ u.inflight /\ ~Own(u.seen, s)
          /\ \A n \in DOMAIN w.ans : ~Own(w.ans[n], s)
          /\ \A j \in DOMAIN w.q : Current(w, j, s) => j = i
    /\ \A n \in DOMAIN w.ans : Own(w.ans[n], s) => u.inflight

(* What is queued after the i-th item writes nothing else into slot k. *)
Clean(w, k, i) ==
    \A j \in DOMAIN w.q : j > i /\ w.q[j].kind = "image" =>
        LET p == w.s.st[w.q[j].stream].packet IN p.shape = k => p.img = w.s.cache[k]

There(w, k) == dev.slots[k] = w.s.cache[k] /\ Clean(w, k, 0)

Taken(w, s) == \/ Own(w.s.st[s].seen, s) /\ w.s.st[s].seen.ok
               \/ \E n \in DOMAIN w.ans : Own(w.ans[n], s) /\ w.ans[n].ok

(* An upload of s brings slot k what the cache says, or fails. *)
Coming(w, k, s) ==
    /\ w.s.st[s].inflight /\ w.s.st[s].upShape = k /\ w.s.st[s].packet.img = w.s.cache[k]
    /\ \/ \E i \in DOMAIN w.q : Current(w, i, s) /\ Clean(w, k, i)
       \/ (\A i \in DOMAIN w.q : ~Current(w, i, s)) /\ ~Taken(w, s)

Live == main.at \in {"run", "replay", "wake", "force"}

Mirrored(w) == Live => \A k \in Slots \ w.doubt :
    w.s.cache[k] # None => There(w, k) \/ (\E s \in Streams : Coming(w, k, s))

IsKind(w, i, kind, s) == i \in DOMAIN w.q /\ w.q[i].kind = kind /\ w.q[i].stream = s
Last(w, i, kind, s) == /\ IsKind(w, i, kind, s)
                       /\ \A j \in DOMAIN w.q : j > i => ~IsKind(w, j, kind, s)
Nowhere(w, kind, s) == \A i \in DOMAIN w.q : ~IsKind(w, i, kind, s)

Selected(w) == Live => \A s \in Streams : w.s.selShape[s] # NoSlot =>
    /\ \A i \in DOMAIN w.q : Last(w, i, "select", s) => w.q[i].shape = w.s.selShape[s]
    /\ Nowhere(w, "select", s) /\ s \notin misled => dev.sel[s] = w.s.selShape[s]

Stated(w) == main.at # "closed" => \A s \in Streams \ w.adrift : LET u == w.s.st[s] IN
    /\ \A i \in DOMAIN w.q : Last(w, i, "state", s) => w.q[i].at = u.at /\ w.q[i].shown = u.shown
    /\ Nowhere(w, "state", s) => dev.state[s].at = u.at /\ dev.state[s].shown = u.shown

(* What is queued of a stream that no replay has overtaken is waited for. *)
Unmoved(w) == \A s \in Streams \ overtaken : \A i \in DOMAIN w.q : IsImage(w, i, s) =>
    /\ w.s.st[s].inflight /\ ~w.s.st[s].txDone /\ w.s.st[s].result = None
    /\ \A j \in DOMAIN w.q : IsImage(w, j, s) => j = i

Keeps(w, s) == LET u == w.s.st[s] IN u.slot # NoSlot /\ w.s.cache[u.slot] = w.asked[s]
Holds(w, s) == LET u == w.s.st[s] IN
    Keeps(w, s) /\ (w.s.selShape[s] = u.slot \/ (u.inflight /\ u.upShape = u.slot))
Due(w, s)   == w.asked[s] # None /\ s \notin w.lapsed /\ s \notin reverted
Ahead(w, s) == /\ main.at = "replay" /\ s >= main.k /\ w.s.st[s].slot = NoSlot
               /\ todo[s].img = w.asked[s]
HeldOf(w, s) == Due(w, s) => Holds(w, s) \/ Ahead(w, s)
NearlyOf(w, s) == Due(w, s) => Keeps(w, s) \/ Ahead(w, s)

Rest(w) == /\ w \in Worlds /\ Len(w.q) <= QueueCap
           /\ Shaped(w) /\ Single(w) /\ Mirrored(w) /\ Selected(w) /\ Stated(w) /\ Unmoved(w)
Good(w) == Rest(w) /\ \A s \in Streams : HeldOf(w, s)

-----------------------------------------------------------------------------
SameFlights(w, v) == \A s \in Streams : LET u == w.s.st[s]  x == v.s.st[s] IN
    /\ x.slot = u.slot /\ x.upShape = u.upShape /\ x.inflight = u.inflight
    /\ x.seen = u.seen /\ x.packet = u.packet

SameUploads(w, v) == /\ SameFlights(w, v)
                     /\ \A s \in Streams : /\ v.s.st[s].txDone = w.s.st[s].txDone
                                            /\ v.s.st[s].result = w.s.st[s].result

SameImages(w, v) ==
    /\ \A i \in DOMAIN w.q : i \in DOMAIN v.q /\ v.q[i] = w.q[i]
    /\ \A i \in DOMAIN v.q : v.q[i].kind = "image" => i \in DOMAIN w.q

SameRecords(w, v) == v.s.cache = w.s.cache /\ v.ans = w.ans /\ v.doubt = w.doubt

LEMMA ImageSame ==
    ASSUME NEW w, NEW v, SameImages(w, v)
    PROVE  /\ \A i, s : IsImage(v, i, s) <=> IsImage(w, i, s)
           /\ \A i, s : Current(v, i, s) <=> Current(w, i, s)
BY DEF SameImages, IsImage, Current

LEMMA SingleKept ==
    ASSUME NEW w, NEW v, SameImages(w, v), SameFlights(w, v), SameRecords(w, v), Single(w)
    PROVE  Single(v)
<1>1. \A i, s : Current(v, i, s) <=> Current(w, i, s)
  BY ImageSame
<1>2. ASSUME NEW s \in Streams
      PROVE  LET u == v.s.st[s] IN
             /\ \A i \in DOMAIN v.q : Current(v, i, s) =>
                   /\ u.inflight /\ ~Own(u.seen, s)
                   /\ \A n \in DOMAIN v.ans : ~Own(v.ans[n], s)
                   /\ \A j \in DOMAIN v.q : Current(v, j, s) => j = i
             /\ \A n \in DOMAIN v.ans : Own(v.ans[n], s) => u.inflight
  <2>1. v.s.st[s].inflight = w.s.st[s].inflight /\ v.s.st[s].seen = w.s.st[s].seen /\ v.ans = w.ans
    BY DEF SameFlights, SameRecords
  <2>2. \A i : Current(v, i, s) => i \in DOMAIN w.q
    BY <1>1 DEF Current, IsImage
  <2>q. QED BY <1>1, <2>1, <2>2 DEF Single
<1>q. QED BY <1>2 DEF Single

LEMMA UnmovedKept ==
    ASSUME NEW w, NEW v, SameImages(w, v), SameUploads(w, v), Unmoved(w)
    PROVE  Unmoved(v)
<1>1. \A i, s : IsImage(v, i, s) <=> IsImage(w, i, s)
  BY ImageSame
<1>2. \A i, s : IsImage(v, i, s) => i \in DOMAIN w.q
  BY <1>1 DEF IsImage
<1>q. QED BY <1>1, <1>2 DEF SameUploads, SameFlights, Unmoved

LEMMA CleanKept ==
    ASSUME NEW w \in Worlds, NEW v \in Worlds, SameImages(w, v), SameFlights(w, v), SameRecords(w, v),
           NEW k, NEW i
    PROVE  Clean(w, k, i) => Clean(v, k, i)
<1> SUFFICES ASSUME Clean(w, k, i),
                    NEW j \in DOMAIN v.q, j > i, v.q[j].kind = "image",
                    v.s.st[v.q[j].stream].packet.shape = k
             PROVE  v.s.st[v.q[j].stream].packet.img = v.s.cache[k]
  BY DEF Clean
<1>1. j \in DOMAIN w.q /\ v.q[j] = w.q[j]
  BY DEF SameImages
<1>2. v.q[j].stream \in Streams
  BY DEF Worlds, Items, Uploads, Selects, States
<1>3. v.s.st[v.q[j].stream].packet = w.s.st[v.q[j].stream].packet /\ v.s.cache = w.s.cache
  BY <1>2 DEF SameFlights, SameRecords
<1>q. QED BY <1>1, <1>3 DEF Clean

LEMMA MirroredKept ==
    ASSUME NEW w \in Worlds, NEW v \in Worlds, SameImages(w, v), SameFlights(w, v), SameRecords(w, v),
           Mirrored(w)
    PROVE  Mirrored(v)
<1> SUFFICES ASSUME Live, NEW k \in Slots \ v.doubt, v.s.cache[k] # None
             PROVE  There(v, k) \/ (\E s \in Streams : Coming(v, k, s))
  BY DEF Mirrored
<1>1. v.s.cache = w.s.cache /\ v.ans = w.ans /\ v.doubt = w.doubt
  BY DEF SameRecords
<1>2. There(w, k) \/ (\E s \in Streams : Coming(w, k, s))
  BY <1>1 DEF Mirrored
<1>3. CASE There(w, k)
  BY <1>1, <1>3, CleanKept DEF There
<1>4. ASSUME NEW s \in Streams, Coming(w, k, s) PROVE Coming(v, k, s)
  <2>1. /\ v.s.st[s].inflight = w.s.st[s].inflight /\ v.s.st[s].upShape = w.s.st[s].upShape
        /\ v.s.st[s].packet = w.s.st[s].packet /\ v.s.st[s].seen = w.s.st[s].seen
    BY DEF SameFlights
  <2>2. \A i : Current(v, i, s) <=> Current(w, i, s)
    BY ImageSame
  <2>3. CASE \E i \in DOMAIN w.q : Current(w, i, s) /\ Clean(w, k, i)
    <3>1. PICK i \in DOMAIN w.q : Current(w, i, s) /\ Clean(w, k, i)
      BY <2>3
    <3>2. i \in DOMAIN v.q /\ Current(v, i, s) /\ Clean(v, k, i)
      BY <2>2, <3>1, CleanKept DEF SameImages
    <3>q. QED BY <1>1, <1>4, <2>1, <3>2 DEF Coming
  <2>4. CASE (\A i \in DOMAIN w.q : ~Current(w, i, s)) /\ ~Taken(w, s)
    <3>1. \A i \in DOMAIN v.q : ~Current(v, i, s)
      BY <2>2, <2>4 DEF Current, IsImage
    <3>2. ~Taken(v, s)
      BY <1>1, <2>1, <2>4 DEF Taken
    <3>q. QED BY <1>1, <1>4, <2>1, <3>1, <3>2 DEF Coming
  <2>q. QED BY <1>4, <2>3, <2>4 DEF Coming
<1>q. QED BY <1>2, <1>3, <1>4

(* An item that is no image. *)
LEMMA AppendSame ==
    ASSUME NEW w \in Worlds, NEW v \in Worlds, NEW item \in Items, item.kind # "image",
           v.q = w.q \/ v.q = Append(w.q, item)
    PROVE  SameImages(w, v)
<1>1. w.q \in Seq(Items)
  BY DEF Worlds
<1>2. CASE v.q = w.q
  BY <1>2 DEF SameImages
<1>3. CASE v.q = Append(w.q, item)
  <2>1. /\ DOMAIN v.q = 1 .. Len(w.q) + 1 /\ DOMAIN w.q = 1 .. Len(w.q) /\ Len(w.q) \in Nat
        /\ \A i \in 1 .. Len(w.q) : v.q[i] = w.q[i]
        /\ v.q[Len(w.q) + 1] = item
    BY <1>1, <1>3
  <2>q. QED BY <2>1 DEF SameImages
<1>q. QED BY <1>2, <1>3

Others(w, v, kind, r) ==
    /\ \A i : Last(v, i, kind, r) => i \in DOMAIN w.q /\ Last(w, i, kind, r) /\ v.q[i] = w.q[i]
    /\ Nowhere(v, kind, r) => Nowhere(w, kind, r)

Newest(v, item, kind, r) == (\A i : Last(v, i, kind, r) => v.q[i] = item) /\ ~Nowhere(v, kind, r)

LEMMA AppendParts ==
    ASSUME NEW w \in Worlds, NEW v, NEW item, v.q = Append(w.q, item)
    PROVE  \E n \in Nat : /\ DOMAIN w.q = 1 .. n /\ DOMAIN v.q = 1 .. n + 1
                         /\ \A i \in 1 .. n : v.q[i] = w.q[i]
                         /\ v.q[n + 1] = item
<1>1. w.q \in Seq(Items)
  BY DEF Worlds
<1>2. PICK n : n = Len(w.q)
  OBVIOUS
<1>3. /\ n \in Nat /\ DOMAIN w.q = 1 .. n /\ DOMAIN v.q = 1 .. n + 1
      /\ \A i \in 1 .. n : v.q[i] = w.q[i]
      /\ v.q[n + 1] = item
  BY <1>1, <1>2
<1>q. QED BY <1>3

LEMMA OthersStay ==
    ASSUME NEW w \in Worlds, NEW v, NEW item, v.q = Append(w.q, item),
           NEW kind, NEW r, ~(item.kind = kind /\ item.stream = r)
    PROVE  Others(w, v, kind, r)
<1>2. PICK n \in Nat : /\ DOMAIN w.q = 1 .. n /\ DOMAIN v.q = 1 .. n + 1
                       /\ \A i \in 1 .. n : v.q[i] = w.q[i]
                       /\ v.q[n + 1] = item
  BY AppendParts
<1>3. \A j : IsKind(v, j, kind, r) <=> IsKind(w, j, kind, r)
  BY <1>2 DEF IsKind
<1>4. \A j : IsKind(w, j, kind, r) => j \in 1 .. n
  BY <1>2 DEF IsKind
<1>5. 1 .. n \subseteq 1 .. n + 1
  OBVIOUS
<1>q. QED BY <1>2, <1>3, <1>4, <1>5 DEF Last, Nowhere, Others

LEMMA NewestLast ==
    ASSUME NEW w \in Worlds, NEW v, NEW item, v.q = Append(w.q, item),
           NEW kind, NEW r, item.kind = kind, item.stream = r
    PROVE  Newest(v, item, kind, r)
<1>2. PICK n \in Nat : /\ DOMAIN w.q = 1 .. n /\ DOMAIN v.q = 1 .. n + 1
                       /\ \A i \in 1 .. n : v.q[i] = w.q[i]
                       /\ v.q[n + 1] = item
  BY AppendParts
<1>3. IsKind(v, n + 1, kind, r) /\ n + 1 \in DOMAIN v.q
  BY <1>2 DEF IsKind
<1>4. ASSUME NEW i, Last(v, i, kind, r) PROVE i = n + 1
  <2>1. i \in 1 .. n + 1 /\ ~(n + 1 > i)
    BY <1>2, <1>3, <1>4 DEF Last, IsKind
  <2>q. QED BY <2>1
<1>q. QED BY <1>2, <1>3, <1>4 DEF Nowhere, Newest

(* A selection: it follows the image the stream keeps, or the stream has lapsed. *)
LEMMA SelectGood ==
    ASSUME NEW w, NEW s \in Streams, NEW v, v = Select(w, s),
           Rest(w), NearlyOf(w, s), \A r \in Streams \ {s} : HeldOf(w, r)
    PROVE  /\ Good(v) /\ v.s.st = w.s.st /\ v.s.cache = w.s.cache /\ v.asked = w.asked
           /\ v.doubt = w.doubt /\ v.ans = w.ans /\ w.lapsed \subseteq v.lapsed
           /\ SameImages(w, v)
<1>1. w \in Worlds /\ Len(w.q) <= QueueCap
  BY DEF Rest
<1>2. PICK item : item = [kind |-> "select", stream |-> s, shape |-> w.s.st[s].slot]
  OBVIOUS
<1>3. /\ v \in Worlds
      /\ v.s.st = w.s.st /\ v.s.cache = w.s.cache /\ v.s.next = w.s.next
      /\ v.ans = w.ans /\ v.doubt = w.doubt /\ v.asked = w.asked /\ v.adrift = w.adrift
      /\ \A r \in Streams : r # s => v.s.selShape[r] = w.s.selShape[r]
      /\ \/ v.q = w.q /\ v.s.selShape = w.s.selShape /\ v.lapsed = w.lapsed
            /\ v.rc = 0
            /\ LET u == w.s.st[s] IN \/ u.slot = NoSlot
                                     \/ u.inflight /\ u.upShape = u.slot
                                     \/ w.s.selShape[s] = u.slot
         \/ v.q = w.q /\ v.s.selShape = w.s.selShape /\ v.lapsed = w.lapsed \cup {s} /\ v.rc = -1
         \/ /\ v.lapsed = w.lapsed /\ v.rc = 0 /\ w.s.st[s].slot # NoSlot /\ Len(w.q) # QueueCap
            /\ v.s.selShape[s] = w.s.st[s].slot
            /\ v.q = Append(w.q, item)
  BY <1>1, <1>2, SelectWorld
<1>4. v.q = w.q \/ (v.q = Append(w.q, item) /\ item \in Items /\ item.kind # "image" /\ Len(w.q) # QueueCap)
  <2>1. w.s.st[s].slot # NoSlot => item \in Items /\ item.kind # "image"
    BY <1>1, <1>2 DEF Worlds, Sources, Units, Spots, Items, Selects
  <2>q. QED BY <1>3, <2>1
<1>5. SameImages(w, v) /\ Len(v.q) <= QueueCap
  <2>1. CASE v.q = w.q
    BY <1>1, <2>1 DEF SameImages
  <2>2. CASE v.q # w.q
    <3>1. v.q = Append(w.q, item) /\ item \in Items /\ item.kind # "image" /\ Len(w.q) # QueueCap
      BY <1>4, <2>2
    <3>2. Len(v.q) = Len(w.q) + 1 /\ Len(w.q) \in Nat
      BY <1>1, <3>1 DEF Worlds
    <3>3. QueueCap \in Nat
      BY CursorAssumption
    <3>4. SameImages(w, v)
      BY <1>1, <1>3, <3>1, AppendSame
    <3>q. QED BY <1>1, <3>1, <3>2, <3>3, <3>4
  <2>q. QED BY <2>1, <2>2
<1>6. SameUploads(w, v) /\ SameRecords(w, v)
  BY <1>3 DEF SameUploads, SameFlights, SameRecords
<1>7. Shaped(v)
  BY <1>3 DEF Rest, Shaped
<1>8. Single(v) /\ Mirrored(v) /\ Unmoved(v)
  <2>f. SameFlights(w, v)
    BY <1>1, <1>3, <1>5, <1>6 DEF SameUploads
  <2>w. Rest(w)
    BY DEF Good, Rest
  <2>1. Single(v)
    BY <1>1, <1>3, <1>5, <1>6, <2>f, <2>w, SingleKept DEF Rest
  <2>2. Mirrored(v)
    BY <1>1, <1>3, <1>5, <1>6, <2>f, <2>w, MirroredKept DEF Rest
  <2>3. Unmoved(v)
    BY <1>1, <1>3, <1>5, <1>6, <2>w, UnmovedKept DEF Rest
  <2>q. QED BY <2>1, <2>2, <2>3
<1>9. Selected(v)
  <2> SUFFICES ASSUME Live, NEW r \in Streams, v.s.selShape[r] # NoSlot
               PROVE  /\ \A i \in DOMAIN v.q : Last(v, i, "select", r) => v.q[i].shape = v.s.selShape[r]
                      /\ Nowhere(v, "select", r) /\ r \notin misled => dev.sel[r] = v.s.selShape[r]
    BY DEF Selected
  <2>1. CASE v.q = w.q /\ v.s.selShape = w.s.selShape
    BY <2>1 DEF Rest, Selected, Last, Nowhere, IsKind
  <2>2. CASE v.q = Append(w.q, item) /\ item \in Items /\ v.s.selShape[s] = w.s.st[s].slot
    <3>1. CASE r = s
      <4>1. item.kind = "select" /\ item.stream = r /\ item.shape = v.s.selShape[r]
        BY <1>2, <2>2, <3>1
      <4>2. Newest(v, item, "select", r)
        BY <1>1, <2>2, <4>1, NewestLast
      <4>q. QED BY <4>1, <4>2 DEF Newest
    <3>2. CASE r # s
      <4>1. ~(item.kind = "select" /\ item.stream = r)
        BY <1>2, <3>2
      <4>2. v.s.selShape[r] = w.s.selShape[r]
        BY <1>3, <3>2
      <4>3. Others(w, v, "select", r)
        BY <1>1, <2>2, <4>1, OthersStay
      <4>q. QED BY <4>2, <4>3 DEF Rest, Selected, Others
    <3>q. QED BY <3>1, <3>2
  <2>q. QED BY <1>3, <1>4, <2>1, <2>2
<1>10. Stated(v)
  <2> SUFFICES ASSUME main.at # "closed", NEW r \in Streams \ v.adrift
               PROVE  LET u == v.s.st[r] IN
                      /\ \A i \in DOMAIN v.q : Last(v, i, "state", r) => v.q[i].at = u.at /\ v.q[i].shown = u.shown
                      /\ Nowhere(v, "state", r) => dev.state[r].at = u.at /\ dev.state[r].shown = u.shown
    BY DEF Stated
  <2>1. CASE v.q = w.q
    BY <1>3, <2>1 DEF Rest, Stated, Last, Nowhere, IsKind
  <2>2. CASE v.q = Append(w.q, item) /\ item \in Items
    <3>1. ~(item.kind = "state" /\ item.stream = r)
      BY <1>2
    <3>2. Others(w, v, "state", r)
      BY <1>1, <2>2, <3>1, OthersStay
    <3>q. QED BY <1>3, <3>2 DEF Rest, Stated, Others
  <2>q. QED BY <1>4, <2>1, <2>2
<1>11. Rest(v)
  BY <1>3, <1>5, <1>7, <1>8, <1>9, <1>10 DEF Rest
<1>12. ASSUME NEW r \in Streams PROVE HeldOf(v, r)
  <2>1. CASE r # s
    <3>1. HeldOf(w, r) /\ v.s.selShape[r] = w.s.selShape[r] /\ (Due(v, r) => Due(w, r))
      BY <1>3, <2>1 DEF Due
    <3>q. QED BY <1>3, <3>1 DEF HeldOf, Holds, Keeps, Ahead
  <2>2. CASE r = s
    <3>1. Due(v, s) => Due(w, s) /\ v.lapsed = w.lapsed
      BY <1>3 DEF Due
    <3>2. Ahead(w, s) => Ahead(v, s)
      BY <1>3 DEF Ahead
    <3>3. Due(v, s) /\ Keeps(w, s) => Holds(v, s)
      BY <1>3 DEF Due, Keeps, Holds
    <3>q. QED BY <2>2, <3>1, <3>2, <3>3 DEF HeldOf, NearlyOf
  <2>q. QED BY <2>1, <2>2
<1>13. w.lapsed \subseteq v.lapsed
  BY <1>3
<1>q. QED BY <1>3, <1>5, <1>11, <1>12, <1>13 DEF Good

MovedUnit(u, at, shown) == [u EXCEPT !.at = at, !.shown = shown]

(* The state of a stream is recorded and, if the queue has room, sent. *)
LEMMA SendStateEffect ==
    ASSUME NEW w \in Worlds, NEW s \in Streams, NEW at \in Places, NEW shown \in BOOLEAN,
           NEW v, v = SendState(Moved(w, s, at, shown), s)
    PROVE  LET item == [kind |-> "state", stream |-> s, at |-> at, shown |-> shown] IN
           /\ v \in Worlds /\ item \in Items
           /\ v.s.st = [w.s.st EXCEPT ![s] = MovedUnit(w.s.st[s], at, shown)]
           /\ v.s.cache = w.s.cache /\ v.s.selShape = w.s.selShape
           /\ v.ans = w.ans /\ v.doubt = w.doubt /\ v.asked = w.asked /\ v.lapsed = w.lapsed
           /\ \/ v.q = Append(w.q, item) /\ Len(w.q) # QueueCap /\ v.adrift = w.adrift \ {s}
              \/ v.q = w.q /\ v.adrift = w.adrift \cup {s}
<1>1. PICK u, x : u = w.s.st[s] /\ x = MovedUnit(u, at, shown)
  OBVIOUS
<1>2. PICK item : item = [kind |-> "state", stream |-> s, at |-> at, shown |-> shown]
  OBVIOUS
<1>3. u \in Units /\ w.s \in Sources
  BY <1>1 DEF Worlds, Sources
<1>4. x \in Units /\ x.at = at /\ x.shown = shown /\ item \in Items
  BY <1>1, <1>2, <1>3 DEF MovedUnit, Units, Items, States
<1>5. PICK src2 : src2 = [w.s EXCEPT !.st = [w.s.st EXCEPT ![s] = x]]
  OBVIOUS
<1>6. src2 \in Sources /\ src2.st = [w.s.st EXCEPT ![s] = x] /\ src2.cache = w.s.cache
      /\ src2.selShape = w.s.selShape /\ src2.st[s] = x
  BY <1>3, <1>4, <1>5 DEF Sources
<1>7. PICK y : y = Moved(w, s, at, shown)
  OBVIOUS
<1>8. y = [w EXCEPT !.s = src2]
  BY <1>1, <1>3, <1>5, <1>7 DEF Moved, MovedUnit, Worlds, Sources, Units
<1>9. y \in Worlds /\ y.s = src2 /\ y.q = w.q /\ y.ans = w.ans /\ y.doubt = w.doubt
      /\ y.asked = w.asked /\ y.lapsed = w.lapsed /\ y.adrift = w.adrift
  BY <1>6, <1>8 DEF Worlds
<1>10. PICK z : z = Submit(y, item)
  OBVIOUS
<1>11. /\ z \in Worlds
       /\ z.s = y.s /\ z.ans = y.ans /\ z.doubt = y.doubt /\ z.asked = y.asked
       /\ z.lapsed = y.lapsed /\ z.adrift = y.adrift
       /\ \/ z.rc = 0 /\ z.q = Append(y.q, item) /\ Len(y.q) # QueueCap
          \/ z.rc = -1 /\ z.q = y.q
  BY <1>4, <1>9, <1>10, SubmitEffect
<1>12. v = [z EXCEPT !.adrift = IF z.rc = 0 THEN z.adrift \ {s} ELSE z.adrift \cup {s}]
  <2>1. y.s.st[s] = x
    BY <1>6, <1>9
  <2>2. item = [kind |-> "state", stream |-> s, at |-> y.s.st[s].at, shown |-> y.s.st[s].shown]
    BY <1>2, <1>4, <2>1
  <2>q. QED BY <1>7, <1>10, <2>2 DEF SendState
<1>13. PICK a : a = IF z.rc = 0 THEN z.adrift \ {s} ELSE z.adrift \cup {s}
  OBVIOUS
<1>14. a \in SUBSET Streams
  BY <1>11, <1>13 DEF Worlds
<1>15. v \in Worlds /\ v.s = z.s /\ v.q = z.q /\ v.ans = z.ans /\ v.doubt = z.doubt
       /\ v.asked = z.asked /\ v.lapsed = z.lapsed /\ v.adrift = a
  BY <1>11, <1>12, <1>13, <1>14 DEF Worlds
<1>q. QED BY <1>1, <1>2, <1>4, <1>6, <1>9, <1>11, <1>13, <1>15

LEMMA SendStateGood ==
    ASSUME NEW w, NEW s \in Streams, NEW at \in Places, NEW shown \in BOOLEAN, ~shown => at = 0,
           NEW v, v = SendState(Moved(w, s, at, shown), s), Good(w)
    PROVE  /\ Good(v) /\ SameUploads(w, v) /\ SameRecords(w, v) /\ v.asked = w.asked
           /\ w.lapsed \subseteq v.lapsed /\ SameImages(w, v)
<1>1. w \in Worlds /\ Len(w.q) <= QueueCap
  BY DEF Good, Rest
<1>2. PICK item : item = [kind |-> "state", stream |-> s, at |-> at, shown |-> shown]
  OBVIOUS
<1>3. PICK x : x = MovedUnit(w.s.st[s], at, shown)
  OBVIOUS
<1>4. /\ v \in Worlds /\ item \in Items
      /\ v.s.st = [w.s.st EXCEPT ![s] = x]
      /\ v.s.cache = w.s.cache /\ v.s.selShape = w.s.selShape
      /\ v.ans = w.ans /\ v.doubt = w.doubt /\ v.asked = w.asked /\ v.lapsed = w.lapsed
      /\ \/ v.q = Append(w.q, item) /\ Len(w.q) # QueueCap /\ v.adrift = w.adrift \ {s}
         \/ v.q = w.q /\ v.adrift = w.adrift \cup {s}
  BY <1>1, <1>2, <1>3, SendStateEffect
<1>5. v.s.st[s] = x /\ \A r \in Streams : r # s => v.s.st[r] = w.s.st[r]
  <2>1. w.s.st \in [Streams -> Units]
    BY <1>1 DEF Worlds, Sources
  <2>q. QED BY <1>4, <2>1
<1>6. /\ x.slot = w.s.st[s].slot /\ x.upShape = w.s.st[s].upShape /\ x.inflight = w.s.st[s].inflight
      /\ x.txDone = w.s.st[s].txDone /\ x.seen = w.s.st[s].seen /\ x.result = w.s.st[s].result
      /\ x.packet = w.s.st[s].packet /\ x.at = at /\ x.shown = shown
  <2>1. w.s.st[s] \in Units
    BY <1>1 DEF Worlds, Sources
  <2>q. QED BY <1>3, <2>1 DEF MovedUnit, Units
<1>7. SameUploads(w, v) /\ SameRecords(w, v)
  BY <1>4, <1>5, <1>6 DEF SameUploads, SameFlights, SameRecords
<1>8. SameImages(w, v) /\ Len(v.q) <= QueueCap
  <2>1. item.kind # "image" /\ QueueCap \in Nat
    BY <1>2, CursorAssumption
  <2>2. SameImages(w, v)
    BY <1>1, <1>4, <2>1, AppendSame
  <2>3. v.q = Append(w.q, item) => Len(v.q) = Len(w.q) + 1 /\ Len(w.q) \in Nat
    BY <1>1, <1>4 DEF Worlds
  <2>q. QED BY <1>1, <1>4, <2>1, <2>2, <2>3
<1>9. Shaped(v)
  <2>1. Shaped(w)
    BY DEF Good, Rest
  <2>q. QED BY <1>5, <1>6, <2>1 DEF Shaped
<1>10. Single(v) /\ Mirrored(v) /\ Unmoved(v)
  <2>f. SameFlights(w, v)
    BY <1>1, <1>4, <1>7, <1>8 DEF SameUploads
  <2>w. Rest(w)
    BY DEF Good, Rest
  <2>1. Single(v)
    BY <1>1, <1>4, <1>7, <1>8, <2>f, <2>w, SingleKept DEF Rest
  <2>2. Mirrored(v)
    BY <1>1, <1>4, <1>7, <1>8, <2>f, <2>w, MirroredKept DEF Rest
  <2>3. Unmoved(v)
    BY <1>1, <1>4, <1>7, <1>8, <2>w, UnmovedKept DEF Rest
  <2>q. QED BY <2>1, <2>2, <2>3
<1>11. Selected(v)
  <2> SUFFICES ASSUME Live, NEW r \in Streams, v.s.selShape[r] # NoSlot
               PROVE  /\ \A i \in DOMAIN v.q : Last(v, i, "select", r) => v.q[i].shape = v.s.selShape[r]
                      /\ Nowhere(v, "select", r) /\ r \notin misled => dev.sel[r] = v.s.selShape[r]
    BY DEF Selected
  <2>0. Selected(w)
    BY DEF Good, Rest
  <2>1. CASE v.q = w.q
    BY <1>4, <2>0, <2>1 DEF Selected, Last, Nowhere, IsKind
  <2>2. CASE v.q = Append(w.q, item)
    <3>1. ~(item.kind = "select" /\ item.stream = r)
      BY <1>2
    <3>2. Others(w, v, "select", r)
      BY <1>1, <2>2, <3>1, OthersStay
    <3>q. QED BY <1>4, <2>0, <3>2 DEF Selected, Others
  <2>q. QED BY <1>4, <2>1, <2>2
<1>12. Stated(v)
  <2> SUFFICES ASSUME main.at # "closed", NEW r \in Streams \ v.adrift
               PROVE  LET u == v.s.st[r] IN
                      /\ \A i \in DOMAIN v.q : Last(v, i, "state", r) => v.q[i].at = u.at /\ v.q[i].shown = u.shown
                      /\ Nowhere(v, "state", r) => dev.state[r].at = u.at /\ dev.state[r].shown = u.shown
    BY DEF Stated
  <2>0. Stated(w)
    BY DEF Good, Rest
  <2>1. CASE v.q = w.q /\ v.adrift = w.adrift \cup {s}
    <3>1. r # s /\ v.s.st[r] = w.s.st[r] /\ r \in Streams \ w.adrift
      BY <1>5, <2>1
    <3>q. QED BY <2>0, <2>1, <3>1 DEF Stated, Last, Nowhere, IsKind
  <2>2. CASE v.q = Append(w.q, item) /\ v.adrift = w.adrift \ {s}
    <3>1. CASE r = s
      <4>1. item.kind = "state" /\ item.stream = r /\ item.at = at /\ item.shown = shown
        BY <1>2, <3>1
      <4>2. Newest(v, item, "state", r)
        BY <1>1, <2>2, <4>1, NewestLast
      <4>q. QED BY <1>5, <1>6, <3>1, <4>1, <4>2 DEF Newest
    <3>2. CASE r # s
      <4>1. ~(item.kind = "state" /\ item.stream = r)
        BY <1>2, <3>2
      <4>2. Others(w, v, "state", r)
        BY <1>1, <2>2, <4>1, OthersStay
      <4>3. v.s.st[r] = w.s.st[r] /\ r \in Streams \ w.adrift
        BY <1>5, <2>2, <3>2
      <4>q. QED BY <2>0, <4>2, <4>3 DEF Stated, Others
    <3>q. QED BY <3>1, <3>2
  <2>q. QED BY <1>4, <2>1, <2>2
<1>13. ASSUME NEW r \in Streams PROVE HeldOf(v, r)
  <2>1. HeldOf(w, r) /\ v.s.st[r].slot = w.s.st[r].slot /\ v.s.st[r].inflight = w.s.st[r].inflight
        /\ v.s.st[r].upShape = w.s.st[r].upShape
    BY <1>7 DEF Good, SameUploads, SameFlights
  <2>2. Due(v, r) <=> Due(w, r)
    BY <1>4 DEF Due
  <2>3. Ahead(w, r) => Ahead(v, r)
    BY <1>4, <2>1 DEF Ahead
  <2>4. Holds(w, r) => Holds(v, r)
    BY <1>4, <2>1 DEF Holds, Keeps
  <2>q. QED BY <2>1, <2>2, <2>3, <2>4 DEF HeldOf
<1>q. QED BY <1>4, <1>7, <1>8, <1>9, <1>10, <1>11, <1>12, <1>13 DEF Good, Rest

(* The parts are about the records, the queue, the answers, doubt and adrift. *)
LEMMA RestSame ==
    ASSUME NEW w, NEW v \in Worlds, Rest(w),
           v.s = w.s, v.q = w.q, v.ans = w.ans, v.doubt = w.doubt, v.adrift = w.adrift
    PROVE  Rest(v)
<1>1. w \in Worlds
  BY DEF Rest
<1>2. SameImages(w, v) /\ SameUploads(w, v) /\ SameRecords(w, v) /\ SameFlights(w, v)
  BY DEF SameImages, SameUploads, SameFlights, SameRecords
<1>3. Single(v)
  BY <1>2, SingleKept DEF Rest
<1>4. Mirrored(v)
  BY <1>1, <1>2, MirroredKept DEF Rest
<1>5. Unmoved(v)
  BY <1>2, UnmovedKept DEF Rest
<1>6. Shaped(v) /\ Len(v.q) <= QueueCap
  BY DEF Rest, Shaped
<1>7. Selected(v)
  BY DEF Rest, Selected, Last, Nowhere, IsKind
<1>8. Stated(v)
  BY DEF Rest, Stated, Last, Nowhere, IsKind
<1>q. QED BY <1>3, <1>4, <1>5, <1>6, <1>7, <1>8 DEF Rest

LEMMA RcAside ==
    ASSUME NEW w, NEW v, Good(w), v = [w EXCEPT !.rc = 0]
    PROVE  /\ Good(v) /\ v.s = w.s /\ v.q = w.q /\ v.ans = w.ans /\ v.doubt = w.doubt
           /\ v.asked = w.asked /\ v.lapsed = w.lapsed /\ v.adrift = w.adrift /\ v.rc = 0
<1>1. w \in Worlds /\ Rest(w)
  BY DEF Good, Rest
<1>2. /\ v \in Worlds /\ v.s = w.s /\ v.q = w.q /\ v.ans = w.ans /\ v.doubt = w.doubt
      /\ v.asked = w.asked /\ v.lapsed = w.lapsed /\ v.adrift = w.adrift /\ v.rc = 0
  BY <1>1 DEF Worlds
<1>3. Rest(v)
  BY <1>1, <1>2, RestSame
<1>4. \A r \in Streams : HeldOf(v, r)
  BY <1>2 DEF Good, HeldOf, Due, Holds, Keeps, Ahead
<1>q. QED BY <1>2, <1>3, <1>4 DEF Good

(* Showing, moving or hiding the cursor. *)
Stating(w, v) == /\ Good(v) /\ SameUploads(w, v) /\ SameRecords(w, v) /\ v.asked = w.asked
                 /\ w.lapsed \subseteq v.lapsed /\ SameImages(w, v)

LEMMA SubmitStateGood ==
    ASSUME NEW w, NEW s \in Streams, NEW at \in Places, NEW shown \in BOOLEAN, ~shown => at = 0,
           NEW force \in BOOLEAN, NEW v, v = SubmitState(w, s, at, shown, force), Good(w)
    PROVE  Stating(w, v)
<1>1. PICK x : x = IF shown THEN Select(w, s) ELSE Fine(w)
  OBVIOUS
<1>2. /\ Good(x) /\ SameUploads(w, x) /\ x.s.cache = w.s.cache /\ x.asked = w.asked
      /\ x.doubt = w.doubt /\ w.lapsed \subseteq x.lapsed /\ x.ans = w.ans /\ SameImages(w, x)
  <2>1. CASE shown
    <3>1. x = Select(w, s)
      BY <1>1, <2>1
    <3>2. NearlyOf(w, s) /\ Rest(w) /\ \A r \in Streams \ {s} : HeldOf(w, r)
      BY DEF Good, HeldOf, NearlyOf, Holds
    <3>3. /\ Good(x) /\ x.s.st = w.s.st /\ x.s.cache = w.s.cache /\ x.asked = w.asked
          /\ x.doubt = w.doubt /\ x.ans = w.ans /\ w.lapsed \subseteq x.lapsed
          /\ SameImages(w, x)
      BY <3>1, <3>2, SelectGood
    <3>q. QED BY <3>3 DEF SameUploads, SameFlights
  <2>2. CASE ~shown
    <3>1. x = [w EXCEPT !.rc = 0]
      BY <1>1, <2>2 DEF Fine
    <3>q. QED BY <3>1, RcAside DEF SameUploads, SameFlights, SameImages
  <2>q. QED BY <2>1, <2>2
<1>3. v = x \/ v = SendState(Moved(x, s, at, shown), s)
  BY <1>1 DEF SubmitState
<1>4. CASE v = x
  BY <1>2, <1>4 DEF SameRecords, Stating
<1>5. CASE v = SendState(Moved(x, s, at, shown), s)
  <2>1. /\ Good(v) /\ SameUploads(x, v) /\ SameRecords(x, v) /\ v.asked = x.asked
        /\ x.lapsed \subseteq v.lapsed /\ SameImages(x, v)
    BY <1>2, <1>5, SendStateGood
  <2>2. SameImages(w, v)
    BY <1>2, <2>1 DEF SameImages
  <2>q. QED BY <1>2, <2>1, <2>2 DEF SameUploads, SameFlights, SameRecords, Stating
<1>q. QED BY <1>3, <1>4, <1>5
-----------------------------------------------------------------------------
(* The end of an upload. *)
Released(u) == [u EXCEPT !.inflight = FALSE, !.txDone = FALSE, !.upShape = NoSlot,
                         !.result = None, !.seen = NoAnswer, !.late = FALSE]

(* What is queued, or answered, of stream s is of an upload that is over. *)
AgedItems(w, v, s) ==
    /\ DOMAIN v.q = DOMAIN w.q /\ Len(v.q) = Len(w.q)
    /\ \A i \in DOMAIN w.q : IF w.q[i].kind = "image" /\ w.q[i].stream = s
                             THEN v.q[i] = [kind |-> "image", stream |-> s, old |-> TRUE]
                             ELSE v.q[i] = w.q[i]
AgedAnswers(w, v, s) ==
    /\ DOMAIN v.ans = DOMAIN w.ans
    /\ \A n \in DOMAIN w.ans : IF w.ans[n].of = s
                               THEN v.ans[n].of = s /\ v.ans[n].old
                               ELSE v.ans[n] = w.ans[n]
Aged(w, v, s) == AgedItems(w, v, s) /\ AgedAnswers(w, v, s)

Ended1(w, v, s) ==
    /\ v.s.st[s] = Released(w.s.st[s]) /\ \A r \in Streams : r # s => v.s.st[r] = w.s.st[r]
    /\ v.s.selShape = w.s.selShape /\ v.asked = w.asked /\ v.adrift = w.adrift
    /\ Aged(w, v, s)

LEMMA ReleasedUnit ==
    ASSUME NEW u \in Units
    PROVE  /\ Released(u) \in Units
           /\ ~Released(u).inflight /\ ~Released(u).txDone /\ Released(u).upShape = NoSlot
           /\ Released(u).seen = NoAnswer
           /\ Released(u).slot = u.slot /\ Released(u).packet = u.packet
           /\ Released(u).at = u.at /\ Released(u).shown = u.shown
BY DEF Released, Units, Spots, Answers, NoAnswer

LEMMA ListOf ==
    ASSUME NEW S, NEW n \in Nat, NEW f \in [1 .. n -> S]
    PROVE  f \in Seq(S) /\ Len(f) = n /\ DOMAIN f = 1 .. n
<1>1. f \in Seq(S)
  BY SeqDef
<1>q. QED BY <1>1

LEMMA OlderItem ==
    ASSUME NEW x \in Items, x.kind = "image"
    PROVE  /\ [x EXCEPT !.old = TRUE] = [kind |-> "image", stream |-> x.stream, old |-> TRUE]
           /\ [x EXCEPT !.old = TRUE] \in Items
<1>1. x \in Uploads
  BY DEF Items, Uploads, Selects, States
<1>2. [x EXCEPT !.old = TRUE] = [kind |-> "image", stream |-> x.stream, old |-> TRUE]
  <2>1. PICK y : y = [x EXCEPT !.old = TRUE]
    OBVIOUS
  <2>2. y \in Uploads /\ y.old = TRUE /\ y.stream = x.stream
    BY <1>1, <2>1 DEF Uploads
  <2>3. y = [kind |-> "image", stream |-> x.stream, old |-> TRUE]
    BY <2>2 DEF Uploads
  <2>q. QED BY <2>1, <2>3
<1>3. [kind |-> "image", stream |-> x.stream, old |-> TRUE] \in Uploads
  BY <1>1 DEF Uploads
<1>q. QED BY <1>2, <1>3 DEF Items

LEMMA OlderAnswer ==
    ASSUME NEW a \in Answers
    PROVE  [a EXCEPT !.old = TRUE] \in Answers /\ [a EXCEPT !.old = TRUE].of = a.of
           /\ [a EXCEPT !.old = TRUE].old
BY DEF Answers

LEMMA GiveUpEffect ==
    ASSUME NEW w \in Worlds, NEW s \in Streams, NEW v, v = GiveUp(w, s)
    PROVE  /\ v \in Worlds /\ Ended1(w, v, s) /\ v.s.cache = w.s.cache
           /\ v.doubt = w.doubt /\ v.lapsed = w.lapsed /\ v.rc = w.rc
<1>1. PICK q : q = [i \in DOMAIN w.q |-> IF w.q[i].stream = s /\ w.q[i].kind = "image"
                                         THEN [w.q[i] EXCEPT !.old = TRUE] ELSE w.q[i]]
  OBVIOUS
<1>2. PICK a : a = [n \in DOMAIN w.ans |-> IF w.ans[n].of = s
                                           THEN [w.ans[n] EXCEPT !.old = TRUE] ELSE w.ans[n]]
  OBVIOUS
<1>3. w.q \in Seq(Items) /\ w.ans \in Seq(Answers) /\ w.s \in Sources /\ w.s.st \in [Streams -> Units]
  BY DEF Worlds, Sources
<1>4. /\ \A i \in DOMAIN w.q : w.q[i] \in Items
      /\ \A n \in DOMAIN w.ans : w.ans[n] \in Answers
  BY <1>3
<1>a. PICK l, m : l = Len(w.q) /\ m = Len(w.ans)
  OBVIOUS
<1>b. l \in Nat /\ m \in Nat /\ DOMAIN w.q = 1 .. l /\ DOMAIN w.ans = 1 .. m
  BY <1>3, <1>a
<1>5. q \in Seq(Items) /\ Len(q) = Len(w.q) /\ DOMAIN q = DOMAIN w.q
  <2>1. ASSUME NEW i \in DOMAIN w.q PROVE q[i] \in Items
    <3>1. w.q[i].kind = "image" => [w.q[i] EXCEPT !.old = TRUE] \in Items
      BY <1>4, OlderItem
    <3>q. QED BY <1>1, <1>4, <3>1
  <2>2. q \in [1 .. l -> Items]
    BY <1>1, <1>b, <2>1
  <2>q. QED BY <1>a, <1>b, <2>2, ListOf
<1>6. a \in Seq(Answers) /\ DOMAIN a = DOMAIN w.ans
  <2>1. ASSUME NEW n \in DOMAIN w.ans PROVE a[n] \in Answers
    <3>1. [w.ans[n] EXCEPT !.old = TRUE] \in Answers
      BY <1>4, OlderAnswer
    <3>q. QED BY <1>2, <1>4, <3>1
  <2>2. a \in [1 .. m -> Answers]
    BY <1>2, <1>b, <2>1
  <2>q. QED BY <1>b, <2>2, ListOf
<1>7. PICK x : x = Released(w.s.st[s])
  OBVIOUS
<1>8. x \in Units
  BY <1>3, <1>7, ReleasedUnit
<1>9. PICK src2 : src2 = [w.s EXCEPT !.st = [w.s.st EXCEPT ![s] = x]]
  OBVIOUS
<1>10. src2 \in Sources /\ src2.st[s] = x /\ src2.cache = w.s.cache /\ src2.selShape = w.s.selShape
       /\ \A r \in Streams : r # s => src2.st[r] = w.s.st[r]
  BY <1>3, <1>8, <1>9 DEF Sources
<1>11. v = [w EXCEPT !.s = src2, !.q = q, !.ans = a]
  <2>1. PICK y : y = Outdated(w, s)
    OBVIOUS
  <2>2. y = [w EXCEPT !.q = q, !.ans = a]
    BY <1>1, <1>2, <2>1 DEF Outdated
  <2>3. y \in Worlds /\ y.s = w.s
    BY <1>5, <1>6, <2>2 DEF Worlds
  <2>4. v = [y EXCEPT !.s.st[s] = Released(@)]
    BY <2>1 DEF GiveUp, Released
  <2>5. v = [y EXCEPT !.s = src2]
    BY <1>7, <1>9, <2>3, <2>4 DEF Worlds, Sources
  <2>q. QED BY <2>2, <2>5 DEF Worlds
<1>12. /\ v \in Worlds /\ v.s = src2 /\ v.q = q /\ v.ans = a /\ v.doubt = w.doubt /\ v.asked = w.asked
       /\ v.lapsed = w.lapsed /\ v.adrift = w.adrift /\ v.rc = w.rc
  BY <1>5, <1>6, <1>10, <1>11 DEF Worlds
<1>13. AgedItems(w, v, s)
  <2>1. ASSUME NEW i \in DOMAIN w.q
        PROVE  IF w.q[i].kind = "image" /\ w.q[i].stream = s
               THEN q[i] = [kind |-> "image", stream |-> s, old |-> TRUE]
               ELSE q[i] = w.q[i]
    <3>1. CASE w.q[i].kind = "image" /\ w.q[i].stream = s
      <4>1. q[i] = [w.q[i] EXCEPT !.old = TRUE]
        BY <1>1, <3>1
      <4>2. q[i] = [kind |-> "image", stream |-> w.q[i].stream, old |-> TRUE]
        BY <1>4, <3>1, <4>1, OlderItem
      <4>q. QED BY <3>1, <4>2
    <3>2. CASE ~(w.q[i].kind = "image" /\ w.q[i].stream = s)
      BY <1>1, <3>2
    <3>q. QED BY <3>1, <3>2
  <2>q. QED BY <1>5, <1>12, <2>1 DEF AgedItems
<1>14. AgedAnswers(w, v, s)
  <2>1. ASSUME NEW n \in DOMAIN w.ans
        PROVE  IF w.ans[n].of = s THEN a[n].of = s /\ a[n].old ELSE a[n] = w.ans[n]
    <3>1. CASE w.ans[n].of = s
      <4>1. a[n] = [w.ans[n] EXCEPT !.old = TRUE]
        BY <1>2, <3>1
      <4>2. a[n].of = w.ans[n].of /\ a[n].old
        BY <1>4, <4>1, OlderAnswer
      <4>q. QED BY <3>1, <4>2
    <3>2. CASE w.ans[n].of # s
      BY <1>2, <3>2
    <3>q. QED BY <3>1, <3>2
  <2>q. QED BY <1>6, <1>12, <2>1 DEF AgedAnswers
<1>q. QED BY <1>7, <1>10, <1>12, <1>13, <1>14 DEF Ended1, Aged

(* What this does to the queue of every stream. *)
LEMMA AgedQueue ==
    ASSUME NEW w \in Worlds, NEW v, NEW s \in Streams, AgedItems(w, v, s)
    PROVE  /\ \A i, r : IsImage(v, i, r) <=> IsImage(w, i, r)
           /\ \A i, r : Current(v, i, r) <=> Current(w, i, r) /\ r # s
           /\ \A i \in DOMAIN w.q : v.q[i].kind = w.q[i].kind /\ v.q[i].stream = w.q[i].stream
           /\ \A i \in DOMAIN w.q : w.q[i].kind # "image" => v.q[i] = w.q[i]
<1>1. DOMAIN v.q = DOMAIN w.q
  BY DEF AgedItems
<1>2. \A i \in DOMAIN w.q : /\ v.q[i].kind = w.q[i].kind /\ v.q[i].stream = w.q[i].stream
                            /\ w.q[i].kind # "image" \/ w.q[i].stream # s => v.q[i] = w.q[i]
                            /\ w.q[i].kind = "image" /\ w.q[i].stream = s => v.q[i].old
  BY DEF AgedItems
<1>q. QED BY <1>1, <1>2 DEF IsImage, Current

LEMMA EndedShaped ==
    ASSUME NEW w \in Worlds, NEW v \in Worlds, NEW s \in Streams, Ended1(w, v, s), Shaped(w)
    PROVE  Shaped(v)
<1>1. w.s.st[s] \in Units
  BY DEF Worlds, Sources
<1>2. PICK x : x = Released(w.s.st[s])
  OBVIOUS
<1>3. ~x.inflight /\ ~x.txDone /\ x.upShape = NoSlot /\ x.seen = NoAnswer
      /\ x.at = w.s.st[s].at /\ x.shown = w.s.st[s].shown
  BY <1>1, <1>2, ReleasedUnit
<1>4. v.s.st[s] = x /\ \A r \in Streams : r # s => v.s.st[r] = w.s.st[r]
  BY <1>2 DEF Ended1
<1>q. QED BY <1>3, <1>4 DEF Shaped

LEMMA EndedSingle ==
    ASSUME NEW w \in Worlds, NEW v \in Worlds, NEW s \in Streams, Ended1(w, v, s), Single(w)
    PROVE  Single(v)
<1>1. \A i, r : Current(v, i, r) <=> Current(w, i, r) /\ r # s
  BY AgedQueue DEF Ended1, Aged
<1>2. /\ DOMAIN v.ans = DOMAIN w.ans
      /\ \A n \in DOMAIN w.ans : \A r \in Streams : Own(v.ans[n], r) => r # s /\ Own(w.ans[n], r)
  BY DEF Ended1, Aged, AgedAnswers, Own
<1>3. DOMAIN v.q = DOMAIN w.q
  BY DEF Ended1, Aged, AgedItems
<1>4. \A r \in Streams : r # s => v.s.st[r] = w.s.st[r]
  BY DEF Ended1
<1>5. ASSUME NEW r \in Streams, r # s
      PROVE  LET u == v.s.st[r] IN
             /\ \A i \in DOMAIN v.q : Current(v, i, r) =>
                   /\ u.inflight /\ ~Own(u.seen, r)
                   /\ \A n \in DOMAIN v.ans : ~Own(v.ans[n], r)
                   /\ \A j \in DOMAIN v.q : Current(v, j, r) => j = i
             /\ \A n \in DOMAIN v.ans : Own(v.ans[n], r) => u.inflight
  BY <1>1, <1>2, <1>3, <1>4, <1>5 DEF Single
<1>6. /\ \A i \in DOMAIN v.q : ~Current(v, i, s)
      /\ \A n \in DOMAIN v.ans : ~Own(v.ans[n], s)
  BY <1>1, <1>2
<1>q. QED BY <1>5, <1>6 DEF Single

LEMMA EndedSelected ==
    ASSUME NEW w \in Worlds, NEW v \in Worlds, NEW s \in Streams, Ended1(w, v, s), Selected(w)
    PROVE  Selected(v)
<1>1. /\ DOMAIN v.q = DOMAIN w.q /\ v.s.selShape = w.s.selShape
      /\ \A i \in DOMAIN w.q : v.q[i].kind = w.q[i].kind /\ v.q[i].stream = w.q[i].stream
      /\ \A i \in DOMAIN w.q : w.q[i].kind # "image" => v.q[i] = w.q[i]
  BY AgedQueue DEF Ended1, Aged, AgedItems
<1>2. \A i, r : IsKind(v, i, "select", r) <=> IsKind(w, i, "select", r)
  BY <1>1 DEF IsKind
<1>3. /\ \A i, r : Last(v, i, "select", r) <=> Last(w, i, "select", r)
      /\ \A r : Nowhere(v, "select", r) <=> Nowhere(w, "select", r)
  BY <1>1, <1>2 DEF Last, Nowhere
<1>4. \A i, r : Last(w, i, "select", r) => v.q[i] = w.q[i]
  BY <1>1 DEF Last, IsKind
<1>q. QED BY <1>1, <1>3, <1>4 DEF Selected

LEMMA EndedStated ==
    ASSUME NEW w \in Worlds, NEW v \in Worlds, NEW s \in Streams, Ended1(w, v, s), Stated(w)
    PROVE  Stated(v)
<1>1. /\ DOMAIN v.q = DOMAIN w.q /\ v.adrift = w.adrift
      /\ \A i \in DOMAIN w.q : v.q[i].kind = w.q[i].kind /\ v.q[i].stream = w.q[i].stream
      /\ \A i \in DOMAIN w.q : w.q[i].kind # "image" => v.q[i] = w.q[i]
  BY AgedQueue DEF Ended1, Aged, AgedItems
<1>2. \A i, r : IsKind(v, i, "state", r) <=> IsKind(w, i, "state", r)
  BY <1>1 DEF IsKind
<1>3. /\ \A i, r : Last(v, i, "state", r) <=> Last(w, i, "state", r)
      /\ \A r : Nowhere(v, "state", r) <=> Nowhere(w, "state", r)
  BY <1>1, <1>2 DEF Last, Nowhere
<1>4. \A i, r : Last(w, i, "state", r) => v.q[i] = w.q[i]
  BY <1>1 DEF Last, IsKind
<1>5. \A r \in Streams : v.s.st[r].at = w.s.st[r].at /\ v.s.st[r].shown = w.s.st[r].shown
  <2>1. w.s.st[s] \in Units
    BY DEF Worlds, Sources
  <2>q. QED BY <2>1, ReleasedUnit DEF Ended1
<1>q. QED BY <1>1, <1>3, <1>4, <1>5 DEF Stated

(* Nothing of s is queued, unless a replay has overtaken it. *)
Free(w, s) == \A i \in DOMAIN w.q : IsImage(w, i, s) => s \in overtaken

LEMMA EndedUnmoved ==
    ASSUME NEW w \in Worlds, NEW v \in Worlds, NEW s \in Streams, Ended1(w, v, s), Unmoved(w), Free(w, s)
    PROVE  Unmoved(v)
<1>1. \A i, r : IsImage(v, i, r) <=> IsImage(w, i, r)
  BY AgedQueue DEF Ended1, Aged
<1>2. DOMAIN v.q = DOMAIN w.q
  BY DEF Ended1, Aged, AgedItems
<1>3. \A r \in Streams : r # s => v.s.st[r] = w.s.st[r]
  BY DEF Ended1
<1>q. QED BY <1>1, <1>2, <1>3 DEF Unmoved, Free

(* Another slot, and another stream's upload, are as before. *)
LEMMA EndedOthers ==
    ASSUME NEW w \in Worlds, NEW v \in Worlds, NEW s \in Streams, Ended1(w, v, s),
           NEW k, v.s.cache[k] = w.s.cache[k]
    PROVE  /\ There(w, k) => There(v, k)
           /\ \A r \in Streams : r # s /\ Coming(w, k, r) => Coming(v, k, r)
<1>1. /\ \A i, r : Current(v, i, r) <=> Current(w, i, r) /\ r # s
      /\ \A i \in DOMAIN w.q : v.q[i].kind = w.q[i].kind /\ v.q[i].stream = w.q[i].stream
  BY AgedQueue DEF Ended1, Aged
<1>2. DOMAIN v.q = DOMAIN w.q
  BY DEF Ended1, Aged, AgedItems
<1>3. \A r \in Streams : v.s.st[r].packet = w.s.st[r].packet /\ (r # s => v.s.st[r] = w.s.st[r])
  <2>1. w.s.st[s] \in Units
    BY DEF Worlds, Sources
  <2>q. QED BY <2>1, ReleasedUnit DEF Ended1
<1>4. \A i \in DOMAIN w.q : w.q[i].stream \in Streams
  BY DEF Worlds, Items, Uploads, Selects, States
<1>5. \A i : Clean(w, k, i) => Clean(v, k, i)
  <2> SUFFICES ASSUME NEW i, Clean(w, k, i), NEW j \in DOMAIN v.q, j > i, v.q[j].kind = "image",
                      v.s.st[v.q[j].stream].packet.shape = k
               PROVE  v.s.st[v.q[j].stream].packet.img = v.s.cache[k]
    BY DEF Clean
  <2>1. PICK r : r = w.q[j].stream
    OBVIOUS
  <2>2. j \in DOMAIN w.q /\ v.q[j].stream = r /\ w.q[j].kind = "image" /\ r \in Streams
    BY <1>1, <1>2, <1>4, <2>1
  <2>3. v.s.st[r].packet = w.s.st[r].packet
    BY <1>3, <2>2
  <2>q. QED BY <2>1, <2>2, <2>3 DEF Clean
<1>6. ASSUME NEW r \in Streams, r # s, Coming(w, k, r) PROVE Coming(v, k, r)
  <2>1. v.s.st[r] = w.s.st[r]
    BY <1>3, <1>6
  <2>2. Taken(v, r) => Taken(w, r)
    <3>1. /\ DOMAIN v.ans = DOMAIN w.ans
          /\ \A n \in DOMAIN w.ans : Own(v.ans[n], r) => v.ans[n] = w.ans[n]
      BY <1>6 DEF Ended1, Aged, AgedAnswers, Own
    <3>q. QED BY <2>1, <3>1 DEF Taken
  <2>3. CASE \E i \in DOMAIN w.q : Current(w, i, r) /\ Clean(w, k, i)
    BY <1>1, <1>2, <1>5, <1>6, <2>1, <2>3 DEF Coming
  <2>4. CASE (\A i \in DOMAIN w.q : ~Current(w, i, r)) /\ ~Taken(w, r)
    BY <1>1, <1>2, <1>6, <2>1, <2>2, <2>4 DEF Coming
  <2>q. QED BY <1>6, <2>3, <2>4 DEF Coming
<1>q. QED BY <1>5, <1>6 DEF There

LEMMA EndedMirrored ==
    ASSUME NEW w \in Worlds, NEW v \in Worlds, NEW s \in Streams, Ended1(w, v, s), Mirrored(w),
           \A k \in Slots \ v.doubt : v.s.cache[k] # None =>
              v.s.cache[k] = w.s.cache[k] /\ k \notin w.doubt /\ ~Coming(w, k, s)
    PROVE  Mirrored(v)
<1> SUFFICES ASSUME Live, NEW k \in Slots \ v.doubt, v.s.cache[k] # None
             PROVE  There(v, k) \/ (\E r \in Streams : Coming(v, k, r))
  BY DEF Mirrored
<1>1. v.s.cache[k] = w.s.cache[k] /\ k \in Slots \ w.doubt /\ ~Coming(w, k, s)
  OBVIOUS
<1>2. There(w, k) \/ (\E r \in Streams : Coming(w, k, r))
  BY <1>1 DEF Mirrored
<1>3. /\ There(w, k) => There(v, k)
      /\ \A r \in Streams : r # s /\ Coming(w, k, r) => Coming(v, k, r)
  BY <1>1, EndedOthers
<1>q. QED BY <1>1, <1>2, <1>3

LEMMA EndedRest ==
    ASSUME NEW w, NEW v \in Worlds, NEW s \in Streams, Rest(w), Ended1(w, v, s), Free(w, s),
           \A k \in Slots \ v.doubt : v.s.cache[k] # None =>
              v.s.cache[k] = w.s.cache[k] /\ k \notin w.doubt /\ ~Coming(w, k, s)
    PROVE  Rest(v)
<1>1. w \in Worlds /\ Len(w.q) <= QueueCap /\ Shaped(w) /\ Single(w) /\ Mirrored(w) /\ Selected(w)
      /\ Stated(w) /\ Unmoved(w)
  BY DEF Rest
<1>2. Len(v.q) <= QueueCap
  BY <1>1 DEF Ended1, Aged, AgedItems
<1>3. Shaped(v) /\ Single(v)
  BY <1>1, EndedShaped, EndedSingle
<1>4. Selected(v) /\ Stated(v)
  BY <1>1, EndedSelected, EndedStated
<1>5. Unmoved(v)
  BY <1>1, EndedUnmoved
<1>6. Mirrored(v)
  BY <1>1, EndedMirrored
<1>q. QED BY <1>2, <1>3, <1>4, <1>5, <1>6 DEF Rest

Lasting(w, v, s) ==
    /\ \A r \in Streams : v.s.st[r].slot = w.s.st[r].slot /\ v.s.st[r].packet = w.s.st[r].packet
    /\ \A r \in Streams : r # s => v.s.st[r] = w.s.st[r]
    /\ ~v.s.st[s].inflight
    /\ v.s.selShape = w.s.selShape /\ v.asked = w.asked
    /\ \A r \in Streams : Ahead(w, r) => Ahead(v, r)
    /\ \A i, r : IsImage(v, i, r) <=> IsImage(w, i, r)

LEMMA EndedHeld ==
    ASSUME NEW w \in Worlds, NEW v, NEW s \in Streams, Ended1(w, v, s)
    PROVE  Lasting(w, v, s)
<1>1. w.s.st[s] \in Units
  BY DEF Worlds, Sources
<1>2. \A r \in Streams : v.s.st[r].slot = w.s.st[r].slot /\ v.s.st[r].packet = w.s.st[r].packet
  BY <1>1, ReleasedUnit DEF Ended1
<1>3. ~v.s.st[s].inflight
  BY <1>1, ReleasedUnit DEF Ended1
<1>4. \A i, r : IsImage(v, i, r) <=> IsImage(w, i, r)
  BY AgedQueue DEF Ended1, Aged
<1>5. v.s.selShape = w.s.selShape /\ v.asked = w.asked /\ \A r \in Streams : r # s => v.s.st[r] = w.s.st[r]
  BY DEF Ended1
<1>6. \A r \in Streams : Ahead(w, r) => Ahead(v, r)
  BY <1>2, <1>5 DEF Ahead
<1>q. QED BY <1>2, <1>3, <1>4, <1>5, <1>6 DEF Lasting

LEMMA FailEffect ==
    ASSUME NEW w \in Worlds, NEW s \in Streams, NEW v, v = UploadFail(w, s),
           NEW k \in Slots, k = w.s.st[s].upShape
    PROVE  /\ v \in Worlds /\ Ended1(w, v, s) /\ v.s.cache = [w.s.cache EXCEPT ![k] = None]
           /\ v.doubt = w.doubt \ {k} /\ v.lapsed = w.lapsed \cup {r \in Streams : w.s.st[r].slot = k}
           /\ v.rc = w.rc
<1>1. PICK g : g = GiveUp(w, s)
  OBVIOUS
<1>2. /\ g \in Worlds /\ Ended1(w, g, s) /\ g.s.cache = w.s.cache
      /\ g.doubt = w.doubt /\ g.lapsed = w.lapsed /\ g.rc = w.rc
  BY <1>1, GiveUpEffect
<1>3. PICK l : l = w.lapsed \cup {r \in Streams : w.s.st[r].slot = k}
  OBVIOUS
<1>4. l \in SUBSET Streams /\ None \in Pictures /\ k # NoSlot
  BY <1>3 DEF Worlds, Pictures, Slots, NoSlot
<1>5. PICK src2 : src2 = [g.s EXCEPT !.cache = [g.s.cache EXCEPT ![k] = None]]
  OBVIOUS
<1>6. g.s \in Sources /\ g.s.cache \in [Slots -> Pictures]
  BY <1>2 DEF Worlds, Sources
<1>7. [g.s.cache EXCEPT ![k] = None] \in [Slots -> Pictures]
  BY <1>4, <1>6
<1>8. src2 \in Sources /\ src2.st = g.s.st /\ src2.selShape = g.s.selShape
      /\ src2.cache = [w.s.cache EXCEPT ![k] = None]
  BY <1>2, <1>5, <1>6, <1>7 DEF Sources
<1>9. v = [g EXCEPT !.s = src2, !.doubt = g.doubt \ {k}, !.lapsed = l]
  <2>1. v = [g EXCEPT !.s.cache[k] = None, !.doubt = @ \ {k},
                      !.lapsed = @ \cup {r \in Streams : w.s.st[r].slot = k}]
    BY <1>1, <1>4 DEF UploadFail
  <2>q. QED BY <1>2, <1>3, <1>5, <1>6, <2>1 DEF Worlds, Sources
<1>10. g.doubt \ {k} \in SUBSET Slots
  BY <1>2 DEF Worlds
<1>11. /\ v \in Worlds /\ v.s = src2 /\ v.q = g.q /\ v.ans = g.ans /\ v.asked = g.asked
       /\ v.adrift = g.adrift /\ v.doubt = g.doubt \ {k} /\ v.lapsed = l /\ v.rc = g.rc
  BY <1>2, <1>4, <1>8, <1>9, <1>10 DEF Worlds
<1>12. Ended1(w, v, s)
  <2>1. AgedItems(w, g, s) /\ AgedAnswers(w, g, s)
    BY <1>2 DEF Ended1, Aged
  <2>2. AgedItems(w, v, s)
    BY <1>11, <2>1 DEF AgedItems
  <2>3. AgedAnswers(w, v, s)
    BY <1>11, <2>1 DEF AgedAnswers
  <2>q. QED BY <1>2, <1>8, <1>11, <2>2, <2>3 DEF Ended1, Aged
<1>q. QED BY <1>2, <1>3, <1>8, <1>11, <1>12

(* A failed upload. *)
LEMMA UploadFailGood ==
    ASSUME NEW w, NEW s \in Streams, NEW v, v = UploadFail(w, s),
           Good(w), w.s.st[s].inflight, Free(w, s)
    PROVE  /\ Good(v) /\ Ended1(w, v, s) /\ v.rc = w.rc
<1>1. PICK k : k = w.s.st[s].upShape
  OBVIOUS
<1>2. w \in Worlds /\ Rest(w) /\ Shaped(w)
  BY DEF Good, Rest
<1>3. k \in Slots /\ k # NoSlot
  BY <1>1, <1>2 DEF Shaped, Worlds, Sources, Units, Spots
<1>4. /\ v \in Worlds /\ Ended1(w, v, s) /\ v.s.cache = [w.s.cache EXCEPT ![k] = None]
      /\ v.doubt = w.doubt \ {k} /\ v.lapsed = w.lapsed \cup {r \in Streams : w.s.st[r].slot = k}
      /\ v.rc = w.rc
  BY <1>1, <1>2, <1>3, FailEffect
<1>5. w.s.cache \in [Slots -> Pictures]
  BY <1>2 DEF Worlds, Sources
<1>6. ASSUME NEW j \in Slots \ v.doubt, v.s.cache[j] # None
      PROVE  v.s.cache[j] = w.s.cache[j] /\ j \notin w.doubt /\ ~Coming(w, j, s)
  <2>1. j # k
    BY <1>3, <1>4, <1>5, <1>6
  <2>q. QED BY <1>1, <1>4, <1>5, <2>1 DEF Coming
<1>7. Rest(v)
  BY <1>2, <1>4, <1>6, EndedRest
<1>8. /\ \A r \in Streams : v.s.st[r].slot = w.s.st[r].slot
      /\ \A r \in Streams : r # s => v.s.st[r] = w.s.st[r]
      /\ v.s.selShape = w.s.selShape /\ v.asked = w.asked
      /\ \A r \in Streams : Ahead(w, r) => Ahead(v, r)
  BY <1>2, <1>4, EndedHeld DEF Lasting
<1>9. ASSUME NEW r \in Streams PROVE HeldOf(v, r)
  <2>1. Due(v, r) => Due(w, r) /\ w.s.st[r].slot # k
    BY <1>4, <1>8 DEF Due
  <2>2. HeldOf(w, r)
    BY DEF Good
  <2>3. ASSUME Holds(w, r), w.s.st[r].slot # k PROVE Holds(v, r)
    <3>1. w.s.st[r].slot \in Slots
      BY <1>2, <2>3 DEF Holds, Keeps, Worlds, Sources, Units, Spots
    <3>2. v.s.cache[w.s.st[r].slot] = w.s.cache[w.s.st[r].slot]
      BY <1>4, <1>5, <2>3, <3>1
    <3>3. Keeps(v, r)
      BY <1>8, <2>3, <3>2 DEF Holds, Keeps
    <3>4. CASE r = s
      BY <1>1, <1>8, <2>3, <3>3, <3>4 DEF Holds
    <3>5. CASE r # s
      BY <1>8, <2>3, <3>3, <3>5 DEF Holds
    <3>q. QED BY <3>4, <3>5
  <2>q. QED BY <1>8, <2>1, <2>2, <2>3 DEF HeldOf
<1>q. QED BY <1>4, <1>7, <1>9 DEF Good

(* Nothing is uploaded, and no packet written. *)
Calmer(w, v) ==
    /\ \A r \in Streams : /\ v.s.st[r].slot = w.s.st[r].slot /\ v.s.st[r].packet = w.s.st[r].packet
                          /\ v.s.st[r].inflight => w.s.st[r].inflight
    /\ \A i, r : IsImage(v, i, r) <=> IsImage(w, i, r)
    /\ v.asked = w.asked

(* An image has landed: its slot is doubtful unless the answer was its own. *)
Accepted(w, s) == [GiveUp(w, s) EXCEPT
    !.doubt = IF w.s.st[s].seen.of = s /\ ~w.s.st[s].seen.old THEN @ ELSE @ \cup {w.s.st[s].upShape}]

LEMMA LandedEffect ==
    ASSUME NEW w, NEW s \in Streams, NEW v, Good(w), w.s.st[s].inflight, Free(w, s), w.s.st[s].seen.ok,
           NEW k \in Slots, k = w.s.st[s].upShape, v = Accepted(w, s)
    PROVE  /\ Rest(v) /\ NearlyOf(v, s) /\ (\A r \in Streams \ {s} : HeldOf(v, r))
           /\ v.s.st[s].slot # k => HeldOf(v, s)
           /\ Calmer(w, v) /\ ~v.s.st[s].inflight /\ v.lapsed = w.lapsed
<1>1. PICK g, a : g = GiveUp(w, s) /\ a = w.s.st[s].seen
  OBVIOUS
<1>2. w \in Worlds /\ Rest(w) /\ Single(w)
  BY DEF Good, Rest
<1>3. /\ g \in Worlds /\ Ended1(w, g, s) /\ g.s.cache = w.s.cache
      /\ g.doubt = w.doubt /\ g.lapsed = w.lapsed /\ g.rc = w.rc
  BY <1>1, <1>2, GiveUpEffect
<1>4. PICK d : d = IF Own(a, s) THEN g.doubt ELSE g.doubt \cup {k}
  OBVIOUS
<1>5. d \in SUBSET Slots
  BY <1>3, <1>4 DEF Worlds
<1>6. v = [g EXCEPT !.doubt = d]
  BY <1>1, <1>3, <1>4 DEF Accepted, Own, Worlds
<1>7. /\ v \in Worlds /\ v.s = g.s /\ v.q = g.q /\ v.ans = g.ans /\ v.asked = g.asked
      /\ v.adrift = g.adrift /\ v.doubt = d /\ v.lapsed = g.lapsed
  BY <1>3, <1>5, <1>6 DEF Worlds
<1>8. Ended1(w, v, s)
  <2>1. AgedItems(w, g, s) /\ AgedAnswers(w, g, s)
    BY <1>3 DEF Ended1, Aged
  <2>2. AgedItems(w, v, s)
    BY <1>7, <2>1 DEF AgedItems
  <2>3. AgedAnswers(w, v, s)
    BY <1>7, <2>1 DEF AgedAnswers
  <2>q. QED BY <1>3, <1>7, <2>2, <2>3 DEF Ended1, Aged
<1>9. ASSUME NEW j \in Slots \ v.doubt, v.s.cache[j] # None
      PROVE  v.s.cache[j] = w.s.cache[j] /\ j \notin w.doubt /\ ~Coming(w, j, s)
  <2>1. v.s.cache[j] = w.s.cache[j] /\ j \notin w.doubt
    BY <1>3, <1>4, <1>7
  <2>2. CASE j # k
    BY <2>1, <2>2 DEF Coming
  <2>3. CASE j = k
    <3>1. Own(w.s.st[s].seen, s)
      BY <1>1, <1>4, <1>7, <2>3
    <3>2. Taken(w, s)
      BY <3>1 DEF Taken
    <3>3. \A i \in DOMAIN w.q : ~Current(w, i, s)
      BY <1>2, <3>1 DEF Single
    <3>q. QED BY <2>1, <3>2, <3>3 DEF Coming
  <2>q. QED BY <2>2, <2>3
<1>10. Rest(v)
  BY <1>2, <1>7, <1>8, <1>9, EndedRest
<1>11. /\ \A r \in Streams : v.s.st[r].slot = w.s.st[r].slot /\ v.s.st[r].packet = w.s.st[r].packet
       /\ \A r \in Streams : r # s => v.s.st[r] = w.s.st[r]
       /\ ~v.s.st[s].inflight
       /\ v.s.selShape = w.s.selShape /\ v.asked = w.asked
       /\ \A r \in Streams : Ahead(w, r) => Ahead(v, r)
       /\ \A i, r : IsImage(v, i, r) <=> IsImage(w, i, r)
  BY <1>2, <1>8, EndedHeld DEF Lasting
<1>12. Calmer(w, v)
  BY <1>11 DEF Calmer
<1>13. v.s.cache = w.s.cache /\ v.lapsed = w.lapsed
  BY <1>3, <1>7
<1>14. \A r \in Streams : /\ HeldOf(w, r) /\ (Due(v, r) => Due(w, r))
                          /\ Keeps(w, r) => Keeps(v, r)
  BY <1>11, <1>13 DEF Good, Due, Keeps
<1>15. \A r \in Streams \ {s} : HeldOf(v, r)
  BY <1>11, <1>14 DEF HeldOf, Holds
<1>16. NearlyOf(v, s)
  BY <1>11, <1>14 DEF HeldOf, Holds, NearlyOf
<1>17. v.s.st[s].slot # k => HeldOf(v, s)
  BY <1>11, <1>14 DEF HeldOf, Holds
<1>q. QED BY <1>10, <1>11, <1>12, <1>13, <1>15, <1>16, <1>17

LEMMA LandedGood ==
    ASSUME NEW w, NEW s \in Streams, NEW v, v = Landed(w, s),
           Good(w), w.s.st[s].inflight, Free(w, s), w.s.st[s].seen.ok
    PROVE  Good(v) /\ Calmer(w, v)
<1>1. PICK k : k = w.s.st[s].upShape
  OBVIOUS
<1>2. PICK y : y = Accepted(w, s)
  OBVIOUS
<1>3. k \in Slots /\ k # NoSlot
  BY <1>1 DEF Good, Rest, Shaped, Worlds, Sources, Units, Spots
<1>4. /\ Rest(y) /\ NearlyOf(y, s) /\ (\A r \in Streams \ {s} : HeldOf(y, r))
      /\ y.s.st[s].slot # k => HeldOf(y, s)
      /\ Calmer(w, y) /\ ~y.s.st[s].inflight
  BY <1>1, <1>2, <1>3, LandedEffect
<1>5. PICK x : x = Select(y, s)
  OBVIOUS
<1>6. /\ Good(x) /\ x.s.st = y.s.st /\ x.s.cache = y.s.cache /\ x.asked = y.asked
      /\ SameImages(y, x)
  BY <1>4, <1>5, SelectGood
<1>7. PICK u : u = x.s.st[s]
  OBVIOUS
<1>8. \/ v = y /\ y.s.st[s].slot # k
      \/ v = x
      \/ v = SubmitState(x, s, u.at, TRUE, TRUE)
  BY <1>1, <1>2, <1>5, <1>7 DEF Landed, Accepted
<1>9. CASE v = y /\ y.s.st[s].slot # k
  <2>1. \A r \in Streams : HeldOf(y, r)
    BY <1>4, <1>9
  <2>q. QED BY <1>4, <1>9, <2>1 DEF Good
<1>10. Calmer(w, x)
  <2>1. \A i, r : IsImage(x, i, r) <=> IsImage(y, i, r)
    BY <1>6, ImageSame
  <2>q. QED BY <1>4, <1>6, <2>1 DEF Calmer
<1>11. CASE v = SubmitState(x, s, u.at, TRUE, TRUE)
  <2>0. u.at \in Places
    BY <1>6, <1>7 DEF Good, Rest, Worlds, Sources, Units
  <2>1. PICK at \in Places : at = u.at
    BY <2>0
  <2>a. v = SubmitState(x, s, at, TRUE, TRUE) /\ TRUE \in BOOLEAN
    BY <1>11, <2>1
  <2>b. Good(x)
    BY <1>6
  <2>2. Stating(x, v)
    BY <2>a, <2>b, SubmitStateGood, Zenon
  <2>3. \A i, r : IsImage(v, i, r) <=> IsImage(x, i, r)
    BY <2>2, ImageSame DEF Stating
  <2>q. QED BY <1>10, <2>2, <2>3 DEF Calmer, SameUploads, SameFlights, Stating
<1>q. QED BY <1>6, <1>8, <1>9, <1>10, <1>11

(* The transfer of an upload is known to be done. *)
Finished(w, s) == [w EXCEPT !.s.st[s].txDone = TRUE]

LEMMA FinishedGood ==
    ASSUME NEW w, NEW s \in Streams, NEW v, v = Finished(w, s),
           Good(w), w.s.st[s].inflight, Free(w, s)
    PROVE  /\ Good(v) /\ Free(v, s) /\ Calmer(w, v)
           /\ v.s.st[s].inflight /\ v.s.st[s].seen = w.s.st[s].seen
<1>1. w \in Worlds /\ Rest(w)
  BY DEF Good, Rest
<1>2. w.s \in Sources /\ w.s.st \in [Streams -> Units] /\ w.s.st[s] \in Units
  BY <1>1 DEF Worlds, Sources
<1>3. PICK x : x = [w.s.st[s] EXCEPT !.txDone = TRUE]
  OBVIOUS
<1>4. x \in Units /\ x.txDone
      /\ x.slot = w.s.st[s].slot /\ x.upShape = w.s.st[s].upShape /\ x.inflight = w.s.st[s].inflight
      /\ x.seen = w.s.st[s].seen /\ x.result = w.s.st[s].result
      /\ x.packet = w.s.st[s].packet /\ x.at = w.s.st[s].at /\ x.shown = w.s.st[s].shown
  BY <1>2, <1>3 DEF Units
<1>5. PICK src2 : src2 = [w.s EXCEPT !.st = [w.s.st EXCEPT ![s] = x]]
  OBVIOUS
<1>6. src2 \in Sources /\ src2.st[s] = x /\ src2.cache = w.s.cache /\ src2.selShape = w.s.selShape
       /\ \A r \in Streams : r # s => src2.st[r] = w.s.st[r]
  BY <1>2, <1>4, <1>5 DEF Sources
<1>7. v = [w EXCEPT !.s = src2]
  BY <1>1, <1>2, <1>3, <1>5 DEF Finished, Worlds, Sources
<1>8. /\ v \in Worlds /\ v.s = src2 /\ v.q = w.q /\ v.ans = w.ans /\ v.doubt = w.doubt
      /\ v.asked = w.asked /\ v.lapsed = w.lapsed /\ v.adrift = w.adrift
  BY <1>1, <1>6, <1>7 DEF Worlds
<1>9. SameFlights(w, v) /\ SameRecords(w, v) /\ SameImages(w, v)
  BY <1>4, <1>6, <1>8 DEF SameFlights, SameRecords, SameImages
<1>10. Shaped(v)
  <2>1. Shaped(w)
    BY <1>1 DEF Rest
  <2>2. ASSUME NEW r \in Streams
        PROVE  LET u == v.s.st[r] IN
               /\ u.inflight <=> u.upShape # NoSlot
               /\ u.txDone => u.inflight
               /\ u.inflight => u.packet.shape = u.upShape /\ u.slot # NoSlot
               /\ ~u.inflight => u.seen = NoAnswer
               /\ ~u.shown => u.at = 0
    <3>1. CASE r = s
      <4>1. v.s.st[r] = x
        BY <1>6, <1>8, <3>1
      <4>q. QED BY <1>4, <2>1, <3>1, <4>1 DEF Shaped
    <3>2. CASE r # s
      <4>1. v.s.st[r] = w.s.st[r]
        BY <1>6, <1>8, <3>2
      <4>q. QED BY <2>1, <4>1 DEF Shaped
    <3>q. QED BY <3>1, <3>2
  <2>q. QED BY <2>2 DEF Shaped
<1>11. Single(v) /\ Mirrored(v)
  BY <1>1, <1>8, <1>9, SingleKept, MirroredKept DEF Rest
<1>12. Selected(v)
  BY <1>1, <1>6, <1>8 DEF Rest, Selected, Last, Nowhere, IsKind
<1>13. Stated(v)
  <2>1. Stated(w)
    BY <1>1 DEF Rest
  <2>2. \A r \in Streams : v.s.st[r].at = w.s.st[r].at /\ v.s.st[r].shown = w.s.st[r].shown
    BY <1>4, <1>6, <1>8
  <2>3. v.q = w.q /\ v.adrift = w.adrift
    BY <1>8
  <2>q. QED BY <2>1, <2>2, <2>3 DEF Stated, Last, Nowhere, IsKind
<1>14. \A i, r : IsImage(v, i, r) <=> IsImage(w, i, r)
  BY <1>8 DEF IsImage
<1>15. Unmoved(v)
  <2> SUFFICES ASSUME NEW r \in Streams \ overtaken, NEW i \in DOMAIN v.q, IsImage(v, i, r)
               PROVE  /\ v.s.st[r].inflight /\ ~v.s.st[r].txDone /\ v.s.st[r].result = None
                      /\ \A j \in DOMAIN v.q : IsImage(v, j, r) => j = i
    BY DEF Unmoved
  <2>1. IsImage(w, i, r) /\ i \in DOMAIN w.q
    BY <1>8, <1>14
  <2>2. r # s
    BY <2>1 DEF Free
  <2>3. v.s.st[r] = w.s.st[r] /\ Unmoved(w)
    BY <1>1, <1>6, <1>8, <2>2 DEF Rest
  <2>q. QED BY <1>8, <1>14, <2>1, <2>3 DEF Unmoved
<1>16. ASSUME NEW r \in Streams PROVE HeldOf(v, r)
  <2>1. /\ v.s.st[r].slot = w.s.st[r].slot /\ v.s.st[r].inflight = w.s.st[r].inflight
        /\ v.s.st[r].upShape = w.s.st[r].upShape
    BY <1>9 DEF SameFlights
  <2>2. v.s.cache = w.s.cache /\ v.s.selShape = w.s.selShape /\ v.asked = w.asked /\ v.lapsed = w.lapsed
    BY <1>6, <1>8
  <2>3. HeldOf(w, r)
    BY DEF Good
  <2>q. QED BY <2>1, <2>2, <2>3 DEF HeldOf, Due, Holds, Keeps, Ahead
<1>17. Free(v, s)
  BY <1>8, <1>14 DEF Free
<1>18. Calmer(w, v)
  BY <1>8, <1>9, <1>14 DEF Calmer, SameFlights
<1>19. v.s.st[s].inflight /\ v.s.st[s].seen = w.s.st[s].seen
  BY <1>9 DEF SameFlights
<1>q. QED BY <1>1, <1>8, <1>10, <1>11, <1>12, <1>13, <1>15, <1>16, <1>17, <1>18, <1>19 DEF Good, Rest

LEMMA FailCalm ==
    ASSUME NEW w \in Worlds, NEW s \in Streams, NEW v, Ended1(w, v, s)
    PROVE  Calmer(w, v)
BY EndedHeld DEF Lasting, Calmer

LEMMA CalmerTwice ==
    ASSUME NEW w, NEW x, NEW v, Calmer(w, x), Calmer(x, v)
    PROVE  Calmer(w, v)
BY DEF Calmer

LEMMA PumpGood ==
    ASSUME NEW w, NEW s \in Streams, NEW v, v = Pump(w, s), Good(w)
    PROVE  Good(v) /\ Calmer(w, v)
<1>1. PICK u, x : u = w.s.st[s] /\ x = Finished(w, s)
  OBVIOUS
<1>2. w \in Worlds /\ Unmoved(w)
  BY DEF Good, Rest
<1>3. u \in Units
  BY <1>1, <1>2 DEF Worlds, Sources
<1>4. Calmer(w, w)
  BY DEF Calmer
<1>5. CASE v = w
  BY <1>4, <1>5
<1>6. ASSUME u.inflight, u.txDone \/ u.result # None PROVE Free(w, s)
  BY <1>1, <1>2, <1>6 DEF Unmoved, Free
<1>7. CASE u.inflight /\ ~u.txDone /\ u.result = "failed" /\ v = UploadFail(w, s)
  <2>1. Free(w, s)
    BY <1>6, <1>7 DEF None
  <2>2. Good(v) /\ Ended1(w, v, s)
    BY <1>1, <1>7, <2>1, UploadFailGood
  <2>q. QED BY <1>2, <2>2, FailCalm
<1>8. CASE u.inflight /\ (u.txDone \/ u.result = "ok")
           /\ (v = x \/ v = UploadFail(x, s) \/ (v = Landed(x, s) /\ u.seen.ok))
  <2>1. Free(w, s)
    BY <1>6, <1>8 DEF None
  <2>2. /\ Good(x) /\ Free(x, s) /\ Calmer(w, x)
        /\ x.s.st[s].inflight /\ x.s.st[s].seen = u.seen
    BY <1>1, <1>8, <2>1, FinishedGood
  <2>3. CASE v = UploadFail(x, s)
    <3>1. Good(v) /\ Ended1(x, v, s) /\ x \in Worlds
      BY <2>2, <2>3, UploadFailGood DEF Good, Rest
    <3>2. Calmer(x, v)
      BY <3>1, FailCalm
    <3>q. QED BY <2>2, <3>1, <3>2, CalmerTwice
  <2>4. CASE v = Landed(x, s) /\ u.seen.ok
    <3>1. Good(v) /\ Calmer(x, v)
      BY <2>2, <2>4, LandedGood
    <3>q. QED BY <2>2, <3>1, CalmerTwice
  <2>q. QED BY <1>8, <2>2, <2>3, <2>4
<1>9. \/ v = w
      \/ u.inflight /\ ~u.txDone /\ u.result = "failed" /\ v = UploadFail(w, s)
      \/ u.inflight /\ (u.txDone \/ u.result = "ok")
         /\ (v = x \/ v = UploadFail(x, s) \/ (v = Landed(x, s) /\ u.seen.ok))
  BY <1>1, <1>3 DEF Pump, Finished, Units, None
<1>q. QED BY <1>5, <1>7, <1>8, <1>9
-----------------------------------------------------------------------------
(* A new upload. *)
LEMMA NextSlot ==
    ASSUME NEW next \in 0 .. CacheMax + 1
    PROVE  /\ NextShape(next) \in Slots /\ NextShape(next) + 1 \in 0 .. CacheMax + 1
           /\ Min({NextShape(next), CacheMax}) = NextShape(next)
<1>1. CacheMax \in Nat /\ Rewind \in 1 .. CacheMax + 1
  BY CursorAssumption
<1>2. PICK n : n = NextShape(next)
  OBVIOUS
<1>3. n \in 0 .. CacheMax
  BY <1>1, <1>2 DEF NextShape
<1>4. Min({n, CacheMax}) = n
  <2>1. n \in {n, CacheMax} /\ \A y \in {n, CacheMax} : n <= y
    BY <1>1, <1>3
  <2>2. \A x \in {n, CacheMax} : (\A y \in {n, CacheMax} : x <= y) => x = n
    BY <1>1, <1>3
  <2>q. QED BY <2>1, <2>2 DEF Min
<1>q. QED BY <1>1, <1>2, <1>3, <1>4 DEF Slots

Image1(s) == [kind |-> "image", stream |-> s, old |-> FALSE]

Assigned(w, y, s, k, img) ==
    /\ y.s.cache = [w.s.cache EXCEPT ![k] = img] /\ y.s.selShape = w.s.selShape
    /\ y.ans = w.ans /\ y.asked = w.asked /\ y.adrift = w.adrift
    /\ w.lapsed \subseteq y.lapsed /\ \A r \in Streams \ {s} : w.s.st[r].slot = k => r \in y.lapsed
    /\ \A r \in Streams \ {s} : y.s.st[r] = w.s.st[r]
    /\ y.s.st[s].slot = k /\ y.s.st[s].packet = [shape |-> k, img |-> img]
    /\ y.s.st[s].at = w.s.st[s].at /\ y.s.st[s].shown = w.s.st[s].shown

Refused(w, y, s, k) ==
    /\ y.q = w.q /\ w.doubt \cup {k} \subseteq y.doubt /\ s \in y.lapsed
    /\ LET u == w.s.st[s]  x == y.s.st[s] IN
       x.inflight = u.inflight /\ x.upShape = u.upShape /\ x.txDone = u.txDone /\ x.seen = u.seen

Begun(w, y, s, k) ==
    /\ y.q = Append(w.q, Image1(s)) /\ Len(w.q) # QueueCap /\ y.doubt = w.doubt \ {k}
    /\ LET x == y.s.st[s] IN
       x.inflight /\ x.upShape = k /\ ~x.txDone /\ x.seen = NoAnswer /\ x.result = None

LEMMA UploadEffect ==
    ASSUME NEW w \in Worlds, NEW s \in Streams, NEW img \in Image, NEW y, y = Upload(w, s, img)
    PROVE  \E k \in Slots : /\ y \in Worlds /\ Assigned(w, y, s, k, img)
                            /\ Refused(w, y, s, k) \/ Begun(w, y, s, k)
<1>1. PICK n : n = NextShape(w.s.next)
  OBVIOUS
<1>2. w.s \in Sources /\ w.s.st \in [Streams -> Units] /\ w.s.st[s] \in Units
      /\ w.s.cache \in [Slots -> Pictures] /\ w.s.next \in 0 .. CacheMax + 1
  BY DEF Worlds, Sources
<1>3. PICK k : k = Min({n, CacheMax})
  OBVIOUS
<1>4. k \in Slots /\ n + 1 \in 0 .. CacheMax + 1
  BY <1>1, <1>2, <1>3, NextSlot
<1>5. k \in Spots /\ img \in Pictures /\ None \in Pictures
  BY <1>4 DEF Spots, Pictures
<1>6. PICK u, u1 : u = w.s.st[s] /\ u1 = [u EXCEPT !.slot = k, !.packet = [shape |-> k, img |-> img]]
  OBVIOUS
<1>7. u \in Units /\ u1 \in Units /\ u1.slot = k /\ u1.packet = [shape |-> k, img |-> img]
      /\ u1.at = u.at /\ u1.shown = u.shown /\ u1.inflight = u.inflight /\ u1.upShape = u.upShape
      /\ u1.txDone = u.txDone /\ u1.seen = u.seen
  <2>1. [shape |-> k, img |-> img] \in Packets
    BY <1>5 DEF Packets
  <2>q. QED BY <1>2, <1>5, <1>6, <2>1 DEF Units
<1>8. PICK src1 : src1 = [w.s EXCEPT !.next = n + 1, !.cache = [w.s.cache EXCEPT ![k] = img],
                                     !.st = [w.s.st EXCEPT ![s] = u1]]
  OBVIOUS
<1>9. /\ src1 \in Sources /\ src1.st = [w.s.st EXCEPT ![s] = u1]
      /\ src1.cache = [w.s.cache EXCEPT ![k] = img] /\ src1.selShape = w.s.selShape
  <2>1. [w.s.cache EXCEPT ![k] = img] \in [Slots -> Pictures]
    BY <1>2, <1>4, <1>5
  <2>2. [w.s.st EXCEPT ![s] = u1] \in [Streams -> Units]
    BY <1>2, <1>7
  <2>q. QED BY <1>2, <1>4, <1>8, <2>1, <2>2 DEF Sources
<1>10. PICK l : l = w.lapsed \cup {r \in Streams \ {s} : w.s.st[r].slot = k}
  OBVIOUS
<1>11. l \in SUBSET Streams /\ w.doubt \cup {k} \in SUBSET Slots
  BY <1>4, <1>10 DEF Worlds
<1>12. PICK v : v = [w EXCEPT !.s = src1, !.doubt = w.doubt \cup {k}, !.lapsed = l]
  OBVIOUS
<1>13. /\ v \in Worlds /\ v.s = src1 /\ v.q = w.q /\ v.ans = w.ans /\ v.asked = w.asked
       /\ v.adrift = w.adrift /\ v.doubt = w.doubt \cup {k} /\ v.lapsed = l
  BY <1>9, <1>11, <1>12 DEF Worlds
<1>14. v = Entered(w, s, img, n, k)
  <2>1. src1 = Numbered(w.s, s, img, n, k)
    BY <1>2, <1>6, <1>8 DEF Numbered, Sources
  <2>2. Entered(w, s, img, n, k) = [w EXCEPT !.s = src1, !.doubt = @ \cup {k},
                   !.lapsed = @ \cup {r \in Streams \ {s} : w.s.st[r].slot = k}]
    BY <2>1 DEF Entered
  <2>q. QED BY <1>10, <1>12, <2>2
<1>15. PICK x : x = Submit(v, Image1(s))
  OBVIOUS
<1>16. Image1(s) \in Items
  BY DEF Image1, Items, Uploads
<1>17. /\ x \in Worlds
       /\ x.s = v.s /\ x.ans = v.ans /\ x.doubt = v.doubt /\ x.asked = v.asked
       /\ x.lapsed = v.lapsed /\ x.adrift = v.adrift
       /\ \/ x.rc = 0 /\ x.q = Append(v.q, Image1(s)) /\ Len(v.q) # QueueCap
          \/ x.rc = -1 /\ x.q = v.q
  BY <1>13, <1>15, <1>16, SubmitEffect
<1>18. y = IF ~usb THEN [Lapse(v, s) EXCEPT !.rc = -1]
           ELSE IF x.rc # 0
           THEN [Lapse(x, s) EXCEPT !.s.st[s].result = None]
           ELSE Begin(x, s, k)
  BY <1>1, <1>3, <1>14, <1>15 DEF Upload, Image1
<1>19. l \cup {s} \in SUBSET Streams /\ -1 \in {0, -1}
  BY <1>11
<1>20. CASE ~usb
  <2>1. y = [v EXCEPT !.lapsed = l \cup {s}, !.rc = -1]
    BY <1>13, <1>18, <1>20 DEF Lapse, Worlds
  <2>2. /\ y \in Worlds /\ y.s = src1 /\ y.q = w.q /\ y.ans = w.ans /\ y.asked = w.asked
        /\ y.adrift = w.adrift /\ y.doubt = w.doubt \cup {k} /\ y.lapsed = l \cup {s}
    BY <1>13, <1>19, <2>1 DEF Worlds
  <2>3. Assigned(w, y, s, k, img)
    BY <1>2, <1>6, <1>7, <1>9, <1>10, <2>2 DEF Assigned
  <2>4. Refused(w, y, s, k)
    BY <1>2, <1>6, <1>7, <1>9, <2>2 DEF Refused
  <2>q. QED BY <1>4, <2>2, <2>3, <2>4
<1>21. CASE usb /\ x.rc # 0
  <2>1. PICK u2 : u2 = [u1 EXCEPT !.result = None]
    OBVIOUS
  <2>2. u2 \in Units /\ u2.slot = k /\ u2.packet = [shape |-> k, img |-> img]
      /\ u2.at = u.at /\ u2.shown = u.shown /\ u2.inflight = u.inflight /\ u2.upShape = u.upShape
      /\ u2.txDone = u.txDone /\ u2.seen = u.seen
    BY <1>7, <2>1 DEF Units
  <2>3. PICK src2 : src2 = [src1 EXCEPT !.st = [src1.st EXCEPT ![s] = u2]]
    OBVIOUS
  <2>4. src1.st \in [Streams -> Units] /\ src1.st[s] = u1
    BY <1>2, <1>7, <1>9
  <2>5. [src1.st EXCEPT ![s] = u2] \in [Streams -> Units]
    BY <2>2, <2>4
  <2>6. /\ src2 \in Sources /\ src2.st = [src1.st EXCEPT ![s] = u2]
        /\ src2.cache = src1.cache /\ src2.selShape = src1.selShape
    BY <1>9, <2>3, <2>5 DEF Sources
  <2>7. y = [x EXCEPT !.s = src2, !.lapsed = l \cup {s}]
    <3>1. y = [[x EXCEPT !.lapsed = l \cup {s}] EXCEPT !.s.st[s].result = None]
      BY <1>13, <1>17, <1>18, <1>21 DEF Lapse
    <3>q. QED BY <1>13, <1>17, <2>1, <2>3, <2>4, <3>1 DEF Worlds, Sources
  <2>8. /\ y \in Worlds /\ y.s = src2 /\ y.q = w.q /\ y.ans = w.ans /\ y.asked = w.asked
        /\ y.adrift = w.adrift /\ y.doubt = w.doubt \cup {k} /\ y.lapsed = l \cup {s}
    BY <1>13, <1>17, <1>19, <1>21, <2>6, <2>7 DEF Worlds
  <2>9. y.s.st[s] = u2 /\ \A r \in Streams \ {s} : y.s.st[r] = w.s.st[r]
    BY <1>2, <1>9, <2>4, <2>6, <2>8
  <2>10. Assigned(w, y, s, k, img)
    BY <1>6, <1>9, <1>10, <2>2, <2>6, <2>8, <2>9 DEF Assigned
  <2>11. Refused(w, y, s, k)
    BY <1>6, <2>2, <2>8, <2>9 DEF Refused
  <2>q. QED BY <1>4, <2>8, <2>10, <2>11
<1>22. CASE usb /\ x.rc = 0
  <2>1. PICK u2 : u2 = [u1 EXCEPT !.inflight = TRUE, !.txDone = FALSE,
                    !.upShape = k, !.result = None, !.seen = NoAnswer, !.late = FALSE]
    OBVIOUS
  <2>2. /\ u2 \in Units /\ u2.slot = k /\ u2.packet = [shape |-> k, img |-> img]
        /\ u2.at = u.at /\ u2.shown = u.shown
        /\ u2.inflight /\ u2.upShape = k /\ ~u2.txDone /\ u2.seen = NoAnswer /\ u2.result = None
    <3>1. NoAnswer \in Answers
      BY DEF NoAnswer, Answers
    <3>q. QED BY <1>5, <1>7, <2>1, <3>1 DEF Units
  <2>3. PICK src2 : src2 = [src1 EXCEPT !.st = [src1.st EXCEPT ![s] = u2]]
    OBVIOUS
  <2>4. src1.st \in [Streams -> Units] /\ src1.st[s] = u1
    BY <1>2, <1>7, <1>9
  <2>5. [src1.st EXCEPT ![s] = u2] \in [Streams -> Units]
    BY <2>2, <2>4
  <2>6. /\ src2 \in Sources /\ src2.st = [src1.st EXCEPT ![s] = u2]
        /\ src2.cache = src1.cache /\ src2.selShape = src1.selShape
    BY <1>9, <2>3, <2>5 DEF Sources
  <2>7. y = [x EXCEPT !.s = src2, !.doubt = x.doubt \ {k}]
    <3>1. y = Begin(x, s, k)
      BY <1>18, <1>22
    <3>q. QED BY <1>13, <1>17, <2>1, <2>3, <2>4, <3>1 DEF Begin, Worlds, Sources
  <2>a. x.doubt \ {k} \in SUBSET Slots /\ x.doubt \ {k} = w.doubt \ {k}
    BY <1>11, <1>13, <1>17
  <2>8. /\ y \in Worlds /\ y.s = src2 /\ y.q = Append(w.q, Image1(s)) /\ y.ans = w.ans
        /\ y.asked = w.asked /\ Len(w.q) # QueueCap
        /\ y.adrift = w.adrift /\ y.doubt = w.doubt \ {k} /\ y.lapsed = l
    <3>1. x \in Worlds /\ x.q = Append(w.q, Image1(s)) /\ x.ans = w.ans /\ x.asked = w.asked
          /\ Len(w.q) # QueueCap /\ x.adrift = w.adrift /\ x.lapsed = l
      BY <1>13, <1>17, <1>22
    <3>q. QED BY <2>6, <2>7, <2>a, <3>1 DEF Worlds
  <2>9. y.s.st[s] = u2 /\ \A r \in Streams \ {s} : y.s.st[r] = w.s.st[r]
    BY <1>2, <1>9, <2>4, <2>6, <2>8
  <2>10. Assigned(w, y, s, k, img)
    BY <1>6, <1>9, <1>10, <2>2, <2>6, <2>8, <2>9 DEF Assigned
  <2>11. Begun(w, y, s, k)
    BY <2>2, <2>8, <2>9 DEF Begun
  <2>q. QED BY <1>4, <2>8, <2>10, <2>11
<1>q. QED BY <1>20, <1>21, <1>22

(* The queue, and at most an image of s behind it. *)
Longer(w, y, s) ==
    /\ \A i \in DOMAIN w.q : i \in DOMAIN y.q /\ y.q[i] = w.q[i]
    /\ \A i \in DOMAIN y.q : (i \in DOMAIN w.q /\ y.q[i] = w.q[i]) \/ y.q[i] = Image1(s)

LEMMA LongerRefused ==
    ASSUME NEW w, NEW y, NEW s, NEW k, Refused(w, y, s, k)
    PROVE  Longer(w, y, s)
BY DEF Refused, Longer

LEMMA LongerBegun ==
    ASSUME NEW w \in Worlds, NEW y, NEW s, NEW k, Begun(w, y, s, k)
    PROVE  Longer(w, y, s)
<1>1. y.q = Append(w.q, Image1(s))
  BY DEF Begun
<1>2. PICK n \in Nat : /\ DOMAIN w.q = 1 .. n /\ DOMAIN y.q = 1 .. n + 1
                       /\ \A i \in 1 .. n : y.q[i] = w.q[i]
                       /\ y.q[n + 1] = Image1(s)
  BY <1>1, AppendParts
<1>3. \A i \in 1 .. n + 1 : i \in 1 .. n \/ i = n + 1
  BY <1>2
<1>4. \A i \in 1 .. n : i \in 1 .. n + 1
  BY <1>2
<1>q. QED BY <1>2, <1>3, <1>4 DEF Longer

(* The other slots are as before. *)
LEMMA AssignedClean ==
    ASSUME NEW w \in Worlds, NEW y \in Worlds, NEW s \in Streams, NEW k \in Slots, NEW img,
           Assigned(w, y, s, k, img), Longer(w, y, s),
           NEW j \in Slots, j # k, NEW i, Clean(w, j, i)
    PROVE  Clean(y, j, i)
<1> SUFFICES ASSUME NEW m \in DOMAIN y.q, m > i, y.q[m].kind = "image",
                    y.s.st[y.q[m].stream].packet.shape = j
             PROVE  y.s.st[y.q[m].stream].packet.img = y.s.cache[j]
  BY DEF Clean
<1>1. PICK r : r = y.q[m].stream
  OBVIOUS
<1>2. r # s
  BY <1>1 DEF Assigned
<1>3. m \in DOMAIN w.q /\ y.q[m] = w.q[m]
  BY <1>1, <1>2 DEF Longer, Image1
<1>4. r \in Streams
  BY <1>1 DEF Worlds, Items, Uploads, Selects, States
<1>5. y.s.st[r] = w.s.st[r]
  BY <1>2, <1>4 DEF Assigned
<1>6. w.s.cache \in [Slots -> Pictures]
  BY DEF Worlds, Sources
<1>7. y.s.cache[j] = w.s.cache[j]
  BY <1>6 DEF Assigned
<1>q. QED BY <1>1, <1>3, <1>5, <1>7 DEF Clean

LEMMA AssignedMirrored ==
    ASSUME NEW w \in Worlds, NEW y \in Worlds, NEW s \in Streams, NEW k \in Slots, NEW img,
           Assigned(w, y, s, k, img), Longer(w, y, s), Mirrored(w), ~w.s.st[s].inflight,
           Live, NEW j \in Slots, j # k, j \notin w.doubt, y.s.cache[j] # None
    PROVE  There(y, j) \/ (\E r \in Streams : Coming(y, j, r))
<1>1. w.s.cache \in [Slots -> Pictures]
  BY DEF Worlds, Sources
<1>2. y.s.cache[j] = w.s.cache[j]
  BY <1>1 DEF Assigned
<1>3. There(w, j) \/ (\E r \in Streams : Coming(w, j, r))
  BY <1>2 DEF Mirrored
<1>4. There(w, j) => There(y, j)
  BY <1>2, AssignedClean DEF There
<1>5. ASSUME NEW r \in Streams, Coming(w, j, r) PROVE Coming(y, j, r)
  <2>1. r # s
    BY <1>5 DEF Coming
  <2>2. y.s.st[r] = w.s.st[r] /\ y.ans = w.ans
    BY <2>1 DEF Assigned
  <2>3. \A i : Current(y, i, r) <=> Current(w, i, r)
    BY <2>1 DEF Longer, Current, IsImage, Image1
  <2>4. Taken(y, r) <=> Taken(w, r)
    BY <2>2 DEF Taken
  <2>5. CASE \E i \in DOMAIN w.q : Current(w, i, r) /\ Clean(w, j, i)
    <3>1. PICK i \in DOMAIN w.q : Current(w, i, r) /\ Clean(w, j, i)
      BY <2>5
    <3>2. i \in DOMAIN y.q /\ Current(y, i, r) /\ Clean(y, j, i)
      BY <2>3, <3>1, AssignedClean DEF Longer
    <3>q. QED BY <1>2, <1>5, <2>2, <3>2 DEF Coming
  <2>6. CASE (\A i \in DOMAIN w.q : ~Current(w, i, r)) /\ ~Taken(w, r)
    <3>1. \A i \in DOMAIN y.q : ~Current(y, i, r)
      BY <2>3, <2>6 DEF Current, IsImage
    <3>q. QED BY <1>2, <1>5, <2>2, <2>4, <2>6, <3>1 DEF Coming
  <2>q. QED BY <1>5, <2>5, <2>6 DEF Coming
<1>q. QED BY <1>3, <1>4, <1>5

LEMMA AssignedRecords ==
    ASSUME NEW w \in Worlds, NEW y \in Worlds, NEW s \in Streams, NEW k \in Slots, NEW img,
           Assigned(w, y, s, k, img), y.q = w.q \/ y.q = Append(w.q, Image1(s)),
           Selected(w), Stated(w)
    PROVE  Selected(y) /\ Stated(y)
<1>1. \A kind, r : kind # "image" => Others(w, y, kind, r)
  <2>1. CASE y.q = w.q
    BY <2>1 DEF Others, Last, Nowhere, IsKind
  <2>2. CASE y.q = Append(w.q, Image1(s))
    <3>1. ASSUME NEW kind, NEW r, kind # "image" PROVE Others(w, y, kind, r)
      <4>1. ~(Image1(s).kind = kind /\ Image1(s).stream = r)
        BY <3>1 DEF Image1
      <4>q. QED BY <2>2, <4>1, OthersStay
    <3>q. QED BY <3>1
  <2>q. QED BY <2>1, <2>2
<1>2. y.s.selShape = w.s.selShape /\ y.adrift = w.adrift
  BY DEF Assigned
<1>3. \A r \in Streams : y.s.st[r].at = w.s.st[r].at /\ y.s.st[r].shown = w.s.st[r].shown
  BY DEF Assigned
<1>4. Selected(y)
  <2>1. \A r : Others(w, y, "select", r)
    BY <1>1
  <2>q. QED BY <1>2, <2>1 DEF Selected, Others
<1>5. Stated(y)
  <2>1. \A r : Others(w, y, "state", r)
    BY <1>1
  <2>q. QED BY <1>2, <1>3, <2>1 DEF Stated, Others
<1>q. QED BY <1>4, <1>5

LEMMA AssignedHeld ==
    ASSUME NEW w \in Worlds, NEW y \in Worlds, NEW s \in Streams, NEW k \in Slots, NEW img,
           Assigned(w, y, s, k, img), NEW r \in Streams \ {s}, HeldOf(w, r)
    PROVE  HeldOf(y, r)
<1>1. y.s.st[r] = w.s.st[r] /\ y.s.selShape = w.s.selShape /\ y.asked = w.asked
  BY DEF Assigned
<1>2. Due(y, r) => Due(w, r) /\ w.s.st[r].slot # k
  BY <1>1 DEF Assigned, Due
<1>3. w.s.cache \in [Slots -> Pictures] /\ w.s.st[r].slot \in Spots
  BY DEF Worlds, Sources, Units
<1>4. ASSUME w.s.st[r].slot # k, w.s.st[r].slot # NoSlot PROVE y.s.cache[w.s.st[r].slot] = w.s.cache[w.s.st[r].slot]
  BY <1>3, <1>4 DEF Assigned, Spots
<1>5. w.s.st[r].slot # k /\ Holds(w, r) => Holds(y, r)
  BY <1>1, <1>4 DEF Holds, Keeps
<1>6. Ahead(w, r) => Ahead(y, r)
  BY <1>1 DEF Ahead
<1>q. QED BY <1>2, <1>5, <1>6 DEF HeldOf

LEMMA RefusedGood ==
    ASSUME NEW w, NEW y \in Worlds, NEW s \in Streams, NEW k \in Slots, NEW img \in Image,
           Rest(w), ~w.s.st[s].inflight, Assigned(w, y, s, k, img), Refused(w, y, s, k)
    PROVE  Rest(y)
<1>1. w \in Worlds /\ Len(w.q) <= QueueCap /\ Shaped(w) /\ Single(w) /\ Mirrored(w) /\ Selected(w)
      /\ Stated(w) /\ Unmoved(w)
  BY DEF Rest
<1>2. y.q = w.q /\ y.ans = w.ans
  BY DEF Refused, Assigned
<1>3. ASSUME NEW r \in Streams
      PROVE  /\ y.s.st[r].inflight = w.s.st[r].inflight /\ y.s.st[r].upShape = w.s.st[r].upShape
             /\ y.s.st[r].txDone = w.s.st[r].txDone /\ y.s.st[r].seen = w.s.st[r].seen
             /\ y.s.st[r].at = w.s.st[r].at /\ y.s.st[r].shown = w.s.st[r].shown
             /\ r # s => y.s.st[r] = w.s.st[r]
  BY DEF Refused, Assigned
<1>4. Shaped(y)
  <2>1. ASSUME NEW r \in Streams
        PROVE  LET u == y.s.st[r] IN
               /\ u.inflight <=> u.upShape # NoSlot
               /\ u.txDone => u.inflight
               /\ u.inflight => u.packet.shape = u.upShape /\ u.slot # NoSlot
               /\ ~u.inflight => u.seen = NoAnswer
               /\ ~u.shown => u.at = 0
    <3>1. CASE r = s
      BY <1>1, <1>3, <3>1 DEF Shaped
    <3>2. CASE r # s
      BY <1>1, <1>3, <3>2 DEF Shaped
    <3>q. QED BY <3>1, <3>2
  <2>q. QED BY <2>1 DEF Shaped
<1>5. Single(y)
  <2>1. \A i, r : Current(y, i, r) <=> Current(w, i, r)
    BY <1>2 DEF Current, IsImage
  <2>q. QED BY <1>1, <1>2, <1>3, <2>1 DEF Single
<1>6. Unmoved(y)
  <2>1. \A i, r : IsImage(y, i, r) <=> IsImage(w, i, r)
    BY <1>2 DEF IsImage
  <2>2. \A i : IsImage(w, i, s) => s \in overtaken
    BY <1>1 DEF Unmoved, IsImage
  <2>q. QED BY <1>1, <1>2, <1>3, <2>1, <2>2 DEF Unmoved
<1>7. Mirrored(y)
  <2> SUFFICES ASSUME Live, NEW j \in Slots \ y.doubt, y.s.cache[j] # None
               PROVE  There(y, j) \/ (\E r \in Streams : Coming(y, j, r))
    BY DEF Mirrored
  <2>1. j # k /\ j \notin w.doubt
    BY DEF Refused
  <2>q. QED BY <1>1, <2>1, LongerRefused, AssignedMirrored
<1>8. Selected(y) /\ Stated(y)
  BY <1>1, <1>2, AssignedRecords
<1>q. QED BY <1>1, <1>2, <1>4, <1>5, <1>6, <1>7, <1>8 DEF Rest

LEMMA BegunGood ==
    ASSUME NEW w, NEW y \in Worlds, NEW s \in Streams, NEW k \in Slots, NEW img \in Image,
           Rest(w), ~w.s.st[s].inflight, Assigned(w, y, s, k, img), Begun(w, y, s, k)
    PROVE  Rest(y)
<1>1. w \in Worlds /\ Len(w.q) <= QueueCap /\ Shaped(w) /\ Single(w) /\ Mirrored(w) /\ Selected(w)
      /\ Stated(w) /\ Unmoved(w)
  BY DEF Rest
<1>2. y.q = Append(w.q, Image1(s)) /\ y.ans = w.ans /\ Len(w.q) # QueueCap
  BY DEF Begun, Assigned
<1>3. PICK n \in Nat : /\ DOMAIN w.q = 1 .. n /\ DOMAIN y.q = 1 .. n + 1
                       /\ \A i \in 1 .. n : y.q[i] = w.q[i]
                       /\ y.q[n + 1] = Image1(s)
  BY <1>1, <1>2, AppendParts
<1>4. \A i \in 1 .. n + 1 : i \in 1 .. n \/ i = n + 1
  BY <1>3
<1>5. Len(y.q) <= QueueCap
  <2>1. Len(y.q) = Len(w.q) + 1 /\ Len(w.q) \in Nat
    BY <1>1, <1>2 DEF Worlds
  <2>2. QueueCap \in Nat
    BY CursorAssumption
  <2>q. QED BY <1>1, <1>2, <2>1, <2>2
<1>6. \A r \in Streams : r # s => y.s.st[r] = w.s.st[r]
  BY DEF Assigned
<1>7. PICK x : x = y.s.st[s]
  OBVIOUS
<1>8. /\ x.slot = k /\ x.packet = [shape |-> k, img |-> img]
      /\ x.at = w.s.st[s].at /\ x.shown = w.s.st[s].shown
      /\ x.inflight /\ x.upShape = k /\ ~x.txDone /\ x.seen = NoAnswer /\ x.result = None
      /\ k # NoSlot /\ x.packet.shape = k
  BY <1>7 DEF Assigned, Begun, Slots, NoSlot
<1>9. Shaped(y)
  <2>1. ASSUME NEW r \in Streams
        PROVE  LET u == y.s.st[r] IN
               /\ u.inflight <=> u.upShape # NoSlot
               /\ u.txDone => u.inflight
               /\ u.inflight => u.packet.shape = u.upShape /\ u.slot # NoSlot
               /\ ~u.inflight => u.seen = NoAnswer
               /\ ~u.shown => u.at = 0
    <3>1. CASE r = s
      BY <1>1, <1>7, <1>8, <3>1 DEF Shaped
    <3>2. CASE r # s
      BY <1>1, <1>6, <3>2 DEF Shaped
    <3>q. QED BY <3>1, <3>2
  <2>q. QED BY <2>1 DEF Shaped
<1>10. Image1(s).kind = "image" /\ Image1(s).stream = s /\ ~Image1(s).old
  BY DEF Image1
<1>11. ASSUME NEW r \in Streams, r # s
       PROVE  \A i : (IsImage(y, i, r) <=> IsImage(w, i, r)) /\ (Current(y, i, r) <=> Current(w, i, r))
  BY <1>3, <1>4, <1>10, <1>11 DEF Current, IsImage
<1>12. \A i : Current(y, i, s) => i = n + 1
  <2>1. \A i \in 1 .. n : ~Current(w, i, s)
    BY <1>1, <1>3 DEF Single
  <2>2. \A i \in 1 .. n : Current(y, i, s) => Current(w, i, s)
    BY <1>3 DEF Current, IsImage
  <2>q. QED BY <1>3, <1>4, <2>1, <2>2 DEF Current, IsImage
<1>13. \A m \in DOMAIN w.ans : ~Own(w.ans[m], s)
  BY <1>1 DEF Single
<1>14. ~Own(NoAnswer, s)
  <2>1. Streams \subseteq Nat
    BY CursorAssumption
  <2>q. QED BY <2>1 DEF Own, NoAnswer, NoSlot
<1>15. Single(y)
  <2>1. ASSUME NEW r \in Streams
        PROVE  LET u == y.s.st[r] IN
               /\ \A i \in DOMAIN y.q : Current(y, i, r) =>
                     /\ u.inflight /\ ~Own(u.seen, r)
                     /\ \A m \in DOMAIN y.ans : ~Own(y.ans[m], r)
                     /\ \A j \in DOMAIN y.q : Current(y, j, r) => j = i
               /\ \A m \in DOMAIN y.ans : Own(y.ans[m], r) => u.inflight
    <3>1. CASE r = s
      BY <1>2, <1>7, <1>8, <1>12, <1>13, <1>14, <3>1
    <3>2. CASE r # s
      <4>1. \A i : Current(y, i, r) => i \in DOMAIN w.q /\ Current(w, i, r)
        BY <1>11, <3>2 DEF Current, IsImage
      <4>q. QED BY <1>1, <1>2, <1>6, <3>2, <4>1 DEF Single
    <3>q. QED BY <3>1, <3>2
  <2>q. QED BY <2>1 DEF Single
<1>16. Unmoved(y)
  <2> SUFFICES ASSUME NEW r \in Streams \ overtaken, NEW i \in DOMAIN y.q, IsImage(y, i, r)
               PROVE  /\ y.s.st[r].inflight /\ ~y.s.st[r].txDone /\ y.s.st[r].result = None
                      /\ \A j \in DOMAIN y.q : IsImage(y, j, r) => j = i
    BY DEF Unmoved
  <2>1. CASE r = s
    <3>1. \A j \in 1 .. n : ~IsImage(w, j, s)
      BY <1>1, <1>3, <2>1 DEF Unmoved
    <3>2. \A j \in 1 .. n : IsImage(y, j, s) => IsImage(w, j, s)
      BY <1>3 DEF IsImage
    <3>q. QED BY <1>3, <1>4, <1>7, <1>8, <2>1, <3>1, <3>2
  <2>2. CASE r # s
    <3>1. \A j : IsImage(y, j, r) => j \in DOMAIN w.q /\ IsImage(w, j, r)
      BY <1>11, <2>2 DEF IsImage
    <3>q. QED BY <1>1, <1>6, <2>2, <3>1 DEF Unmoved
  <2>q. QED BY <2>1, <2>2
<1>17. Mirrored(y)
  <2> SUFFICES ASSUME Live, NEW j \in Slots \ y.doubt, y.s.cache[j] # None
               PROVE  There(y, j) \/ (\E r \in Streams : Coming(y, j, r))
    BY DEF Mirrored
  <2>1. CASE j # k
    <3>1. j \notin w.doubt
      BY <2>1 DEF Begun
    <3>q. QED BY <1>1, <2>1, <3>1, LongerBegun, AssignedMirrored
  <2>2. CASE j = k
    <3>1. w.s.cache \in [Slots -> Pictures]
      BY <1>1 DEF Worlds, Sources
    <3>2. y.s.cache[k] = img
      BY <3>1 DEF Assigned
    <3>3. n + 1 \in DOMAIN y.q /\ Current(y, n + 1, s)
      BY <1>3, <1>10 DEF Current, IsImage
    <3>4. Clean(y, k, n + 1)
      BY <1>3 DEF Clean
    <3>5. x.packet.img = img
      BY <1>8
    <3>q. QED BY <1>7, <1>8, <2>2, <3>2, <3>3, <3>4, <3>5 DEF Coming
  <2>q. QED BY <2>1, <2>2
<1>18. Selected(y) /\ Stated(y)
  BY <1>1, <1>2, AssignedRecords
<1>q. QED BY <1>5, <1>9, <1>15, <1>16, <1>17, <1>18 DEF Rest

(* Only the packet of s is written, and nothing else begun. *)
Started(w, y, s, img) ==
    /\ \A r \in Streams \ {s} : y.s.st[r] = w.s.st[r]
    /\ y.s.st[s].packet.img = img /\ y.s.st[s].slot # NoSlot
    /\ y.asked = w.asked /\ w.lapsed \subseteq y.lapsed
    /\ \A i \in DOMAIN w.q : i \in DOMAIN y.q /\ y.q[i] = w.q[i]

LEMMA UploadGood ==
    ASSUME NEW w, NEW s \in Streams, NEW img \in Image, NEW y, y = Upload(w, s, img),
           Rest(w), ~w.s.st[s].inflight, \A r \in Streams \ {s} : HeldOf(w, r)
    PROVE  /\ Rest(y) /\ Started(w, y, s, img)
           /\ \A r \in Streams \ {s} : HeldOf(y, r)
           /\ y.asked[s] = img => HeldOf(y, s)
<1>1. w \in Worlds
  BY DEF Rest
<1>2. PICK k \in Slots : /\ y \in Worlds /\ Assigned(w, y, s, k, img)
                         /\ Refused(w, y, s, k) \/ Begun(w, y, s, k)
  BY <1>1, UploadEffect
<1>3. Rest(y)
  BY <1>2, RefusedGood, BegunGood
<1>4. \A r \in Streams \ {s} : HeldOf(y, r)
  BY <1>1, <1>2, AssignedHeld
<1>5. Longer(w, y, s)
  BY <1>1, <1>2, LongerRefused, LongerBegun
<1>6. Started(w, y, s, img)
  <2>1. k # NoSlot
    BY DEF Slots, NoSlot
  <2>q. QED BY <1>2, <1>5, <2>1 DEF Started, Assigned, Longer
<1>7. ASSUME y.asked[s] = img PROVE HeldOf(y, s)
  <2>1. CASE Refused(w, y, s, k)
    BY <2>1 DEF Refused, HeldOf, Due
  <2>2. CASE Begun(w, y, s, k)
    <3>1. w.s.cache \in [Slots -> Pictures]
      BY <1>1 DEF Worlds, Sources
    <3>2. y.s.cache[k] = img /\ y.s.st[s].slot = k /\ k # NoSlot
      <4>1. y.s.cache = [w.s.cache EXCEPT ![k] = img] /\ y.s.st[s].slot = k
        BY <1>2 DEF Assigned
      <4>2. k # NoSlot
        BY DEF Slots, NoSlot
      <4>q. QED BY <3>1, <4>1, <4>2
    <3>q. QED BY <1>7, <2>2, <3>2 DEF Begun, HeldOf, Holds, Keeps
  <2>q. QED BY <1>2, <2>1, <2>2
<1>q. QED BY <1>3, <1>4, <1>6, <1>7
-----------------------------------------------------------------------------
(* An image that is cached is recalled: slot and packet follow it. *)
Recall(w, s, img, k) == [w EXCEPT !.s.st[s] = [@ EXCEPT !.slot = k, !.packet = [shape |-> k, img |-> img]]]

LEMMA RecallEffect ==
    ASSUME NEW w \in Worlds, NEW s \in Streams, NEW img \in Image, NEW k \in Slots,
           NEW y, y = Recall(w, s, img, k)
    PROVE  /\ y \in Worlds /\ y.q = w.q /\ y.ans = w.ans /\ y.doubt = w.doubt /\ y.asked = w.asked
           /\ y.lapsed = w.lapsed /\ y.adrift = w.adrift
           /\ y.s.cache = w.s.cache /\ y.s.selShape = w.s.selShape
           /\ \A r \in Streams \ {s} : y.s.st[r] = w.s.st[r]
           /\ LET u == w.s.st[s]  x == y.s.st[s] IN
              /\ x.slot = k /\ x.packet = [shape |-> k, img |-> img]
              /\ x.upShape = u.upShape /\ x.inflight = u.inflight /\ x.txDone = u.txDone /\ x.seen = u.seen
              /\ x.result = u.result /\ x.at = u.at /\ x.shown = u.shown
<1>1. PICK u, x : u = w.s.st[s] /\ x = [u EXCEPT !.slot = k, !.packet = [shape |-> k, img |-> img]]
  OBVIOUS
<1>2. w.s \in Sources /\ w.s.st \in [Streams -> Units] /\ u \in Units
  BY <1>1 DEF Worlds, Sources
<1>3. /\ x \in Units /\ x.slot = k /\ x.packet = [shape |-> k, img |-> img]
      /\ x.upShape = u.upShape /\ x.inflight = u.inflight /\ x.txDone = u.txDone /\ x.seen = u.seen
      /\ x.result = u.result /\ x.at = u.at /\ x.shown = u.shown
  <2>1. [shape |-> k, img |-> img] \in Packets /\ k \in Spots
    BY DEF Packets, Spots, Pictures
  <2>q. QED BY <1>1, <1>2, <2>1 DEF Units
<1>4. PICK src2 : src2 = [w.s EXCEPT !.st = [w.s.st EXCEPT ![s] = x]]
  OBVIOUS
<1>5. /\ src2 \in Sources /\ src2.st[s] = x /\ src2.cache = w.s.cache /\ src2.selShape = w.s.selShape
      /\ \A r \in Streams \ {s} : src2.st[r] = w.s.st[r]
  BY <1>2, <1>3, <1>4 DEF Sources
<1>6. y = [w EXCEPT !.s = src2]
  BY <1>1, <1>2, <1>4 DEF Recall, Worlds, Sources
<1>7. /\ y \in Worlds /\ y.s = src2 /\ y.q = w.q /\ y.ans = w.ans /\ y.doubt = w.doubt
      /\ y.asked = w.asked /\ y.lapsed = w.lapsed /\ y.adrift = w.adrift
  BY <1>5, <1>6 DEF Worlds
<1>q. QED BY <1>1, <1>3, <1>5, <1>7

LEMMA RecallGood ==
    ASSUME NEW w, NEW s \in Streams, NEW img \in Image, NEW k \in Slots,
           NEW y, y = Recall(w, s, img, k),
           Rest(w), ~w.s.st[s].inflight, w.s.cache[k] = img, \A r \in Streams \ {s} : HeldOf(w, r)
    PROVE  /\ Rest(y) /\ Started(w, y, s, img) /\ y.s.st[s].slot = k /\ y.s.cache[k] = img
           /\ \A r \in Streams \ {s} : HeldOf(y, r)
<1>1. w \in Worlds /\ Len(w.q) <= QueueCap /\ Shaped(w) /\ Single(w) /\ Mirrored(w) /\ Selected(w)
      /\ Stated(w) /\ Unmoved(w)
  BY DEF Rest
<1>2. PICK x : x = y.s.st[s]
  OBVIOUS
<1>3. /\ y \in Worlds /\ y.q = w.q /\ y.ans = w.ans /\ y.doubt = w.doubt /\ y.asked = w.asked
      /\ y.lapsed = w.lapsed /\ y.adrift = w.adrift
      /\ y.s.cache = w.s.cache /\ y.s.selShape = w.s.selShape
      /\ \A r \in Streams \ {s} : y.s.st[r] = w.s.st[r]
      /\ LET u == w.s.st[s]  z == y.s.st[s] IN
         /\ z.slot = k /\ z.packet = [shape |-> k, img |-> img]
         /\ z.upShape = u.upShape /\ z.inflight = u.inflight /\ z.txDone = u.txDone /\ z.seen = u.seen
         /\ z.result = u.result /\ z.at = u.at /\ z.shown = u.shown
  BY <1>1, RecallEffect
<1>b. y.q = w.q /\ y.ans = w.ans
  BY <1>3
<1>c. y.adrift = w.adrift /\ y.s.cache = w.s.cache
  BY <1>3
<1>d. \A r \in Streams \ {s} : y.s.st[r] = w.s.st[r]
  BY <1>3
<1>a. x.slot = k /\ x.packet = [shape |-> k, img |-> img]
  BY <1>2, <1>3
<1>4. ASSUME NEW r \in Streams
      PROVE  LET u == w.s.st[r]  z == y.s.st[r] IN
             /\ z.upShape = u.upShape /\ z.inflight = u.inflight /\ z.txDone = u.txDone /\ z.seen = u.seen
             /\ z.result = u.result /\ z.at = u.at /\ z.shown = u.shown
  <2>1. CASE r = s
    BY <1>3, <2>1
  <2>2. CASE r # s
    BY <1>3, <2>2
  <2>q. QED BY <2>1, <2>2
<1>5. Shaped(y)
  <2>1. ASSUME NEW r \in Streams
        PROVE  LET u == y.s.st[r] IN
               /\ u.inflight <=> u.upShape # NoSlot
               /\ u.txDone => u.inflight
               /\ u.inflight => u.packet.shape = u.upShape /\ u.slot # NoSlot
               /\ ~u.inflight => u.seen = NoAnswer
               /\ ~u.shown => u.at = 0
    <3>1. CASE r = s
      BY <1>1, <1>4, <3>1 DEF Shaped
    <3>2. CASE r # s
      BY <1>1, <1>3, <3>2 DEF Shaped
    <3>q. QED BY <3>1, <3>2
  <2>q. QED BY <2>1 DEF Shaped
<1>6. \A i, r : (IsImage(y, i, r) <=> IsImage(w, i, r)) /\ (Current(y, i, r) <=> Current(w, i, r))
  BY <1>3 DEF Current, IsImage
<1>7. Single(y)
  BY <1>1, <1>b, <1>4, <1>6 DEF Single
<1>8. Unmoved(y)
  BY <1>1, <1>b, <1>4, <1>6 DEF Unmoved
<1>9. Selected(y)
  BY <1>1, <1>3 DEF Selected, Last, Nowhere, IsKind
<1>10. Stated(y)
  BY <1>1, <1>b, <1>c, <1>4 DEF Stated, Last, Nowhere, IsKind
<1>11. ASSUME NEW j \in Slots, NEW i, Clean(w, j, i) PROVE Clean(y, j, i)
  <2> SUFFICES ASSUME NEW m \in DOMAIN y.q, m > i, y.q[m].kind = "image",
                      y.s.st[y.q[m].stream].packet.shape = j
               PROVE  y.s.st[y.q[m].stream].packet.img = y.s.cache[j]
    BY DEF Clean
  <2>1. PICK r : r = y.q[m].stream
    OBVIOUS
  <2>2. r \in Streams
    BY <1>3, <2>1 DEF Worlds, Items, Uploads, Selects, States
  <2>3. CASE r = s
    <3>1. x.packet.shape = k /\ x.packet.img = img
      BY <1>a
    <3>q. QED BY <1>2, <1>3, <2>1, <2>3, <3>1
  <2>4. CASE r # s
    BY <1>b, <1>c, <1>d, <1>11, <2>1, <2>2, <2>4 DEF Clean
  <2>q. QED BY <2>3, <2>4
<1>12. Mirrored(y)
  <2> SUFFICES ASSUME Live, NEW j \in Slots \ y.doubt, y.s.cache[j] # None
               PROVE  There(y, j) \/ (\E r \in Streams : Coming(y, j, r))
    BY DEF Mirrored
  <2>1. There(w, j) \/ (\E r \in Streams : Coming(w, j, r))
    BY <1>1, <1>3 DEF Mirrored
  <2>2. There(w, j) => There(y, j)
    BY <1>3, <1>11 DEF There
  <2>3. ASSUME NEW r \in Streams, Coming(w, j, r) PROVE Coming(y, j, r)
    <3>1. r # s
      BY <2>3 DEF Coming
    <3>2. y.s.st[r] = w.s.st[r]
      BY <1>3, <3>1
    <3>3. Taken(y, r) <=> Taken(w, r)
      BY <1>3, <3>2 DEF Taken
    <3>q. QED BY <1>3, <1>6, <1>11, <2>3, <3>2, <3>3 DEF Coming
  <2>q. QED BY <2>1, <2>2, <2>3
<1>13. Rest(y)
  BY <1>1, <1>3, <1>5, <1>7, <1>8, <1>9, <1>10, <1>12 DEF Rest
<1>14. Started(w, y, s, img)
  <2>1. k # NoSlot /\ x.packet.img = img
    BY <1>a DEF Slots, NoSlot
  <2>q. QED BY <1>2, <1>3, <1>a, <2>1 DEF Started
<1>15. \A r \in Streams \ {s} : HeldOf(y, r)
  BY <1>3 DEF HeldOf, Due, Holds, Keeps, Ahead
<1>q. QED BY <1>2, <1>3, <1>a, <1>13, <1>14, <1>15

LEMMA LeastOf ==
    ASSUME NEW T, T \subseteq Nat, T # {}
    PROVE  \E x \in T : \A y \in T : x <= y
<1>1. PICK R : R = OpToRel(<, Nat)
  OBVIOUS
<1>2. IsWellFoundedOn(R, Nat)
  BY <1>1, NatLessThanWellFounded
<1>3. PICK x \in T : \A y \in T : <<y, x>> \notin R
  BY <1>2, WFMin
<1>4. ASSUME NEW y \in T PROVE x <= y
  <2>1. x \in Nat /\ y \in Nat
    OBVIOUS
  <2>2. y < x => <<y, x>> \in R
    BY <1>1, <2>1 DEF OpToRel
  <2>q. QED BY <1>3, <2>1, <2>2
<1>q. QED BY <1>4

LEMMA MinOf ==
    ASSUME NEW T, T \subseteq Nat, T # {}
    PROVE  Min(T) \in T /\ \A y \in T : Min(T) <= y
<1>1. \E x \in T : \A y \in T : x <= y
  BY LeastOf
<1>q. QED BY <1>1 DEF Min

(* An image of the desktop is accepted, which it now has to show. *)
Accept(w, s, img) == [w EXCEPT !.asked[s] = img, !.lapsed = @ \ {s}]

LEMMA AcceptGood ==
    ASSUME NEW w, NEW s \in Streams, NEW img \in Image, NEW v, v = Accept(w, s, img), Good(w)
    PROVE  /\ Rest(v) /\ v.s = w.s /\ v.q = w.q /\ v.asked[s] = img
           /\ \A r \in Streams \ {s} : HeldOf(v, r)
<1>1. w \in Worlds /\ Rest(w)
  BY DEF Good, Rest
<1>2. PICK a, l : a = [w.asked EXCEPT ![s] = img] /\ l = w.lapsed \ {s}
  OBVIOUS
<1>3. w.asked \in [Streams -> Pictures] /\ img \in Pictures /\ l \in SUBSET Streams
  BY <1>1, <1>2 DEF Worlds, Pictures
<1>4. a \in [Streams -> Pictures] /\ a[s] = img /\ \A r \in Streams \ {s} : a[r] = w.asked[r]
  BY <1>2, <1>3
<1>5. v = [w EXCEPT !.asked = a, !.lapsed = l]
  BY <1>1, <1>2 DEF Accept, Worlds
<1>6. /\ v \in Worlds /\ v.s = w.s /\ v.q = w.q /\ v.ans = w.ans /\ v.doubt = w.doubt
      /\ v.asked = a /\ v.lapsed = l /\ v.adrift = w.adrift
  BY <1>1, <1>3, <1>4, <1>5 DEF Worlds
<1>7. Rest(v)
  BY <1>1, <1>6, RestSame
<1>8. ASSUME NEW r \in Streams \ {s} PROVE HeldOf(v, r)
  <2>1. v.asked[r] = w.asked[r] /\ (r \in v.lapsed <=> r \in w.lapsed) /\ v.s = w.s
    BY <1>2, <1>4, <1>6
  <2>2. HeldOf(w, r)
    BY DEF Good
  <2>q. QED BY <2>1, <2>2 DEF HeldOf, Due, Holds, Keeps, Ahead
<1>q. QED BY <1>4, <1>6, <1>7, <1>8

(* A packet is written only when nothing waits to read it. *)
Delivered(w, v, s) ==
    \A r \in Streams : v.s.st[r].packet # w.s.st[r].packet => r = s /\ Free(w, s)

SentImage(w, v, s, force) ==
    /\ Rest(v) /\ Delivered(w, v, s)
    /\ \A r \in Streams \ {s} : HeldOf(v, r)
    /\ ~force => HeldOf(v, s)
    /\ force => /\ v.s.st[s].slot # NoSlot /\ v.asked = w.asked
                /\ HeldOf(v, s) \/ v.s.st[s].packet.img # v.asked[s]

LEMMA StartedDelivered ==
    ASSUME NEW w, NEW x, NEW y, NEW v, NEW s \in Streams, NEW img, Calmer(w, x), Unmoved(x), ~x.s.st[s].inflight,
           y.s = x.s, Started(y, v, s, img)
    PROVE  Delivered(w, v, s)
<1>1. Free(w, s)
  BY DEF Calmer, Unmoved, Free, IsImage
<1>2. \A r \in Streams : r # s => v.s.st[r].packet = w.s.st[r].packet
  BY DEF Calmer, Started
<1>q. QED BY <1>1, <1>2 DEF Delivered

LEMMA SendImageGood ==
    ASSUME NEW w, NEW s \in Streams, NEW img \in Image, NEW force \in BOOLEAN,
           NEW v, v = SendImage(w, s, img, force), Good(w)
    PROVE  SentImage(w, v, s, force)
<1>1. PICK x : x = Pump(w, s)
  OBVIOUS
<1>2. Good(x) /\ Calmer(w, x)
  BY <1>1, PumpGood
<1>3. x \in Worlds /\ Rest(x) /\ Shaped(x) /\ Unmoved(x) /\ x.asked = w.asked
  BY <1>2 DEF Good, Rest, Calmer
<1>4. PICK y : y = IF force THEN x ELSE Accept(x, s, img)
  OBVIOUS
<1>5. /\ Rest(y) /\ y.s = x.s /\ y.q = x.q /\ (\A r \in Streams \ {s} : HeldOf(y, r))
      /\ ~force => y.asked[s] = img
      /\ force => y = x
  <2>1. CASE force
    BY <1>2, <1>4, <2>1 DEF Good
  <2>2. CASE ~force
    <3>1. y = Accept(x, s, img)
      BY <1>4, <2>2
    <3>q. QED BY <1>2, <2>2, <3>1, AcceptGood
  <2>q. QED BY <2>1, <2>2
<1>6. PICK hits : hits = {i \in Slots : x.s.cache[i] = img}
  OBVIOUS
<1>7. img # Disabled
  BY CursorAssumption DEF Disabled
<1>8. /\ x.s.st[s].inflight => v = Fine(x)
      /\ ~x.s.st[s].inflight /\ (force \/ hits = {}) => v = Upload(y, s, img)
      /\ ~x.s.st[s].inflight /\ ~force /\ hits # {} =>
            IF x.s.st[s].slot \in hits THEN v = Select(y, s)
            ELSE v = Select(Recall(y, s, img, Min(hits)), s)
  BY <1>1, <1>4, <1>6, <1>7 DEF SendImage, Accept, Recall
<1>9. CASE x.s.st[s].inflight
  <2>1. v = [x EXCEPT !.rc = 0]
    BY <1>8, <1>9 DEF Fine
  <2>2. Good(v) /\ v.s = x.s /\ v.asked = x.asked
    BY <1>2, <2>1, RcAside
  <2>3. v.s.st[s].slot # NoSlot
    BY <1>3, <1>9, <2>2 DEF Shaped
  <2>4. Delivered(w, v, s)
    BY <1>2, <2>2 DEF Delivered, Calmer
  <2>q. QED BY <1>3, <2>2, <2>3, <2>4 DEF SentImage, Good
<1>10. CASE ~x.s.st[s].inflight /\ (force \/ hits = {})
  <2>1. v = Upload(y, s, img) /\ ~y.s.st[s].inflight
    BY <1>5, <1>8, <1>10
  <2>2. /\ Rest(v) /\ Started(y, v, s, img)
        /\ \A r \in Streams \ {s} : HeldOf(v, r)
        /\ v.asked[s] = img => HeldOf(v, s)
    BY <1>5, <2>1, UploadGood
  <2>3. Delivered(w, v, s)
    BY <1>2, <1>3, <1>5, <1>10, <2>2, StartedDelivered
  <2>4. v.asked = y.asked /\ v.s.st[s].packet.img = img /\ v.s.st[s].slot # NoSlot
    BY <2>2 DEF Started
  <2>q. QED BY <1>3, <1>5, <2>2, <2>3, <2>4 DEF SentImage
<1>11. CASE ~x.s.st[s].inflight /\ ~force /\ hits # {}
  <2>1. CASE x.s.st[s].slot \in hits
    <3>1. v = Select(y, s)
      BY <1>8, <1>11, <2>1
    <3>2. NearlyOf(y, s)
      <4>1. y.s.st[s].slot \in Slots /\ y.s.cache[y.s.st[s].slot] = img
        BY <1>5, <1>6, <2>1
      <4>q. QED BY <1>5, <1>11, <4>1 DEF NearlyOf, Keeps, Slots, NoSlot
    <3>3. Good(v) /\ v.s.st = y.s.st
      BY <1>5, <3>1, <3>2, SelectGood
    <3>4. Delivered(w, v, s)
      BY <1>2, <1>5, <3>3 DEF Delivered, Calmer
    <3>q. QED BY <1>11, <3>3, <3>4 DEF SentImage, Good
  <2>2. CASE x.s.st[s].slot \notin hits
    <3>1. PICK k : k = Min(hits)
      OBVIOUS
    <3>2. k \in Slots /\ x.s.cache[k] = img
      <4>1. hits \subseteq Nat
        BY <1>6 DEF Slots
      <4>2. k \in hits
        BY <1>11, <3>1, <4>1, MinOf
      <4>q. QED BY <1>6, <4>2
    <3>3. PICK z : z = Recall(y, s, img, k)
      OBVIOUS
    <3>4. v = Select(z, s)
      BY <1>8, <1>11, <2>2, <3>1, <3>3
    <3>5. ~y.s.st[s].inflight /\ y.s.cache[k] = img
      BY <1>5, <1>11, <3>2
    <3>6. /\ Rest(z) /\ Started(y, z, s, img) /\ z.s.st[s].slot = k /\ z.s.cache[k] = img
          /\ \A r \in Streams \ {s} : HeldOf(z, r)
      BY <1>5, <3>2, <3>3, <3>5, RecallGood
    <3>7. NearlyOf(z, s)
      <4>1. z.asked[s] = img /\ k # NoSlot
        BY <1>5, <1>11, <3>2, <3>6 DEF Started, Slots, NoSlot
      <4>q. QED BY <3>6, <4>1 DEF NearlyOf, Keeps
    <3>8. Good(v) /\ v.s.st = z.s.st
      BY <3>4, <3>6, <3>7, SelectGood
    <3>9. Delivered(w, z, s)
      BY <1>2, <1>3, <1>5, <1>11, <3>6, StartedDelivered
    <3>10. Delivered(w, v, s)
      BY <3>8, <3>9 DEF Delivered
    <3>q. QED BY <1>11, <3>8, <3>10 DEF SentImage, Good
  <2>q. QED BY <2>1, <2>2
<1>q. QED BY <1>9, <1>10, <1>11
-----------------------------------------------------------------------------
(* The invariant. *)
Devices == [slots : [Slots -> Pictures], sel : [Streams -> Spots],
            state : [Streams -> [at : Places, shown : BOOLEAN]]]
JobSet  == [stream : Streams, set : Pictures \cup {Disabled}, move : Places \cup {NoSlot}]
Todos   == [Streams -> [img : Pictures, at : Places, shown : BOOLEAN]]

Types == /\ dev \in Devices /\ note \in [Streams -> Notes]
         /\ ct \in [at : Threads, k : Streams] /\ main \in [at : Mains, k : Streams]
         /\ job \in JobSet /\ todo \in Todos
         /\ misled \subseteq Streams /\ reverted \subseteq Streams /\ overtaken \subseteq Streams

(* Nobody sleeps on an upload, except while a replay makes them. *)
Sleeping == ct.at = "asleep" /\ main.at \notin {"replay", "wake"}
              => \A s \in Streams : ~src.st[s].inflight

(* When the end is near only the transport runs, and it holds no packet of a
   stream that is freed. *)
Leaving == /\ main.at \in {"streams", "freed", "closed"} => ct.at = "exited"
           /\ main.at = "freed" => \A s \in Streams : Free(World, s)

Inv == Good(World) /\ Types /\ Sleeping /\ Leaving

(* What else the parts are about. *)
LEMMA Carried ==
    ASSUME NEW v, Rest(v), dev' = dev, misled' = misled, overtaken \subseteq overtaken',
           Live' => Live, main'.at # "closed" => main.at # "closed"
    PROVE  Rest(v)'
<1>1. Mirrored(v)' /\ Selected(v)'
  BY DEF Rest, Mirrored, Selected, There
<1>2. Stated(v)'
  BY DEF Rest, Stated
<1>3. Unmoved(v)'
  BY DEF Rest, Unmoved
<1>q. QED BY <1>1, <1>2, <1>3 DEF Rest

LEMMA Carries ==
    ASSUME NEW v, Good(v), UNCHANGED <<dev, misled, overtaken, main, todo, reverted>>
    PROVE  Good(v)'
BY DEF Good, Rest, Mirrored, Live, There, Selected, Stated, Unmoved, HeldOf, Due, Ahead

LEMMA Becoming ==
    ASSUME NEW v \in Worlds, Become(v), NEW y, y = [v EXCEPT !.rc = 0]
    PROVE  World' = y
<1>1. y \in Worlds /\ y.s = v.s /\ y.q = v.q /\ y.rc = 0 /\ y.ans = v.ans /\ y.doubt = v.doubt
      /\ y.asked = v.asked /\ y.lapsed = v.lapsed /\ y.adrift = v.adrift
  BY DEF Worlds
<1>2. y = [s |-> v.s, q |-> v.q, rc |-> 0, ans |-> v.ans,
          doubt |-> v.doubt, asked |-> v.asked, lapsed |-> v.lapsed, adrift |-> v.adrift]
  BY <1>1 DEF Worlds
<1>q. QED BY <1>2 DEF Become, World

LEMMA BecomesGood ==
    ASSUME NEW v, Good(v), Become(v), UNCHANGED <<dev, misled, overtaken, main, todo, reverted>>
    PROVE  Good(World)'
<1>1. PICK y : y = [v EXCEPT !.rc = 0]
  OBVIOUS
<1>2. Good(y)
  BY <1>1, RcAside
<1>3. Good(y)'
  BY <1>2, Carries
<1>4. World' = y
  BY <1>1, Becoming DEF Good, Rest
<1>q. QED BY <1>3, <1>4

LEMMA StaysGood ==
    ASSUME Good(World), UNCHANGED <<src, queue, wire, ghosts, main, todo>>
    PROVE  Good(World)'
<1>1. PICK w : w = World
  OBVIOUS
<1>2. World' = w
  BY <1>1 DEF World, wire, ghosts
<1>3. Good(w)'
  BY <1>1, Carries DEF wire, ghosts
<1>q. QED BY <1>2, <1>3

LEMMA WorldIs == /\ World.s = src /\ World.q = queue /\ World.rc = 0 /\ World.ans = answers
                 /\ World.doubt = doubt /\ World.asked = asked /\ World.lapsed = lapsed
                 /\ World.adrift = adrift
BY DEF World

LEMMA MinStream == Min(Streams) \in Streams /\ \A s \in Streams : Min(Streams) <= s
BY CursorAssumption, MinOf

LEMMA MinLater ==
    ASSUME NEW s \in Streams, Later(s) # {}
    PROVE  /\ Min(Later(s)) \in Streams /\ Min(Later(s)) > s
           /\ \A r \in Later(s) : r >= Min(Later(s))
<1>1. Later(s) \subseteq Streams /\ Later(s) \subseteq Nat
  BY CursorAssumption DEF Later
<1>2. Min(Later(s)) \in Later(s) /\ \A r \in Later(s) : Min(Later(s)) <= r
  BY <1>1, MinOf
<1>3. \A r \in Later(s) : r >= Min(Later(s))
  BY <1>1, <1>2
<1>q. QED BY <1>1, <1>2, <1>3 DEF Later

LEMMA WakingUp ==
    ASSUME Awake, Types
    PROVE  /\ ct' \in [at : Threads, k : Streams] /\ ct'.at # "asleep"
           /\ ct.at = "exited" => ct'.at = "exited"
BY DEF Awake, Types, Threads

-----------------------------------------------------------------------------
(* The desktop. *)
LEMMA CursorSetInv ==
    ASSUME Inv, NEW s \in Streams, NEW img \in Image \cup {Disabled}, CursorSet(s, img)
    PROVE  Inv'
<1>1. Good(World)'
  BY StaysGood DEF CursorSet, Inv
<1>2. note' \in [Streams -> Notes]
  BY DEF CursorSet, Inv, Types, Notes, Pictures
<1>3. ct' \in [at : Threads, k : Streams] /\ ct'.at # "asleep" /\ (ct.at = "exited" => ct'.at = "exited")
  BY WakingUp DEF CursorSet, Inv
<1>4. UNCHANGED <<src, queue, job, main, todo, wire, ghosts>>
  BY DEF CursorSet
<1>5. Types'
  BY <1>2, <1>3, <1>4 DEF Inv, Types, wire, ghosts
<1>6. Leaving'
  BY <1>3, <1>4 DEF CursorSet, Inv, Leaving
<1>q. QED BY <1>1, <1>3, <1>5, <1>6 DEF Inv, Sleeping

LEMMA CursorMoveInv ==
    ASSUME Inv, NEW s \in Streams, NEW at \in Places, CursorMove(s, at)
    PROVE  Inv'
<1>1. Good(World)'
  BY StaysGood DEF CursorMove, Inv
<1>2. note' \in [Streams -> Notes]
  BY DEF CursorMove, Inv, Types, Notes
<1>3. ct' \in [at : Threads, k : Streams] /\ ct'.at # "asleep" /\ (ct.at = "exited" => ct'.at = "exited")
  BY WakingUp DEF CursorMove, Inv
<1>4. UNCHANGED <<src, queue, job, main, todo, wire, ghosts>>
  BY DEF CursorMove
<1>5. Types'
  BY <1>2, <1>3, <1>4 DEF Inv, Types, wire, ghosts
<1>6. Leaving'
  BY <1>3, <1>4 DEF CursorMove, Inv, Leaving
<1>q. QED BY <1>1, <1>3, <1>5, <1>6 DEF Inv, Sleeping

(* The cursor thread. *)
LEMMA PickedUp ==
    ASSUME Inv, NEW v, Good(v), Become(v), ct.at # "exited", ct'.at # "asleep",
           ct' \in [at : Threads, k : Streams], job' \in JobSet,
           UNCHANGED <<note, main, todo, dev, overtaken, misled, reverted>>
    PROVE  Inv'
<1>1. Good(World)'
  BY BecomesGood
<1>2. Types'
  BY DEF Inv, Types
<1>3. Sleeping'
  BY DEF Sleeping
<1>4. Leaving'
  <2>1. main'.at \notin {"streams", "freed", "closed"}
    BY DEF Inv, Leaving
  <2>q. QED BY <2>1 DEF Leaving
<1>q. QED BY <1>1, <1>2, <1>3, <1>4 DEF Inv

LEMMA PumpAllType == PumpAll \in [at : Threads, k : Streams] /\ PumpAll.at = "pump"
BY MinStream DEF PumpAll, Threads

LEMMA NoJobType == NoJob \in JobSet
BY MinStream DEF NoJob, JobSet, Pictures

LEMMA CtPumpInv ==
    ASSUME Inv, CtPump
    PROVE  Inv'
<1>1. PICK v : v = IF usb THEN Pump(World, ct.k) ELSE World
  OBVIOUS
<1>2. ct \in [at : Threads, k : Streams] /\ ct.k \in Streams /\ Good(World)
  BY DEF Inv, Types
<1>3. Good(v)
  BY <1>1, <1>2, PumpGood
<1>4. Become(v) /\ ct.at = "pump"
  BY <1>1 DEF CtPump
<1>5. ct' \in [at : Threads, k : Streams] /\ ct'.at # "asleep"
  <2>1. CASE Later(ct.k) = {}
    BY <1>2, <2>1 DEF CtPump, Threads
  <2>2. CASE Later(ct.k) # {}
    <3>1. Min(Later(ct.k)) \in Streams
      BY <1>2, <2>2, MinLater
    <3>q. QED BY <1>2, <1>4, <2>2, <3>1 DEF CtPump, Threads
  <2>q. QED BY <2>1, <2>2
<1>6. job' \in JobSet /\ UNCHANGED <<note, main, todo, dev, overtaken, misled, reverted>>
  BY DEF CtPump, Inv, Types
<1>q. QED BY <1>3, <1>4, <1>5, <1>6, PickedUp

LEMMA CtFetchInv ==
    ASSUME Inv, CtFetch
    PROVE  Inv'
<1>1. UNCHANGED <<src, queue, main, todo, wire, ghosts>> /\ ct.at \in {"fetch", "doze"}
  BY DEF CtFetch
<1>2. Good(World)'
  BY <1>1, StaysGood DEF Inv
<1>3. ct \in [at : Threads, k : Streams] /\ note \in [Streams -> Notes] /\ job \in JobSet
  BY DEF Inv, Types
<1>4. /\ ct' \in [at : Threads, k : Streams] /\ note' \in [Streams -> Notes] /\ job' \in JobSet
      /\ ct'.at = "asleep" => ~AnyInflight
  <2>1. CASE AnyPending
    <3>1. PICK T : T = {r \in Streams : Pending(r)}
      OBVIOUS
    <3>2. Min(T) \in T
      <4>1. T \subseteq Nat
        BY <3>1, CursorAssumption
      <4>2. T # {}
        BY <2>1, <3>1 DEF AnyPending
      <4>q. QED BY <4>1, <4>2, MinOf
    <3>3. PICK s \in Streams : s = Min(T)
      BY <3>1, <3>2
    <3>4. /\ job' = [stream |-> s, set |-> note[s].set, move |-> note[s].move]
          /\ note' = [note EXCEPT ![s] = [set |-> None, move |-> NoSlot]]
          /\ ct' = [ct EXCEPT !.at = "set"]
      BY <2>1, <3>1, <3>3 DEF CtFetch
    <3>5. note[s] \in Notes /\ [set |-> None, move |-> NoSlot] \in Notes
      BY <1>3 DEF Notes, Pictures
    <3>6. job' \in JobSet
      BY <3>4, <3>5 DEF Notes, JobSet
    <3>7. note' \in [Streams -> Notes]
      BY <1>3, <3>4, <3>5
    <3>8. ct' \in [at : Threads, k : Streams] /\ ct'.at = "set"
      BY <1>3, <3>4 DEF Threads
    <3>q. QED BY <3>6, <3>7, <3>8
  <2>2. CASE ~AnyPending
    <3>1. UNCHANGED <<note, job>>
      BY <2>2 DEF CtFetch
    <3>2. ct' \in [at : Threads, k : Streams] /\ (ct'.at = "asleep" => ~AnyInflight)
      <4>1. PICK c : c = CASE stop -> "exited"
                           [] ~stop /\ ct.at = "doze" -> "pump"
                           [] ~stop /\ ct.at = "fetch" -> IF AnyInflight THEN "doze" ELSE "asleep"
        OBVIOUS
      <4>2. ct' = [ct EXCEPT !.at = c, !.k = Min(Streams)]
        BY <2>2, <4>1 DEF CtFetch
      <4>3. stop => c = "exited"
        BY <4>1
      <4>4. ~stop /\ ct.at = "doze" => c = "pump"
        BY <4>1
      <4>5. ~stop /\ ct.at = "fetch" => c = "doze" \/ (c = "asleep" /\ ~AnyInflight)
        BY <4>1
      <4>6. c = "exited" \/ c = "pump" \/ c = "doze" \/ (c = "asleep" /\ ~AnyInflight)
        BY <1>1, <4>3, <4>4, <4>5
      <4>7. Min(Streams) \in Streams /\ c \in Threads
        BY <4>6, MinStream DEF Threads
      <4>8. ct' \in [at : Threads, k : Streams] /\ ct'.at = c
        BY <1>3, <4>2, <4>7
      <4>q. QED BY <4>6, <4>8
    <3>q. QED BY <1>3, <3>1, <3>2
  <2>q. QED BY <2>1, <2>2
<1>5. Types'
  BY <1>1, <1>4 DEF Inv, Types, wire, ghosts
<1>6. Sleeping'
  BY <1>1, <1>4 DEF Sleeping, AnyInflight
<1>7. Leaving'
  <2>1. main'.at \notin {"streams", "freed", "closed"}
    BY <1>1 DEF Inv, Leaving
  <2>q. QED BY <2>1 DEF Leaving
<1>q. QED BY <1>2, <1>5, <1>6, <1>7 DEF Inv

LEMMA SubmitStateIs ==
    ASSUME NEW w, Good(w), NEW s \in Streams, NEW at \in Places, NEW v,
           v = SubmitState(w, s, at, TRUE, FALSE) \/ v = SubmitState(w, s, at, TRUE, TRUE)
    PROVE  Stating(w, v)
<1>1. TRUE \in BOOLEAN /\ FALSE \in BOOLEAN
  OBVIOUS
<1>2. CASE v = SubmitState(w, s, at, TRUE, FALSE)
  BY <1>1, <1>2, SubmitStateGood, Zenon
<1>3. CASE v = SubmitState(w, s, at, TRUE, TRUE)
  BY <1>1, <1>3, SubmitStateGood, Zenon
<1>q. QED BY <1>2, <1>3

LEMMA HideIs ==
    ASSUME NEW w, Good(w), NEW s \in Streams, NEW v, v = SubmitState(w, s, 0, FALSE, FALSE)
    PROVE  Stating(w, v)
<1>1. FALSE \in BOOLEAN /\ 0 \in Places /\ 0 = 0
  BY DEF Places
<1>q. QED BY <1>1, SubmitStateGood, Zenon

LEMMA CtSetInv ==
    ASSUME Inv, CtSet
    PROVE  Inv'
<1>1. PICK v : v = IF job.set = None THEN World ELSE SendImage(World, job.stream, job.set, FALSE)
  OBVIOUS
<1>2. job \in JobSet /\ ct \in [at : Threads, k : Streams] /\ Good(World)
  BY DEF Inv, Types
<1>3. PICK s \in Streams, img \in Pictures \cup {Disabled} : s = job.stream /\ img = job.set
  BY <1>2 DEF JobSet
<1>4. Good(v)
  <2>1. CASE img = None
    BY <1>1, <1>2, <1>3, <2>1
  <2>2. CASE img = Disabled /\ img # None
    <3>1. v = SubmitState(World, s, 0, FALSE, FALSE)
      BY <1>1, <1>3, <2>2 DEF SendImage
    <3>q. QED BY <1>2, <3>1, HideIs DEF Stating
  <2>3. CASE img \in Image /\ img # None
    <3>1. v = SendImage(World, s, img, FALSE)
      BY <1>1, <1>3, <2>3
    <3>2. FALSE \in BOOLEAN
      OBVIOUS
    <3>3. SentImage(World, v, s, FALSE)
      BY <1>2, <2>3, <3>1, <3>2, SendImageGood, Zenon
    <3>q. QED BY <3>3 DEF SentImage, Good
  <2>q. QED BY <2>1, <2>2, <2>3 DEF Pictures
<1>5. Become(v) /\ ct.at = "set" /\ ct' = [ct EXCEPT !.at = "move"]
  BY <1>1 DEF CtSet
<1>6. ct' \in [at : Threads, k : Streams] /\ ct'.at # "asleep" /\ ct.at # "exited"
  BY <1>2, <1>5 DEF Threads
<1>7. job' \in JobSet /\ UNCHANGED <<note, main, todo, dev, overtaken, misled, reverted>>
  BY <1>2 DEF CtSet
<1>q. QED BY <1>4, <1>5, <1>6, <1>7, PickedUp

LEMMA CtMoveInv ==
    ASSUME Inv, CtMove
    PROVE  Inv'
<1>1. PICK v : v = IF job.move = NoSlot THEN World ELSE SubmitState(World, job.stream, job.move, TRUE, FALSE)
  OBVIOUS
<1>2. job \in JobSet /\ ct \in [at : Threads, k : Streams] /\ Good(World)
  BY DEF Inv, Types
<1>3. PICK s \in Streams, at \in Places \cup {NoSlot} : s = job.stream /\ at = job.move
  BY <1>2 DEF JobSet
<1>4. Good(v)
  <2>1. CASE at = NoSlot
    BY <1>1, <1>2, <1>3, <2>1
  <2>2. CASE at \in Places /\ at # NoSlot
    <3>1. v = SubmitState(World, s, at, TRUE, FALSE)
      BY <1>1, <1>3, <2>2
    <3>q. QED BY <1>2, <2>2, <3>1, SubmitStateIs DEF Stating
  <2>q. QED BY <2>1, <2>2
<1>5. Become(v) /\ ct.at = "move"
  BY <1>1 DEF CtMove
<1>6. ct' \in [at : Threads, k : Streams] /\ ct'.at # "asleep" /\ ct.at # "exited"
  <2>1. ct' = [ct EXCEPT !.at = "hide"] \/ ct' = PumpAll
    BY DEF CtMove
  <2>q. QED BY <1>2, <1>5, <2>1, PumpAllType DEF Threads
<1>7. UNCHANGED <<note, main, todo, dev, overtaken, misled, reverted>> /\ job' \in JobSet
  BY <1>2, NoJobType DEF CtMove
<1>q. QED BY <1>4, <1>5, <1>6, <1>7, PickedUp

LEMMA CtHideInv ==
    ASSUME Inv, CtHide
    PROVE  Inv'
<1>1. PICK v : v = SubmitState(World, job.stream, 0, FALSE, FALSE)
  OBVIOUS
<1>2. job \in JobSet /\ Good(World) /\ job.stream \in Streams
  BY DEF Inv, Types, JobSet
<1>3. Good(v)
  BY <1>1, <1>2, HideIs DEF Stating
<1>4. Become(v) /\ ct.at # "exited" /\ ct' \in [at : Threads, k : Streams] /\ ct'.at # "asleep"
  BY <1>1, PumpAllType DEF CtHide
<1>5. UNCHANGED <<note, main, todo, dev, overtaken, misled, reverted>> /\ job' \in JobSet
  BY NoJobType DEF CtHide
<1>q. QED BY <1>3, <1>4, <1>5, PickedUp
-----------------------------------------------------------------------------
(* Answers that are counted or lost, and time. *)
SameButSeen(w, v) ==
    /\ v.q = w.q /\ v.s.cache = w.s.cache /\ v.s.selShape = w.s.selShape
    /\ v.doubt = w.doubt /\ v.asked = w.asked /\ v.lapsed = w.lapsed /\ v.adrift = w.adrift
    /\ \A s \in Streams : LET u == w.s.st[s]  x == v.s.st[s] IN
       /\ x.slot = u.slot /\ x.upShape = u.upShape /\ x.inflight = u.inflight /\ x.txDone = u.txDone
       /\ x.result = u.result /\ x.at = u.at /\ x.shown = u.shown /\ x.packet = u.packet

Heard(w, v) ==
    /\ \A n \in DOMAIN v.ans : \E m \in DOMAIN w.ans : v.ans[n] = w.ans[m]
    /\ \A s \in Streams : \/ v.s.st[s].seen = w.s.st[s].seen
                          \/ w.s.st[s].inflight /\ \E m \in DOMAIN w.ans : v.s.st[s].seen = w.ans[m]

LEMMA HeardTaken ==
    ASSUME NEW w, NEW v, Heard(w, v), NEW s \in Streams
    PROVE  /\ Taken(v, s) => Taken(w, s)
           /\ \A n \in DOMAIN v.ans : Own(v.ans[n], s) => \E m \in DOMAIN w.ans : Own(w.ans[m], s)
           /\ Own(v.s.st[s].seen, s) => \/ Own(w.s.st[s].seen, s)
                                        \/ \E m \in DOMAIN w.ans : Own(w.ans[m], s)
BY DEF Heard, Taken

LEMMA HeardGood ==
    ASSUME NEW w, NEW v \in Worlds, SameButSeen(w, v), Heard(w, v), Good(w)
    PROVE  Good(v)
<1>1. w \in Worlds /\ Len(w.q) <= QueueCap /\ Shaped(w) /\ Single(w) /\ Mirrored(w) /\ Selected(w)
      /\ Stated(w) /\ Unmoved(w)
  BY DEF Good, Rest
<1>2. v.q = w.q /\ v.s.cache = w.s.cache /\ v.s.selShape = w.s.selShape
      /\ v.doubt = w.doubt /\ v.asked = w.asked /\ v.lapsed = w.lapsed /\ v.adrift = w.adrift
  BY DEF SameButSeen
<1>a. v.q = w.q
  BY DEF SameButSeen
<1>3. ASSUME NEW s \in Streams
      PROVE  LET u == w.s.st[s]  x == v.s.st[s] IN
             /\ x.slot = u.slot /\ x.upShape = u.upShape /\ x.inflight = u.inflight /\ x.txDone = u.txDone
             /\ x.result = u.result /\ x.at = u.at /\ x.shown = u.shown /\ x.packet = u.packet
  BY DEF SameButSeen
<1>4. Shaped(v)
  <2>1. ASSUME NEW s \in Streams PROVE ~v.s.st[s].inflight => v.s.st[s].seen = NoAnswer
    BY <1>1, <1>3 DEF Heard, Shaped
  <2>q. QED BY <1>1, <1>3, <2>1 DEF Shaped
<1>5. \A i, s : (IsImage(v, i, s) <=> IsImage(w, i, s)) /\ (Current(v, i, s) <=> Current(w, i, s))
  BY <1>a DEF IsImage, Current
<1>6. Single(v)
  <2>1. ASSUME NEW s \in Streams
        PROVE  LET u == v.s.st[s] IN
               /\ \A i \in DOMAIN v.q : Current(v, i, s) =>
                     /\ u.inflight /\ ~Own(u.seen, s)
                     /\ \A m \in DOMAIN v.ans : ~Own(v.ans[m], s)
                     /\ \A j \in DOMAIN v.q : Current(v, j, s) => j = i
               /\ \A m \in DOMAIN v.ans : Own(v.ans[m], s) => u.inflight
    <3>1. v.s.st[s].inflight = w.s.st[s].inflight
      BY <1>3
    <3>2. /\ \A n \in DOMAIN v.ans : Own(v.ans[n], s) => \E m \in DOMAIN w.ans : Own(w.ans[m], s)
          /\ Own(v.s.st[s].seen, s) => \/ Own(w.s.st[s].seen, s)
                                       \/ \E m \in DOMAIN w.ans : Own(w.ans[m], s)
      BY HeardTaken
    <3>q. QED BY <1>1, <1>a, <1>5, <3>1, <3>2 DEF Single
  <2>q. QED BY <2>1 DEF Single
<1>7. Unmoved(v)
  BY <1>1, <1>a, <1>3, <1>5 DEF Unmoved
<1>8. Selected(v)
  BY <1>1, <1>2 DEF Selected, Last, Nowhere, IsKind
<1>9. Stated(v)
  <2>1. v.adrift = w.adrift
    BY <1>2
  <2>q. QED BY <1>1, <1>a, <1>3, <2>1 DEF Stated, Last, Nowhere, IsKind
<1>10. ASSUME NEW j, NEW i, Clean(w, j, i) PROVE Clean(v, j, i)
  <2>1. \A m \in DOMAIN w.q : w.q[m].stream \in Streams
    BY <1>1 DEF Worlds, Items, Uploads, Selects, States
  <2>2. v.s.cache = w.s.cache
    BY <1>2
  <2>3. \A s \in Streams : v.s.st[s].packet = w.s.st[s].packet
    BY <1>3
  <2>q. QED BY <1>a, <1>10, <2>1, <2>2, <2>3 DEF Clean
<1>11. Mirrored(v)
  <2> SUFFICES ASSUME Live, NEW j \in Slots \ v.doubt, v.s.cache[j] # None
               PROVE  There(v, j) \/ (\E r \in Streams : Coming(v, j, r))
    BY DEF Mirrored
  <2>1. There(w, j) \/ (\E r \in Streams : Coming(w, j, r))
    BY <1>1, <1>2 DEF Mirrored
  <2>2. There(w, j) => There(v, j)
    BY <1>2, <1>10 DEF There
  <2>3. ASSUME NEW r \in Streams, Coming(w, j, r) PROVE Coming(v, j, r)
    <3>1. v.s.st[r].inflight = w.s.st[r].inflight /\ v.s.st[r].upShape = w.s.st[r].upShape
          /\ v.s.st[r].packet = w.s.st[r].packet
      BY <1>3
    <3>2. Taken(v, r) => Taken(w, r)
      BY HeardTaken
    <3>3. v.s.cache = w.s.cache
      BY <1>2
    <3>q. QED BY <1>a, <1>5, <1>10, <2>3, <3>1, <3>2, <3>3 DEF Coming
  <2>q. QED BY <2>1, <2>2, <2>3
<1>12. ASSUME NEW s \in Streams PROVE HeldOf(v, s)
  <2>1. v.s.st[s].slot = w.s.st[s].slot /\ v.s.st[s].inflight = w.s.st[s].inflight
        /\ v.s.st[s].upShape = w.s.st[s].upShape
    BY <1>3
  <2>2. HeldOf(w, s)
    BY DEF Good
  <2>q. QED BY <1>2, <2>1, <2>2 DEF HeldOf, Due, Holds, Keeps, Ahead
<1>q. QED BY <1>1, <1>2, <1>4, <1>6, <1>7, <1>8, <1>9, <1>11, <1>12 DEF Good, Rest

LEMMA HeardInv ==
    ASSUME Inv, NEW st \in [Streams -> Units], src' = [src EXCEPT !.st = st],
           answers' \in Seq(Answers),
           \A n \in DOMAIN answers' : \E m \in DOMAIN answers : answers'[n] = answers[m],
           \A s \in Streams : LET u == src.st[s]  x == st[s] IN
              /\ x.slot = u.slot /\ x.upShape = u.upShape /\ x.inflight = u.inflight /\ x.txDone = u.txDone
              /\ x.result = u.result /\ x.at = u.at /\ x.shown = u.shown /\ x.packet = u.packet
              /\ x.seen = u.seen \/ (u.inflight /\ \E m \in DOMAIN answers : x.seen = answers[m]),
           UNCHANGED <<queue, sys, dev, ghosts>>
    PROVE  Inv'
<1>1. PICK w, v : w = World /\ v = World'
  OBVIOUS
<1>2. w \in Worlds /\ Good(w)
  BY <1>1 DEF Inv, Good, Rest
<1>3. /\ w.s = src /\ w.q = queue /\ w.rc = 0 /\ w.ans = answers /\ w.doubt = doubt
      /\ w.asked = asked /\ w.lapsed = lapsed /\ w.adrift = adrift
  BY <1>1, WorldIs
<1>4. /\ v.s = src' /\ v.q = queue /\ v.rc = 0 /\ v.ans = answers' /\ v.doubt = doubt
      /\ v.asked = asked /\ v.lapsed = lapsed /\ v.adrift = adrift
  BY <1>1 DEF World, ghosts
<1>5. src \in Sources
  BY <1>2, <1>3 DEF Worlds
<1>6. src' \in Sources /\ src'.st = st /\ src'.cache = src.cache /\ src'.selShape = src.selShape
  BY <1>5 DEF Sources
<1>7. v \in Worlds
  <2>1. v = [s |-> src', q |-> queue, rc |-> 0, ans |-> answers', doubt |-> doubt,
             asked |-> asked, lapsed |-> lapsed, adrift |-> adrift]
    BY <1>1 DEF World, ghosts
  <2>2. /\ queue \in Seq(Items) /\ doubt \in SUBSET Slots /\ asked \in [Streams -> Pictures]
        /\ lapsed \in SUBSET Streams /\ adrift \in SUBSET Streams
    BY <1>2, <1>3 DEF Worlds
  <2>q. QED BY <1>6, <2>1, <2>2 DEF Worlds
<1>8. SameButSeen(w, v)
  BY <1>3, <1>4, <1>6 DEF SameButSeen
<1>9. Heard(w, v)
  BY <1>3, <1>4, <1>6 DEF Heard
<1>10. Good(v)
  BY <1>2, <1>7, <1>8, <1>9, HeardGood
<1>11. Good(v)'
  BY <1>10, Carries DEF sys, ghosts
<1>12. Types'
  BY DEF Inv, Types, sys, ghosts
<1>13. Sleeping'
  BY <1>6 DEF Inv, Sleeping, sys
<1>14. Leaving'
  <2>1. \A s \in Streams : Free(w, s) => Free(v, s)'
    BY <1>3, <1>4 DEF Free, IsImage, ghosts
  <2>q. QED BY <1>1, <2>1 DEF Inv, Leaving, sys
<1>q. QED BY <1>1, <1>11, <1>12, <1>13, <1>14 DEF Inv

LEMMA ResponseInv ==
    ASSUME Inv, Response
    PROVE  Inv'
<1>1. PICK a : a = Head(answers)
  OBVIOUS
<1>2. PICK st : st = [s \in Streams |-> [src.st[s] EXCEPT !.seen = IF src.st[s].inflight THEN Head(answers) ELSE src.st[s].seen]]
  OBVIOUS
<1>3. answers \in Seq(Answers) /\ answers # << >> /\ src \in Sources
  BY WorldIs DEF Inv, Good, Rest, Worlds, Response
<1>4. a \in Answers /\ 1 \in DOMAIN answers /\ a = answers[1] /\ answers' \in Seq(Answers)
  <2>1. answers' = Tail(answers)
    BY DEF Response
  <2>q. QED BY <1>1, <1>3, <2>1
<1>5. \A n \in DOMAIN answers' : \E m \in DOMAIN answers : answers'[n] = answers[m]
  <2>1. answers' = Tail(answers)
    BY DEF Response
  <2>2. ASSUME NEW n \in DOMAIN answers' PROVE n + 1 \in DOMAIN answers /\ answers'[n] = answers[n + 1]
    BY <1>3, <2>1, <2>2
  <2>q. QED BY <2>2
<1>6. src.st \in [Streams -> Units]
  BY <1>3 DEF Sources
<1>7. ASSUME NEW s \in Streams
      PROVE  LET u == src.st[s]  x == st[s] IN
              /\ x \in Units
              /\ x.slot = u.slot /\ x.upShape = u.upShape /\ x.inflight = u.inflight /\ x.txDone = u.txDone
              /\ x.result = u.result /\ x.at = u.at /\ x.shown = u.shown /\ x.packet = u.packet
              /\ x.seen = u.seen \/ (u.inflight /\ x.seen = answers[1])
  <2>1. PICK u, e : u = src.st[s] /\ e = IF src.st[s].inflight THEN a ELSE src.st[s].seen
    OBVIOUS
  <2>2. u \in Units /\ e \in Answers
    BY <1>4, <1>6, <2>1 DEF Units
  <2>3. st[s] = [u EXCEPT !.seen = e]
    BY <1>1, <1>2, <2>1
  <2>q. QED BY <1>4, <2>1, <2>2, <2>3 DEF Units
<1>8. st \in [Streams -> Units]
  BY <1>2, <1>7
<1>9. src' = [src EXCEPT !.st = st]
  BY <1>2 DEF Response
<1>10. UNCHANGED <<queue, sys, dev, ghosts>>
  BY DEF Response
<1>11. \A s \in Streams : LET u == src.st[s]  x == st[s] IN
              /\ x.slot = u.slot /\ x.upShape = u.upShape /\ x.inflight = u.inflight /\ x.txDone = u.txDone
              /\ x.result = u.result /\ x.at = u.at /\ x.shown = u.shown /\ x.packet = u.packet
              /\ x.seen = u.seen \/ (u.inflight /\ \E m \in DOMAIN answers : x.seen = answers[m])
  BY <1>4, <1>7
<1>q. QED BY <1>4, <1>5, <1>8, <1>9, <1>10, <1>11, HeardInv

LEMMA ResponseLostInv ==
    ASSUME Inv, ResponseLost
    PROVE  Inv'
<1>1. answers \in Seq(Answers) /\ answers # << >> /\ src \in Sources /\ answers' = Tail(answers)
  BY WorldIs DEF Inv, Good, Rest, Worlds, ResponseLost
<1>2. answers' \in Seq(Answers)
  BY <1>1
<1>3. \A n \in DOMAIN answers' : \E m \in DOMAIN answers : answers'[n] = answers[m]
  <2>1. ASSUME NEW n \in DOMAIN answers' PROVE n + 1 \in DOMAIN answers /\ answers'[n] = answers[n + 1]
    BY <1>1, <2>1
  <2>q. QED BY <2>1
<1>4. PICK st : st = src.st
  OBVIOUS
<1>5. st \in [Streams -> Units] /\ src' = [src EXCEPT !.st = st]
  BY <1>1, <1>4 DEF ResponseLost, Sources
<1>6. UNCHANGED <<queue, sys, dev, ghosts>>
  BY DEF ResponseLost
<1>q. QED BY <1>2, <1>3, <1>4, <1>5, <1>6, HeardInv

LEMMA TimePassesInv ==
    ASSUME Inv, NEW t \in Streams, TimePasses(t)
    PROVE  Inv'
<1>1. answers \in Seq(Answers) /\ src \in Sources /\ answers' = answers
  BY WorldIs DEF Inv, Good, Rest, Worlds, TimePasses, wire
<1>2. src.st \in [Streams -> Units]
  BY <1>1 DEF Sources
<1>3. PICK z : z = [src.st[t] EXCEPT !.late = TRUE]
  OBVIOUS
<1>4. LET u == src.st[t] IN
      /\ z \in Units
      /\ z.slot = u.slot /\ z.upShape = u.upShape /\ z.inflight = u.inflight /\ z.txDone = u.txDone
      /\ z.result = u.result /\ z.at = u.at /\ z.shown = u.shown /\ z.packet = u.packet /\ z.seen = u.seen
  BY <1>2, <1>3 DEF Units
<1>5. PICK st : st = [src.st EXCEPT ![t] = z]
  OBVIOUS
<1>6. st \in [Streams -> Units] /\ st[t] = z /\ \A s \in Streams : s # t => st[s] = src.st[s]
  BY <1>2, <1>4, <1>5
<1>7. src' = [src EXCEPT !.st = st]
  BY <1>1, <1>3, <1>5 DEF TimePasses, Sources
<1>8. UNCHANGED <<queue, sys, dev, ghosts>>
  BY DEF TimePasses, wire
<1>9. \A s \in Streams : LET u == src.st[s]  x == st[s] IN
              /\ x.slot = u.slot /\ x.upShape = u.upShape /\ x.inflight = u.inflight /\ x.txDone = u.txDone
              /\ x.result = u.result /\ x.at = u.at /\ x.shown = u.shown /\ x.packet = u.packet
              /\ x.seen = u.seen \/ (u.inflight /\ \E m \in DOMAIN answers : x.seen = answers[m])
  BY <1>4, <1>6
<1>10. \A n \in DOMAIN answers' : \E m \in DOMAIN answers : answers'[n] = answers[m]
  BY <1>1
<1>q. QED BY <1>1, <1>6, <1>7, <1>8, <1>9, <1>10, HeardInv
-----------------------------------------------------------------------------
(* An item leaves the queue. *)
Shifted(w, v) ==
    /\ Len(v.q) <= Len(w.q) /\ 1 \in DOMAIN w.q
    /\ \A i \in DOMAIN v.q : i \in Nat /\ i >= 1 /\ i + 1 \in DOMAIN w.q /\ v.q[i] = w.q[i + 1]
    /\ \A j \in DOMAIN w.q : j \in Nat /\ j >= 1 /\ (j # 1 => j - 1 \in DOMAIN v.q /\ v.q[j - 1] = w.q[j])

SameButResult(w, v) ==
    /\ v.s.cache = w.s.cache /\ v.s.selShape = w.s.selShape
    /\ v.doubt = w.doubt /\ v.asked = w.asked /\ v.lapsed = w.lapsed
    /\ \A r \in Streams : LET u == w.s.st[r]  x == v.s.st[r] IN
       /\ x.slot = u.slot /\ x.upShape = u.upShape /\ x.inflight = u.inflight /\ x.txDone = u.txDone
       /\ x.seen = u.seen /\ x.at = u.at /\ x.shown = u.shown /\ x.packet = u.packet
       /\ (w.q[1].kind # "image" \/ w.q[1].stream # r) => x.result = u.result

(* The answers there are, and at most the one to the image that left. *)
Answering(w, v, ok) ==
    /\ \A n \in DOMAIN w.ans : n \in DOMAIN v.ans /\ v.ans[n] = w.ans[n]
    /\ \A n \in DOMAIN v.ans : \/ n \in DOMAIN w.ans /\ v.ans[n] = w.ans[n]
                               \/ /\ w.q[1].kind = "image"
                                  /\ v.ans[n] = [of |-> w.q[1].stream, old |-> w.q[1].old, ok |-> ok]

LEMMA TailShifted ==
    ASSUME NEW w \in Worlds, NEW v, w.q # << >>, v.q = Tail(w.q)
    PROVE  Shifted(w, v) /\ v.q \in Seq(Items) /\ Head(w.q) = w.q[1] /\ w.q[1] \in Items
<1>1. w.q \in Seq(Items)
  BY DEF Worlds
<1>2. PICK n : n = Len(w.q)
  OBVIOUS
<1>3. n \in Nat /\ n >= 1 /\ DOMAIN w.q = 1 .. n
  BY <1>1, <1>2
<1>4. v.q \in Seq(Items) /\ Len(v.q) = n - 1 /\ DOMAIN v.q = 1 .. n - 1
  BY <1>1, <1>2, <1>3
<1>5. \A i \in 1 .. n - 1 : v.q[i] = w.q[i + 1]
  BY <1>1, <1>2, <1>3
<1>6. Head(w.q) = w.q[1] /\ w.q[1] \in Items
  BY <1>1, <1>3
<1>7. ASSUME NEW j \in 1 .. n, j # 1 PROVE j - 1 \in 1 .. n - 1 /\ v.q[j - 1] = w.q[j]
  <2>1. j - 1 \in 1 .. n - 1 /\ (j - 1) + 1 = j
    BY <1>3, <1>7
  <2>q. QED BY <1>5, <2>1
<1>8. Shifted(w, v)
  BY <1>2, <1>3, <1>4, <1>5, <1>7 DEF Shifted
<1>q. QED BY <1>4, <1>6, <1>8

LEMMA ShiftedKinds ==
    ASSUME NEW w, NEW v, Shifted(w, v), NEW kind, NEW r
    PROVE  /\ \A i : Last(v, i, kind, r) => v.q[i] = w.q[i + 1] /\ Last(w, i + 1, kind, r)
           /\ Nowhere(v, kind, r) => Nowhere(w, kind, r) \/ Last(w, 1, kind, r)
<1>1. ASSUME NEW i, Last(v, i, kind, r) PROVE v.q[i] = w.q[i + 1] /\ Last(w, i + 1, kind, r)
  <2>1. i \in DOMAIN v.q /\ i \in Nat /\ i >= 1 /\ i + 1 \in DOMAIN w.q /\ v.q[i] = w.q[i + 1]
    BY <1>1 DEF Last, IsKind, Shifted
  <2>2. ASSUME NEW j \in DOMAIN w.q, j > i + 1 PROVE ~IsKind(w, j, kind, r)
    <3>1. j \in Nat /\ j # 1 /\ j - 1 \in DOMAIN v.q /\ v.q[j - 1] = w.q[j]
      BY <2>1, <2>2 DEF Shifted
    <3>2. j - 1 > i
      BY <2>1, <2>2, <3>1
    <3>q. QED BY <1>1, <3>1, <3>2 DEF Last, IsKind
  <2>q. QED BY <1>1, <2>1, <2>2 DEF Last, IsKind
<1>2. ASSUME Nowhere(v, kind, r), NEW j \in DOMAIN w.q, j # 1 PROVE ~IsKind(w, j, kind, r)
  BY <1>2 DEF Shifted, Nowhere, IsKind
<1>3. 1 \in DOMAIN w.q /\ \A j \in DOMAIN w.q : j > 1 => j # 1
  BY DEF Shifted
<1>q. QED BY <1>1, <1>2, <1>3 DEF Nowhere, Last

LEMMA ShiftedImages ==
    ASSUME NEW w, NEW v, Shifted(w, v), NEW r
    PROVE  /\ \A i : IsImage(v, i, r) => i \in Nat /\ i >= 1 /\ i + 1 # 1 /\ IsImage(w, i + 1, r)
           /\ \A i : Current(v, i, r) => i \in Nat /\ i >= 1 /\ i + 1 # 1 /\ Current(w, i + 1, r)
           /\ \A j : Current(w, j, r) => j = 1 \/ Current(v, j - 1, r)
           /\ \A j : IsImage(w, j, r) => j = 1 \/ IsImage(v, j - 1, r)
BY DEF Shifted, IsImage, Current

LEMMA ShiftedClean ==
    ASSUME NEW w \in Worlds, NEW v, Shifted(w, v), SameButResult(w, v), NEW k
    PROVE  /\ \A j \in Nat : j >= 1 /\ Clean(w, k, j) => Clean(v, k, j - 1)
           /\ Clean(w, k, 0) => Clean(v, k, 0)
<1>1. \A i \in DOMAIN w.q : w.q[i].stream \in Streams
  BY DEF Worlds, Items, Uploads, Selects, States
<1>2. ASSUME NEW j \in Nat, NEW i \in Nat, i + 1 >= j, Clean(w, k, j) PROVE Clean(v, k, i)
  <2> SUFFICES ASSUME NEW m \in DOMAIN v.q, m > i, v.q[m].kind = "image",
                      v.s.st[v.q[m].stream].packet.shape = k
               PROVE  v.s.st[v.q[m].stream].packet.img = v.s.cache[k]
    BY DEF Clean
  <2>1. m \in Nat /\ m + 1 \in DOMAIN w.q /\ v.q[m] = w.q[m + 1] /\ m + 1 > j
    BY <1>2 DEF Shifted
  <2>2. PICK r : r = w.q[m + 1].stream
    OBVIOUS
  <2>3. r \in Streams /\ v.s.st[r].packet = w.s.st[r].packet /\ v.s.cache = w.s.cache
    BY <1>1, <2>1, <2>2 DEF SameButResult
  <2>q. QED BY <1>2, <2>1, <2>2, <2>3 DEF Clean
<1>3. ASSUME NEW j \in Nat, j >= 1, Clean(w, k, j) PROVE Clean(v, k, j - 1)
  <2>1. j - 1 \in Nat /\ (j - 1) + 1 >= j
    BY <1>3
  <2>q. QED BY <1>2, <1>3, <2>1
<1>4. Clean(w, k, 0) => Clean(v, k, 0)
  BY <1>2
<1>q. QED BY <1>3, <1>4
LEMMA LeftShaped ==
    ASSUME NEW w, NEW v, SameButResult(w, v), Shaped(w)
    PROVE  Shaped(v)
BY DEF SameButResult, Shaped

LEMMA LeftAnswers ==
    ASSUME NEW w, NEW v, Shifted(w, v), SameButResult(w, v), NEW ok, Answering(w, v, ok), Single(w),
           NEW r \in Streams
    PROVE  /\ \A n \in DOMAIN v.ans : Own(v.ans[n], r) =>
                 \/ n \in DOMAIN w.ans /\ v.ans[n] = w.ans[n] /\ Own(w.ans[n], r)
                 \/ Current(w, 1, r) /\ v.ans[n].ok = ok
           /\ Taken(v, r) => Taken(w, r) \/ (Current(w, 1, r) /\ ok)
<1>1. ASSUME NEW n \in DOMAIN v.ans, Own(v.ans[n], r)
      PROVE  \/ n \in DOMAIN w.ans /\ v.ans[n] = w.ans[n] /\ Own(w.ans[n], r)
             \/ Current(w, 1, r) /\ v.ans[n].ok = ok
  <2>1. CASE n \in DOMAIN w.ans /\ v.ans[n] = w.ans[n]
    BY <1>1, <2>1
  <2>2. CASE w.q[1].kind = "image" /\ v.ans[n] = [of |-> w.q[1].stream, old |-> w.q[1].old, ok |-> ok]
    BY <1>1, <2>2 DEF Own, Current, IsImage, Shifted
  <2>q. QED BY <2>1, <2>2 DEF Answering
<1>2. v.s.st[r].seen = w.s.st[r].seen
  BY DEF SameButResult
<1>q. QED BY <1>1, <1>2 DEF Taken

LEMMA LeftSingle ==
    ASSUME NEW w, NEW v, Shifted(w, v), SameButResult(w, v), NEW ok, Answering(w, v, ok), Single(w)
    PROVE  Single(v)
<1>1. ASSUME NEW r \in Streams
      PROVE  LET u == v.s.st[r] IN
             /\ \A i \in DOMAIN v.q : Current(v, i, r) =>
                   /\ u.inflight /\ ~Own(u.seen, r)
                   /\ \A n \in DOMAIN v.ans : ~Own(v.ans[n], r)
                   /\ \A j \in DOMAIN v.q : Current(v, j, r) => j = i
             /\ \A n \in DOMAIN v.ans : Own(v.ans[n], r) => u.inflight
  <2>1. v.s.st[r].inflight = w.s.st[r].inflight /\ v.s.st[r].seen = w.s.st[r].seen
    BY DEF SameButResult
  <2>2. \A n \in DOMAIN v.ans : Own(v.ans[n], r) =>
                 \/ n \in DOMAIN w.ans /\ v.ans[n] = w.ans[n] /\ Own(w.ans[n], r)
                 \/ Current(w, 1, r)
    BY LeftAnswers
  <2>3. \A i : Current(v, i, r) => i \in Nat /\ i >= 1 /\ i + 1 # 1 /\ Current(w, i + 1, r)
    BY ShiftedImages
  <2>4. \A i, j : Current(w, i, r) /\ Current(w, j, r) => j = i
    BY DEF Single, Current, IsImage
  <2>5. \A i : Current(w, i, r) => /\ w.s.st[r].inflight /\ ~Own(w.s.st[r].seen, r)
                                  /\ \A n \in DOMAIN w.ans : ~Own(w.ans[n], r)
    BY DEF Single, Current, IsImage
  <2>6. \A n \in DOMAIN w.ans : Own(w.ans[n], r) => w.s.st[r].inflight
    BY DEF Single
  <2>7. ASSUME NEW i \in DOMAIN v.q, Current(v, i, r)
        PROVE  /\ v.s.st[r].inflight /\ ~Own(v.s.st[r].seen, r)
               /\ \A n \in DOMAIN v.ans : ~Own(v.ans[n], r)
               /\ \A j \in DOMAIN v.q : Current(v, j, r) => j = i
    <3>1. i \in Nat /\ i + 1 # 1 /\ Current(w, i + 1, r)
      BY <2>3, <2>7
    <3>2. ~Current(w, 1, r)
      BY <2>4, <3>1
    <3>3. \A j \in DOMAIN v.q : Current(v, j, r) => j = i
      <4>1. ASSUME NEW j \in DOMAIN v.q, Current(v, j, r) PROVE j = i
        <5>1. j \in Nat /\ Current(w, j + 1, r)
          BY <2>3, <4>1
        <5>2. j + 1 = i + 1
          BY <2>4, <3>1, <5>1
        <5>q. QED BY <3>1, <5>1, <5>2
      <4>q. QED BY <4>1
    <3>q. QED BY <2>1, <2>2, <2>5, <3>1, <3>2, <3>3
  <2>8. \A n \in DOMAIN v.ans : Own(v.ans[n], r) => v.s.st[r].inflight
    BY <2>1, <2>2, <2>5, <2>6
  <2>q. QED BY <2>7, <2>8
<1>q. QED BY <1>1 DEF Single

(* What the adapter has of streams and slots afterwards. *)
DeviceSel(w) == \A r \in Streams \ misled' :
    IF w.q[1].kind = "select" /\ w.q[1].stream = r
    THEN dev'.sel[r] = w.q[1].shape
    ELSE r \notin misled /\ dev'.sel[r] = dev.sel[r]

DeviceState(w, v) == \A r \in Streams \ v.adrift :
    /\ r \notin w.adrift
    /\ IF w.q[1].kind = "state" /\ w.q[1].stream = r
       THEN dev'.state[r] = [at |-> w.q[1].at, shown |-> w.q[1].shown]
       ELSE dev'.state[r] = dev.state[r]

LEMMA LeftSelected ==
    ASSUME NEW w, NEW v, Shifted(w, v), SameButResult(w, v), Selected(w), DeviceSel(w), main' = main
    PROVE  Selected(v)'
<1> SUFFICES ASSUME Live', NEW r \in Streams, v.s.selShape[r] # NoSlot
             PROVE  /\ \A i \in DOMAIN v.q : Last(v, i, "select", r) => v.q[i].shape = v.s.selShape[r]
                    /\ Nowhere(v, "select", r) /\ r \notin misled' => dev'.sel[r] = v.s.selShape[r]
  BY DEF Selected
<1>1. Live /\ v.s.selShape = w.s.selShape
  BY DEF Live, SameButResult
<1>2. /\ \A i \in DOMAIN w.q : Last(w, i, "select", r) => w.q[i].shape = w.s.selShape[r]
      /\ Nowhere(w, "select", r) /\ r \notin misled => dev.sel[r] = w.s.selShape[r]
  BY <1>1 DEF Selected
<1>3. \A i \in DOMAIN v.q : Last(v, i, "select", r) => v.q[i].shape = v.s.selShape[r]
  <2>1. \A i : Last(v, i, "select", r) => v.q[i] = w.q[i + 1] /\ Last(w, i + 1, "select", r)
    BY ShiftedKinds
  <2>q. QED BY <1>1, <1>2, <2>1 DEF Last, IsKind
<1>4. ASSUME Nowhere(v, "select", r), r \notin misled' PROVE dev'.sel[r] = v.s.selShape[r]
  <2>1. Nowhere(w, "select", r) \/ Last(w, 1, "select", r)
    BY <1>4, ShiftedKinds
  <2>2. CASE Last(w, 1, "select", r)
    BY <1>1, <1>2, <1>4, <2>2 DEF Last, IsKind, DeviceSel
  <2>3. CASE Nowhere(w, "select", r)
    <3>1. ~(w.q[1].kind = "select" /\ w.q[1].stream = r)
      BY <2>3 DEF Nowhere, IsKind, Shifted
    <3>q. QED BY <1>1, <1>2, <1>4, <2>3, <3>1 DEF DeviceSel
  <2>q. QED BY <2>1, <2>2, <2>3
<1>q. QED BY <1>3, <1>4

LEMMA LeftStated ==
    ASSUME NEW w, NEW v, Shifted(w, v), SameButResult(w, v), Stated(w), DeviceState(w, v), main' = main
    PROVE  Stated(v)'
<1> SUFFICES ASSUME main'.at # "closed", NEW r \in Streams \ v.adrift
             PROVE  /\ \A i \in DOMAIN v.q : Last(v, i, "state", r) =>
                          v.q[i].at = v.s.st[r].at /\ v.q[i].shown = v.s.st[r].shown
                    /\ Nowhere(v, "state", r) => /\ dev'.state[r].at = v.s.st[r].at
                                                 /\ dev'.state[r].shown = v.s.st[r].shown
  BY DEF Stated
<1>1. main.at # "closed" /\ r \notin w.adrift /\ v.s.st[r].at = w.s.st[r].at /\ v.s.st[r].shown = w.s.st[r].shown
  BY DEF DeviceState, SameButResult
<1>2. /\ \A i \in DOMAIN w.q : Last(w, i, "state", r) => w.q[i].at = w.s.st[r].at /\ w.q[i].shown = w.s.st[r].shown
      /\ Nowhere(w, "state", r) => dev.state[r].at = w.s.st[r].at /\ dev.state[r].shown = w.s.st[r].shown
  BY <1>1 DEF Stated
<1>3. \A i \in DOMAIN v.q : Last(v, i, "state", r) =>
          v.q[i].at = v.s.st[r].at /\ v.q[i].shown = v.s.st[r].shown
  <2>1. \A i : Last(v, i, "state", r) => v.q[i] = w.q[i + 1] /\ Last(w, i + 1, "state", r)
    BY ShiftedKinds
  <2>q. QED BY <1>1, <1>2, <2>1 DEF Last, IsKind
<1>4. ASSUME Nowhere(v, "state", r)
      PROVE  dev'.state[r].at = v.s.st[r].at /\ dev'.state[r].shown = v.s.st[r].shown
  <2>1. Nowhere(w, "state", r) \/ Last(w, 1, "state", r)
    BY <1>4, ShiftedKinds
  <2>2. CASE Last(w, 1, "state", r)
    <3>1. dev'.state[r] = [at |-> w.q[1].at, shown |-> w.q[1].shown]
      BY <2>2 DEF Last, IsKind, DeviceState
    <3>2. w.q[1].at = w.s.st[r].at /\ w.q[1].shown = w.s.st[r].shown
      BY <1>2, <2>2 DEF Last, IsKind
    <3>q. QED BY <1>1, <3>1, <3>2
  <2>3. CASE Nowhere(w, "state", r)
    <3>1. ~(w.q[1].kind = "state" /\ w.q[1].stream = r)
      BY <2>3 DEF Nowhere, IsKind, Shifted
    <3>q. QED BY <1>1, <1>2, <2>3, <3>1 DEF DeviceState
  <2>q. QED BY <2>1, <2>2, <2>3
<1>q. QED BY <1>3, <1>4

LEMMA LeftUnmoved ==
    ASSUME NEW w, NEW v, Shifted(w, v), SameButResult(w, v), Unmoved(w),
           \A r \in overtaken : (\E i : IsImage(v, i, r)) => r \in overtaken'
    PROVE  Unmoved(v)'
<1> SUFFICES ASSUME NEW r \in Streams \ overtaken', NEW i \in DOMAIN v.q, IsImage(v, i, r)
             PROVE  /\ v.s.st[r].inflight /\ ~v.s.st[r].txDone /\ v.s.st[r].result = None
                    /\ \A j \in DOMAIN v.q : IsImage(v, j, r) => j = i
  BY DEF Unmoved
<1>1. r \notin overtaken
  OBVIOUS
<1>2. \A j : IsImage(v, j, r) => j \in Nat /\ j >= 1 /\ j + 1 # 1 /\ IsImage(w, j + 1, r)
  BY ShiftedImages
<1>3. /\ w.s.st[r].inflight /\ ~w.s.st[r].txDone /\ w.s.st[r].result = None
      /\ \A m, j : IsImage(w, m, r) /\ IsImage(w, j, r) => j = m
  BY <1>1, <1>2 DEF Unmoved, IsImage
<1>4. ~(w.q[1].kind = "image" /\ w.q[1].stream = r)
  <2>1. ~IsImage(w, 1, r)
    BY <1>2, <1>3
  <2>q. QED BY <2>1 DEF IsImage, Shifted
<1>5. v.s.st[r].inflight /\ ~v.s.st[r].txDone /\ v.s.st[r].result = None
  BY <1>3, <1>4 DEF SameButResult
<1>6. ASSUME NEW j \in DOMAIN v.q, IsImage(v, j, r) PROVE j = i
  <2>1. j \in Nat /\ i \in Nat /\ j + 1 = i + 1
    BY <1>2, <1>3, <1>6
  <2>q. QED BY <2>1
<1>q. QED BY <1>5, <1>6

(* The slots: an image that was sent is in its slot, or was refused or failed. *)
DeviceSlots(w, ok) ==
    LET p == w.s.st[w.q[1].stream].packet IN
    IF w.q[1].kind = "image" /\ ok
    THEN \A k \in Slots : dev'.slots[k] = IF p.shape = k THEN p.img ELSE dev.slots[k]
    ELSE \A k \in Slots : dev'.slots[k] = dev.slots[k]

LEMMA LeftMirrored ==
    ASSUME NEW w \in Worlds, NEW v, Shifted(w, v), SameButResult(w, v), NEW ok \in BOOLEAN, Answering(w, v, ok),
           DeviceSlots(w, ok), Shaped(w), Single(w), Mirrored(w), main' = main
    PROVE  Mirrored(v)'
<1> SUFFICES ASSUME Live', NEW k \in Slots \ v.doubt, v.s.cache[k] # None
             PROVE  There(v, k)' \/ \E r \in Streams : Coming(v, k, r)
  BY DEF Mirrored, Coming, Clean, Taken, Current, IsImage, Own
<1>1. Live /\ v.s.cache = w.s.cache /\ k \in Slots \ w.doubt
  BY DEF Live, SameButResult
<1>2. There(w, k) \/ \E r \in Streams : Coming(w, k, r)
  BY <1>1 DEF Mirrored
<1>3. /\ \A j \in Nat : j >= 1 /\ Clean(w, k, j) => Clean(v, k, j - 1)
      /\ Clean(w, k, 0) => Clean(v, k, 0)
  BY ShiftedClean
<1>4. CASE There(w, k)
  <2>1. Clean(v, k, 0)
    BY <1>3, <1>4 DEF There
  <2>2. dev'.slots[k] = w.s.cache[k]
    <3>1. 1 \in DOMAIN w.q /\ 1 > 0
      BY DEF Shifted
    <3>2. w.q[1].kind = "image" /\ w.s.st[w.q[1].stream].packet.shape = k
             => w.s.st[w.q[1].stream].packet.img = w.s.cache[k]
      BY <1>4, <3>1 DEF There, Clean
    <3>3. dev.slots[k] = w.s.cache[k]
      BY <1>4 DEF There
    <3>q. QED BY <3>2, <3>3 DEF DeviceSlots
  <2>q. QED BY <1>1, <2>1, <2>2 DEF There, Clean
<1>5. ASSUME NEW r \in Streams, Coming(w, k, r)
      PROVE  There(v, k)' \/ Coming(v, k, r)
  <2>1. /\ v.s.st[r].inflight /\ v.s.st[r].upShape = k /\ v.s.st[r].packet.img = v.s.cache[k]
        /\ w.s.st[r].inflight /\ w.s.st[r].upShape = k /\ w.s.st[r].packet.img = w.s.cache[k]
    BY <1>1, <1>5 DEF Coming, SameButResult
  <2>2. CASE \E i \in DOMAIN w.q : i # 1 /\ Current(w, i, r) /\ Clean(w, k, i)
    <3>1. PICK i \in DOMAIN w.q : i # 1 /\ Current(w, i, r) /\ Clean(w, k, i)
      BY <2>2
    <3>2. i \in Nat /\ i >= 1 /\ i - 1 \in DOMAIN v.q
      BY <3>1 DEF Shifted
    <3>3. Current(v, i - 1, r) /\ Clean(v, k, i - 1)
      BY <1>3, <3>1, <3>2, ShiftedImages
    <3>q. QED BY <2>1, <3>2, <3>3 DEF Coming
  <2>3. CASE Current(w, 1, r) /\ Clean(w, k, 1)
    <3>1. w.q[1].kind = "image" /\ w.q[1].stream = r
      BY <2>3 DEF Current, IsImage
    <3>2. CASE ok
      <4>1. w.s.st[r].packet.shape = k
        BY <2>1 DEF Shaped
      <4>2. dev'.slots[k] = v.s.cache[k]
        BY <1>1, <2>1, <3>1, <3>2, <4>1 DEF DeviceSlots
      <4>3. Clean(v, k, 0)
        <5>1. 1 \in Nat /\ 1 >= 1 /\ 1 - 1 = 0
          OBVIOUS
        <5>q. QED BY <1>3, <2>3, <5>1
      <4>q. QED BY <4>2, <4>3 DEF There, Clean
    <3>3. CASE ~ok
      <4>1. \A i \in DOMAIN v.q : ~Current(v, i, r)
        <5>1. \A i : Current(v, i, r) => i + 1 # 1 /\ Current(w, i + 1, r)
          BY ShiftedImages
        <5>q. QED BY <2>3, <5>1 DEF Single, Current, IsImage
      <4>2. ~Taken(w, r)
        BY <2>3 DEF Single, Taken, Current, IsImage
      <4>3. ~Taken(v, r)
        BY <3>3, <4>2, LeftAnswers
      <4>q. QED BY <2>1, <4>1, <4>3 DEF Coming
    <3>q. QED BY <3>2, <3>3
  <2>4. CASE (\A i \in DOMAIN w.q : ~Current(w, i, r)) /\ ~Taken(w, r)
    <3>1. ~Current(w, 1, r)
      BY <2>4 DEF Shifted
    <3>2. ~Taken(v, r)
      BY <2>4, <3>1, LeftAnswers
    <3>3. \A i \in DOMAIN v.q : ~Current(v, i, r)
      <4>1. \A i : Current(v, i, r) => Current(w, i + 1, r)
        BY ShiftedImages
      <4>q. QED BY <2>4, <4>1 DEF Current, IsImage
    <3>q. QED BY <2>1, <3>2, <3>3 DEF Coming
  <2>q. QED BY <1>5, <2>2, <2>3, <2>4 DEF Coming
<1>q. QED BY <1>2, <1>4, <1>5
LEMMA LeavesInv ==
    ASSUME Inv, NEW w, w = World, NEW v, v = World', queue # << >>, queue' = Tail(queue),
           src' \in Sources, answers' \in Seq(Answers), adrift' \subseteq Streams,
           dev' \in Devices, misled' \subseteq Streams, overtaken' \subseteq overtaken,
           UNCHANGED <<sys, doubt, asked, lapsed, reverted>>,
           SameButResult(w, v), NEW ok \in BOOLEAN, Answering(w, v, ok),
           DeviceSlots(w, ok), DeviceSel(w), DeviceState(w, v),
           \A r \in overtaken : (\E i : IsImage(v, i, r)) => r \in overtaken'
    PROVE  Inv'
<1>1. /\ w.s = src /\ w.q = queue /\ w.rc = 0 /\ w.ans = answers /\ w.doubt = doubt
      /\ w.asked = asked /\ w.lapsed = lapsed /\ w.adrift = adrift
  BY WorldIs
<1>2. /\ v.s = src' /\ v.q = queue' /\ v.rc = 0 /\ v.ans = answers' /\ v.doubt = doubt
      /\ v.asked = asked /\ v.lapsed = lapsed /\ v.adrift = adrift'
  BY DEF World
<1>3. w \in Worlds /\ Len(w.q) <= QueueCap /\ Shaped(w) /\ Single(w) /\ Mirrored(w) /\ Selected(w)
      /\ Stated(w) /\ Unmoved(w) /\ \A s \in Streams : HeldOf(w, s)
  BY DEF Inv, Good, Rest
<1>4. main' = main /\ todo' = todo /\ note' = note /\ ct' = ct /\ job' = job
  BY DEF sys
<1>5. Shifted(w, v) /\ v.q \in Seq(Items)
  <2>1. w.q # << >> /\ v.q = Tail(w.q)
    BY <1>1, <1>2
  <2>q. QED BY <1>3, <2>1, TailShifted
<1>6. v \in Worlds
  <2>1. v = [s |-> src', q |-> queue', rc |-> 0, ans |-> answers', doubt |-> doubt,
             asked |-> asked, lapsed |-> lapsed, adrift |-> adrift']
    BY DEF World
  <2>2. /\ doubt \in SUBSET Slots /\ asked \in [Streams -> Pictures] /\ lapsed \in SUBSET Streams
    BY <1>1, <1>3 DEF Worlds
  <2>3. queue' \in Seq(Items) /\ adrift' \in SUBSET Streams
    BY <1>2, <1>5
  <2>q. QED BY <2>1, <2>2, <2>3 DEF Worlds
<1>7. Len(v.q) <= QueueCap
  <2>1. Len(v.q) <= Len(w.q) /\ Len(v.q) \in Nat /\ Len(w.q) \in Nat
    BY <1>3, <1>5, <1>6 DEF Shifted, Worlds
  <2>q. QED BY <1>3, <2>1, CursorAssumption
<1>8. Shaped(v)
  BY <1>3, LeftShaped
<1>9. Single(v)
  BY <1>3, <1>5, LeftSingle
<1>10. Mirrored(v)'
  BY <1>3, <1>4, <1>5, LeftMirrored
<1>11. Selected(v)'
  BY <1>3, <1>4, <1>5, LeftSelected
<1>12. Stated(v)'
  BY <1>3, <1>4, <1>5, LeftStated
<1>13. Unmoved(v)'
  BY <1>3, <1>5, LeftUnmoved
<1>14. ASSUME NEW s \in Streams PROVE HeldOf(v, s)'
  <2>1. HeldOf(w, s)
    BY <1>3
  <2>2. /\ v.s.cache = w.s.cache /\ v.s.selShape = w.s.selShape /\ v.asked = w.asked /\ v.lapsed = w.lapsed
        /\ v.s.st[s].slot = w.s.st[s].slot /\ v.s.st[s].inflight = w.s.st[s].inflight
        /\ v.s.st[s].upShape = w.s.st[s].upShape
    BY DEF SameButResult
  <2>q. QED BY <1>4, <2>1, <2>2 DEF HeldOf, Due, Holds, Keeps, Ahead
<1>15. Shaped(v)' /\ Single(v)' /\ (v \in Worlds)' /\ (Len(v.q) <= QueueCap)'
  BY <1>6, <1>7, <1>8, <1>9 DEF Shaped, Single, Current, IsImage, Own
<1>16. Good(v)'
  BY <1>10, <1>11, <1>12, <1>13, <1>14, <1>15 DEF Good, Rest
<1>17. Types'
  <2>1. overtaken' \subseteq Streams
    BY DEF Inv, Types
  <2>q. QED BY <1>4, <2>1 DEF Inv, Types
<1>18. Sleeping'
  BY <1>1, <1>2, <1>4 DEF Inv, Sleeping, SameButResult
<1>19. Leaving'
  <2>1. ASSUME NEW s \in Streams, Free(w, s) PROVE Free(v, s)'
    <3>1. \A i : IsImage(v, i, s) => IsImage(w, i + 1, s)
      BY <1>5, ShiftedImages
    <3>q. QED BY <2>1, <3>1 DEF Free, IsImage
  <2>q. QED BY <1>4, <2>1 DEF Inv, Leaving
<1>q. QED BY <1>16, <1>17, <1>18, <1>19 DEF Inv

LEMMA ResultWritten ==
    ASSUME Inv, NEW rc \in {"ok", "failed"}, Result(rc), queue # << >>, Head(queue).kind = "image"
    PROVE  /\ src' \in Sources /\ src'.cache = src.cache /\ src'.selShape = src.selShape
           /\ \A r \in Streams : LET u == src.st[r]  x == src'.st[r] IN
                /\ x.slot = u.slot /\ x.upShape = u.upShape /\ x.inflight = u.inflight /\ x.txDone = u.txDone
                /\ x.seen = u.seen /\ x.at = u.at /\ x.shown = u.shown /\ x.packet = u.packet
                /\ r # Head(queue).stream => x.result = u.result
<1>1. queue \in Seq(Items) /\ src \in Sources
  BY WorldIs DEF Inv, Good, Rest, Worlds
<1>2. PICK s : s = Head(queue).stream
  OBVIOUS
<1>3. s \in Streams /\ src.st \in [Streams -> Units]
  BY <1>1, <1>2 DEF Items, Uploads, Selects, States, Sources
<1>4. PICK x : x = [src.st[s] EXCEPT !.result = rc]
  OBVIOUS
<1>5. LET u == src.st[s] IN
      /\ x \in Units
      /\ x.slot = u.slot /\ x.upShape = u.upShape /\ x.inflight = u.inflight /\ x.txDone = u.txDone
      /\ x.seen = u.seen /\ x.at = u.at /\ x.shown = u.shown /\ x.packet = u.packet
  BY <1>3, <1>4 DEF Units
<1>6. src' = [src EXCEPT !.st = [src.st EXCEPT ![s] = x]]
  BY <1>1, <1>2, <1>4 DEF Result, Sources
<1>7. src' \in Sources /\ src'.cache = src.cache /\ src'.selShape = src.selShape
      /\ src'.st[s] = x /\ \A r \in Streams : r # s => src'.st[r] = src.st[r]
  BY <1>1, <1>3, <1>5, <1>6 DEF Sources
<1>q. QED BY <1>2, <1>5, <1>7

LEMMA SendsImageInv ==
    ASSUME Inv, SendsImage
    PROVE  Inv'
<1>1. PICK w, v : w = World /\ v = World'
  OBVIOUS
<1>2. /\ w.s = src /\ w.q = queue /\ w.rc = 0 /\ w.ans = answers /\ w.doubt = doubt
      /\ w.asked = asked /\ w.lapsed = lapsed /\ w.adrift = adrift
  BY <1>1, WorldIs
<1>3. /\ v.s = src' /\ v.q = queue' /\ v.ans = answers' /\ v.doubt = doubt'
      /\ v.asked = asked' /\ v.lapsed = lapsed' /\ v.adrift = adrift'
  BY <1>1 DEF World
<1>4. queue # << >> /\ Head(queue).kind = "image" /\ queue' = Tail(queue)
      /\ UNCHANGED <<sys, doubt, asked, lapsed, adrift, misled, reverted>>
  BY DEF SendsImage, Sent
<1>5. queue \in Seq(Items) /\ answers \in Seq(Answers) /\ src \in Sources /\ dev \in Devices
      /\ adrift \subseteq Streams /\ misled \subseteq Streams
  BY WorldIs DEF Inv, Good, Rest, Worlds, Types
<1>6. Head(queue) = queue[1] /\ queue[1] \in Items /\ queue[1].kind = "image"
  BY <1>4, <1>5
<1>7. PICK h : h = queue[1]
  OBVIOUS
<1>8. h \in Uploads /\ h = Head(queue) /\ h.stream \in Streams /\ h.old \in BOOLEAN
  BY <1>6, <1>7 DEF Items, Uploads, Selects, States
<1>9. PICK ok \in BOOLEAN : Result("ok") /\ Answered(ok) /\ IF ok THEN dev' = [dev EXCEPT !.slots[src.st[h.stream].packet.shape] = src.st[h.stream].packet.img] ELSE dev' = dev
  BY <1>8 DEF SendsImage
<1>10. /\ src' \in Sources /\ src'.cache = src.cache /\ src'.selShape = src.selShape
       /\ \A r \in Streams : LET u == src.st[r]  x == src'.st[r] IN
            /\ x.slot = u.slot /\ x.upShape = u.upShape /\ x.inflight = u.inflight /\ x.txDone = u.txDone
            /\ x.seen = u.seen /\ x.at = u.at /\ x.shown = u.shown /\ x.packet = u.packet
            /\ r # h.stream => x.result = u.result
  BY <1>4, <1>8, <1>9, ResultWritten
<1>11. SameButResult(w, v)
  BY <1>2, <1>3, <1>4, <1>7, <1>10 DEF SameButResult
<1>12. PICK a : a = [of |-> h.stream, old |-> h.old, ok |-> ok]
  OBVIOUS
<1>13. a \in Answers /\ answers' = Append(answers, a)
  BY <1>8, <1>9, <1>12 DEF Answers, Answered
<1>14. answers' \in Seq(Answers)
  BY <1>5, <1>13
<1>15. Answering(w, v, ok)
  <2>1. PICK n : n = Len(answers)
    OBVIOUS
  <2>2. n \in Nat /\ DOMAIN answers = 1 .. n /\ DOMAIN answers' = 1 .. n + 1
        /\ (\A i \in 1 .. n : answers'[i] = answers[i]) /\ answers'[n + 1] = a
    BY <1>5, <1>13, <2>1
  <2>3. \A i \in 1 .. n + 1 : i \in 1 .. n \/ i = n + 1
    BY <2>2
  <2>4. \A i \in 1 .. n : i \in 1 .. n + 1
    BY <2>2
  <2>q. QED BY <1>2, <1>3, <1>6, <1>7, <1>12, <2>2, <2>3, <2>4 DEF Answering
<1>16. PICK p : p = src.st[h.stream].packet
  OBVIOUS
<1>17. p.img \in Pictures
  BY <1>5, <1>8, <1>16 DEF Sources, Units, Packets
<1>18. /\ dev' \in Devices /\ dev'.sel = dev.sel /\ dev'.state = dev.state
       /\ IF ok THEN \A k \in Slots : dev'.slots[k] = IF p.shape = k THEN p.img ELSE dev.slots[k]
          ELSE dev'.slots = dev.slots
  <2>1. CASE ok
    <3>1. PICK sl : sl = [dev.slots EXCEPT ![p.shape] = p.img]
      OBVIOUS
    <3>2. sl \in [Slots -> Pictures] /\ \A k \in Slots : sl[k] = IF p.shape = k THEN p.img ELSE dev.slots[k]
      BY <1>5, <1>17, <3>1 DEF Devices
    <3>3. dev' = [dev EXCEPT !.slots = sl]
      BY <1>5, <1>9, <1>16, <2>1, <3>1 DEF Devices
    <3>q. QED BY <1>5, <2>1, <3>2, <3>3 DEF Devices
  <2>2. CASE ~ok
    BY <1>5, <1>9, <2>2
  <2>q. QED BY <2>1, <2>2
<1>19. DeviceSlots(w, ok)
  BY <1>2, <1>6, <1>7, <1>16, <1>18 DEF DeviceSlots
<1>20. DeviceSel(w)
  BY <1>2, <1>4, <1>6, <1>18 DEF DeviceSel
<1>21. DeviceState(w, v)
  BY <1>2, <1>3, <1>4, <1>6, <1>18 DEF DeviceState
<1>22. overtaken' = {s \in overtaken : Queued(s)'}
  BY DEF SendsImage
<1>23. \A r \in overtaken : (\E i : IsImage(v, i, r)) => r \in overtaken'
  BY <1>3, <1>22 DEF IsImage, Queued
<1>24. overtaken' \subseteq overtaken /\ adrift' \subseteq Streams /\ misled' \subseteq Streams
  BY <1>4, <1>5, <1>22
<1>q. QED BY <1>1, <1>4, <1>10, <1>11, <1>14, <1>15, <1>18, <1>19, <1>20, <1>21, <1>23, <1>24, LeavesInv
LEMMA SendsCommandInv ==
    ASSUME Inv, SendsCommand
    PROVE  Inv'
<1>1. PICK w, v : w = World /\ v = World'
  OBVIOUS
<1>2. /\ w.s = src /\ w.q = queue /\ w.rc = 0 /\ w.ans = answers /\ w.doubt = doubt
      /\ w.asked = asked /\ w.lapsed = lapsed /\ w.adrift = adrift
  BY <1>1, WorldIs
<1>3. /\ v.s = src' /\ v.q = queue' /\ v.ans = answers' /\ v.doubt = doubt'
      /\ v.asked = asked' /\ v.lapsed = lapsed' /\ v.adrift = adrift'
  BY <1>1 DEF World
<1>4. queue # << >> /\ queue' = Tail(queue) /\ Head(queue).kind \in {"select", "state"}
      /\ UNCHANGED <<sys, doubt, asked, lapsed, adrift, reverted, src, answers, overtaken>>
  BY DEF SendsCommand, Sent
<1>5. queue \in Seq(Items) /\ answers \in Seq(Answers) /\ src \in Sources /\ dev \in Devices
      /\ adrift \subseteq Streams /\ misled \subseteq Streams
  BY WorldIs DEF Inv, Good, Rest, Worlds, Types
<1>6. PICK h : h = Head(queue)
  OBVIOUS
<1>7. h = queue[1] /\ h \in Selects \cup States
  BY <1>4, <1>5, <1>6 DEF Items, Uploads, Selects, States
<1>8. SameButResult(w, v)
  BY <1>2, <1>3, <1>4 DEF SameButResult
<1>9. FALSE \in BOOLEAN /\ Answering(w, v, FALSE)
  BY <1>2, <1>3, <1>4 DEF Answering
<1>10. /\ dev' \in Devices /\ dev'.slots = dev.slots
       /\ \A r \in Streams : dev'.sel[r] = IF h.kind = "select" /\ h.stream = r THEN h.shape ELSE dev.sel[r]
       /\ \A r \in Streams : dev'.state[r] = IF h.kind = "state" /\ h.stream = r
                                             THEN [at |-> h.at, shown |-> h.shown] ELSE dev.state[r]
       /\ misled' = IF h.kind = "select" THEN misled \ {h.stream} ELSE misled
  <2>1. CASE h \in Selects
    <3>1. PICK se : se = [dev.sel EXCEPT ![h.stream] = h.shape]
      OBVIOUS
    <3>2. se \in [Streams -> Spots] /\ \A r \in Streams : se[r] = IF h.stream = r THEN h.shape ELSE dev.sel[r]
      BY <1>5, <2>1, <3>1 DEF Devices, Selects, Spots
    <3>3. h.kind = "select"
      BY <2>1 DEF Selects
    <3>4. dev' = [dev EXCEPT !.sel = se] /\ misled' = misled \ {h.stream}
      BY <1>5, <1>6, <3>1, <3>3 DEF SendsCommand, Devices
    <3>q. QED BY <1>5, <3>2, <3>3, <3>4 DEF Devices
  <2>2. CASE h \in States
    <3>1. PICK se : se = [dev.state EXCEPT ![h.stream] = [at |-> h.at, shown |-> h.shown]]
      OBVIOUS
    <3>2. /\ se \in [Streams -> [at : Places, shown : BOOLEAN]]
          /\ \A r \in Streams : se[r] = IF h.stream = r THEN [at |-> h.at, shown |-> h.shown] ELSE dev.state[r]
      BY <1>5, <2>2, <3>1 DEF Devices, States
    <3>3. h.kind = "state"
      BY <2>2 DEF States
    <3>4. dev' = [dev EXCEPT !.state = se] /\ misled' = misled
      BY <1>5, <1>6, <3>1, <3>3 DEF SendsCommand, Devices
    <3>q. QED BY <1>5, <3>2, <3>3, <3>4 DEF Devices
  <2>q. QED BY <1>7, <2>1, <2>2
<1>11. DeviceSlots(w, FALSE)
  BY <1>10 DEF DeviceSlots
<1>12. DeviceSel(w)
  BY <1>2, <1>7, <1>10 DEF DeviceSel
<1>13. DeviceState(w, v)
  BY <1>2, <1>3, <1>4, <1>7, <1>10 DEF DeviceState
<1>14. misled' \subseteq Streams /\ adrift' \subseteq Streams /\ overtaken' \subseteq overtaken
       /\ \A r \in overtaken : (\E i : IsImage(v, i, r)) => r \in overtaken'
  BY <1>4, <1>5, <1>10
<1>15. src' \in Sources /\ answers' \in Seq(Answers)
  BY <1>4, <1>5
<1>q. QED BY <1>1, <1>4, <1>8, <1>9, <1>10, <1>11, <1>12, <1>13, <1>14, <1>15, LeavesInv

LEMMA TransferFailsInv ==
    ASSUME Inv, TransferFails
    PROVE  Inv'
<1>1. PICK w, v : w = World /\ v = World'
  OBVIOUS
<1>2. /\ w.s = src /\ w.q = queue /\ w.rc = 0 /\ w.ans = answers /\ w.doubt = doubt
      /\ w.asked = asked /\ w.lapsed = lapsed /\ w.adrift = adrift
  BY <1>1, WorldIs
<1>3. /\ v.s = src' /\ v.q = queue' /\ v.ans = answers' /\ v.doubt = doubt'
      /\ v.asked = asked' /\ v.lapsed = lapsed' /\ v.adrift = adrift'
  BY <1>1 DEF World
<1>4. queue # << >> /\ queue' = Tail(queue)
      /\ UNCHANGED <<sys, doubt, asked, lapsed, reverted, dev, answers>>
  BY DEF TransferFails, Sent
<1>5. queue \in Seq(Items) /\ answers \in Seq(Answers) /\ src \in Sources /\ dev \in Devices
      /\ adrift \subseteq Streams /\ misled \subseteq Streams
  BY WorldIs DEF Inv, Good, Rest, Worlds, Types
<1>6. PICK h : h = Head(queue)
  OBVIOUS
<1>7. h = queue[1] /\ h \in Items /\ h.stream \in Streams
  BY <1>4, <1>5, <1>6 DEF Items, Uploads, Selects, States
<1>8. IF h.kind = "image" THEN Result("failed") ELSE src' = src
  BY <1>6 DEF TransferFails
<1>9. /\ src' \in Sources /\ src'.cache = src.cache /\ src'.selShape = src.selShape
      /\ \A r \in Streams : LET u == src.st[r]  x == src'.st[r] IN
            /\ x.slot = u.slot /\ x.upShape = u.upShape /\ x.inflight = u.inflight /\ x.txDone = u.txDone
            /\ x.seen = u.seen /\ x.at = u.at /\ x.shown = u.shown /\ x.packet = u.packet
            /\ (h.kind # "image" \/ h.stream # r) => x.result = u.result
  <2>1. CASE h.kind = "image"
    <3>1. Result("failed") /\ Head(queue).kind = "image"
      BY <1>6, <1>8, <2>1
    <3>q. QED BY <1>4, <1>6, <2>1, <3>1, ResultWritten
  <2>2. CASE h.kind # "image"
    BY <1>5, <1>8, <2>2
  <2>q. QED BY <2>1, <2>2
<1>10. SameButResult(w, v)
  BY <1>2, <1>3, <1>4, <1>7, <1>9 DEF SameButResult
<1>11. FALSE \in BOOLEAN /\ Answering(w, v, FALSE)
  BY <1>2, <1>3, <1>4 DEF Answering
<1>12. /\ misled' = misled \cup (IF h.kind = "select" THEN {h.stream} ELSE {})
       /\ adrift' = adrift \cup (IF h.kind = "state" THEN {h.stream} ELSE {})
       /\ overtaken' = {s \in overtaken : Queued(s)'}
  BY <1>6 DEF TransferFails
<1>13. DeviceSlots(w, FALSE)
  BY <1>4 DEF DeviceSlots
<1>14. DeviceSel(w)
  BY <1>2, <1>4, <1>7, <1>12 DEF DeviceSel
<1>15. DeviceState(w, v)
  BY <1>2, <1>3, <1>4, <1>7, <1>12 DEF DeviceState
<1>16. \A r \in overtaken : (\E i : IsImage(v, i, r)) => r \in overtaken'
  BY <1>3, <1>12 DEF IsImage, Queued
<1>17. misled' \subseteq Streams /\ adrift' \subseteq Streams /\ overtaken' \subseteq overtaken
  BY <1>5, <1>7, <1>12
<1>18. dev' \in Devices /\ answers' \in Seq(Answers)
  BY <1>4, <1>5
<1>q. QED BY <1>1, <1>4, <1>9, <1>10, <1>11, <1>13, <1>14, <1>15, <1>16, <1>17, <1>18, LeavesInv
-----------------------------------------------------------------------------
(* The main thread. *)
LEMMA MovesGood ==
    ASSUME Good(World), UNCHANGED <<src, queue, wire, ghosts>>, Live' => Live, main.at # "closed",
           \A s \in Streams : Ahead(World, s) => Ahead(World, s)'
    PROVE  Good(World)'
<1>1. PICK w : w = World
  OBVIOUS
<1>2. World' = w
  BY <1>1 DEF World, wire, ghosts
<1>3. Rest(w)'
  <2>1. Rest(w)
    BY <1>1 DEF Good
  <2>2. dev' = dev /\ misled' = misled /\ overtaken \subseteq overtaken'
    BY DEF wire, ghosts
  <2>q. QED BY <2>1, <2>2, Carried
<1>4. ASSUME NEW s \in Streams PROVE HeldOf(w, s)'
  <2>1. HeldOf(w, s)
    BY <1>1 DEF Good
  <2>2. Ahead(w, s) => Ahead(w, s)'
    BY <1>1, <1>2
  <2>q. QED BY <2>1, <2>2 DEF HeldOf, Due, Holds, Keeps, ghosts
<1>q. QED BY <1>2, <1>3, <1>4 DEF Good

LEMMA MovesInv ==
    ASSUME Inv, UNCHANGED <<src, queue, note, job, todo, wire, ghosts>>, Live' => Live,
           main.at # "closed", main.at # "replay",
           main' \in [at : Mains, k : Streams], ct' \in [at : Threads, k : Streams],
           ct'.at # "asleep", main'.at \in {"streams", "freed", "closed"} => ct'.at = "exited",
           main'.at = "freed" => \A s \in Streams : Free(World, s)
    PROVE  Inv'
<1>1. Good(World)'
  BY MovesGood DEF Inv, Ahead
<1>2. Types'
  BY DEF Inv, Types, wire, ghosts
<1>3. Sleeping'
  BY DEF Sleeping
<1>4. Leaving'
  BY DEF Leaving, Free, IsImage, World, ghosts
<1>q. QED BY <1>1, <1>2, <1>3, <1>4 DEF Inv

LEMMA MainAt ==
    ASSUME Types, NEW at \in Mains, main' = [main EXCEPT !.at = at]
    PROVE  main' \in [at : Mains, k : Streams] /\ main'.at = at
BY DEF Types

LEMMA SessionFailsInv ==
    ASSUME Inv, SessionFails
    PROVE  Inv'
<1>1. "down" \in Mains /\ main' = [main EXCEPT !.at = "down"] /\ main.at = "run" /\ Awake
      /\ UNCHANGED <<src, queue, note, job, todo, wire, ghosts>>
  BY DEF SessionFails, Mains
<1>2. main' \in [at : Mains, k : Streams] /\ main'.at = "down"
  BY <1>1, MainAt DEF Inv
<1>3. ct' \in [at : Threads, k : Streams] /\ ct'.at # "asleep"
  BY <1>1, WakingUp DEF Inv
<1>q. QED BY <1>1, <1>2, <1>3, MovesInv DEF Live

LEMMA AttachInv ==
    ASSUME Inv, Attach
    PROVE  Inv'
<1>1. "collect" \in Mains /\ main' = [main EXCEPT !.at = "collect"] /\ main.at = "attach" /\ Awake
      /\ UNCHANGED <<src, queue, note, job, todo, wire, ghosts>>
  BY DEF Attach, Mains
<1>2. main' \in [at : Mains, k : Streams] /\ main'.at = "collect"
  BY <1>1, MainAt DEF Inv
<1>3. ct' \in [at : Threads, k : Streams] /\ ct'.at # "asleep"
  BY <1>1, WakingUp DEF Inv
<1>q. QED BY <1>1, <1>2, <1>3, MovesInv DEF Live

LEMMA WakeInv ==
    ASSUME Inv, Wake
    PROVE  Inv'
<1>1. main' = [at |-> "force", k |-> Min(Streams)] /\ main.at = "wake" /\ Awake
      /\ UNCHANGED <<src, queue, note, job, todo, wire, ghosts>>
  BY DEF Wake
<1>2. main' \in [at : Mains, k : Streams] /\ main'.at = "force"
  BY <1>1, MinStream DEF Mains
<1>3. ct' \in [at : Threads, k : Streams] /\ ct'.at # "asleep"
  BY <1>1, WakingUp DEF Inv
<1>q. QED BY <1>1, <1>2, <1>3, MovesInv DEF Live

LEMMA StopBeginsInv ==
    ASSUME Inv, StopBegins
    PROVE  Inv'
<1>1. "join" \in Mains /\ main' = [main EXCEPT !.at = "join"] /\ main.at \in {"run", "attach"} /\ Awake
      /\ UNCHANGED <<src, queue, note, job, todo, wire, ghosts>>
  BY DEF StopBegins, Mains
<1>2. main' \in [at : Mains, k : Streams] /\ main'.at = "join"
  BY <1>1, MainAt DEF Inv
<1>3. ct' \in [at : Threads, k : Streams] /\ ct'.at # "asleep"
  BY <1>1, WakingUp DEF Inv
<1>q. QED BY <1>1, <1>2, <1>3, MovesInv DEF Live

LEMMA CtJoinedInv ==
    ASSUME Inv, CtJoined
    PROVE  Inv'
<1>1. "streams" \in Mains /\ main' = [main EXCEPT !.at = "streams"] /\ main.at = "join" /\ ct.at = "exited"
      /\ UNCHANGED <<src, queue, note, ct, job, todo, wire, ghosts>>
  BY DEF CtJoined, Mains
<1>2. main' \in [at : Mains, k : Streams] /\ main'.at = "streams"
  BY <1>1, MainAt DEF Inv
<1>3. ct' \in [at : Threads, k : Streams] /\ ct'.at = "exited"
  BY <1>1 DEF Inv, Types
<1>q. QED BY <1>1, <1>2, <1>3, MovesInv DEF Live

LEMMA StreamsFreedInv ==
    ASSUME Inv, StreamsFreed
    PROVE  Inv'
<1>1. "freed" \in Mains /\ main' = [main EXCEPT !.at = "freed"] /\ main.at = "streams" /\ UploadsEnded
      /\ UNCHANGED <<src, queue, note, ct, job, todo, wire, ghosts>>
  BY DEF StreamsFreed, Mains
<1>2. main' \in [at : Mains, k : Streams] /\ main'.at = "freed"
  BY <1>1, MainAt DEF Inv
<1>3. ct' \in [at : Threads, k : Streams] /\ ct'.at = "exited"
  BY <1>1 DEF Inv, Types, Leaving
<1>4. \A s \in Streams : Free(World, s)
  <2>1. Unmoved(World) /\ World.s = src
    BY WorldIs DEF Inv, Good, Rest
  <2>q. QED BY <1>1, <2>1 DEF UploadsEnded, Unmoved, Free, IsImage
<1>q. QED BY <1>1, <1>2, <1>3, <1>4, MovesInv DEF Live

LEMMA SessionClosesInv ==
    ASSUME Inv, SessionCloses
    PROVE  Inv'
<1>1. PICK w, v : w = World /\ v = World'
  OBVIOUS
<1>2. /\ w.s = src /\ w.q = queue /\ w.rc = 0 /\ w.ans = answers /\ w.doubt = doubt
      /\ w.asked = asked /\ w.lapsed = lapsed /\ w.adrift = adrift
  BY <1>1, WorldIs
<1>3. /\ v.s = src /\ v.q = << >> /\ v.rc = 0 /\ v.ans = answers /\ v.doubt = doubt
      /\ v.asked = asked /\ v.lapsed = lapsed /\ v.adrift = adrift
  BY <1>1 DEF World, SessionCloses, wire
<1>4. main.at = "freed" /\ "closed" \in Mains /\ main' = [main EXCEPT !.at = "closed"]
      /\ UNCHANGED <<note, ct, job, todo, wire, misled, reverted>> /\ overtaken' = {} /\ src' = src
  BY DEF SessionCloses, Mains
<1>5. main' \in [at : Mains, k : Streams] /\ main'.at = "closed"
  BY <1>4, MainAt DEF Inv
<1>6. w \in Worlds /\ Shaped(w) /\ Single(w) /\ Unmoved(w) /\ \A s \in Streams : HeldOf(w, s)
  BY <1>1 DEF Inv, Good, Rest
<1>7. v \in Worlds /\ Len(v.q) <= QueueCap
  <2>1. v = [w EXCEPT !.q = << >>]
    BY <1>1, <1>2 DEF World, SessionCloses, wire
  <2>2. << >> \in Seq(Items) /\ Len(<< >>) = 0
    OBVIOUS
  <2>3. PICK e : e = << >>
    OBVIOUS
  <2>4. e \in Seq(Items) /\ v = [w EXCEPT !.q = e]
    BY <2>1, <2>2, <2>3
  <2>5. v \in Worlds
    BY <1>6, <2>4 DEF Worlds
  <2>6. Len(v.q) = 0 /\ 0 <= QueueCap
    BY <1>3, <2>2, CursorAssumption
  <2>q. QED BY <2>5, <2>6
<1>8. DOMAIN v.q = {}
  BY <1>3
<1>9. Shaped(v) /\ Single(v)
  BY <1>2, <1>3, <1>6, <1>8 DEF Shaped, Single
<1>10. (v \in Worlds)' /\ (Len(v.q) <= QueueCap)' /\ Shaped(v)' /\ Single(v)'
  BY <1>7, <1>9 DEF Shaped, Single, Current, IsImage, Own
<1>11. Mirrored(v)' /\ Selected(v)' /\ Stated(v)'
  BY <1>5 DEF Mirrored, Selected, Stated, Live
<1>12. Unmoved(v)'
  BY <1>8 DEF Unmoved
<1>13. ASSUME NEW s \in Streams PROVE HeldOf(v, s)'
  BY <1>2, <1>3, <1>4, <1>6 DEF HeldOf, Due, Holds, Keeps, Ahead
<1>14. Good(v)'
  BY <1>10, <1>11, <1>12, <1>13 DEF Good, Rest
<1>15. Types'
  BY <1>4, <1>5 DEF Inv, Types, wire
<1>16. ct'.at = "exited"
  BY <1>4 DEF Inv, Leaving
<1>q. QED BY <1>1, <1>5, <1>14, <1>15, <1>16 DEF Inv, Sleeping, Leaving
LEMMA SessionRebuiltInv ==
    ASSUME Inv, SessionRebuilt
    PROVE  Inv'
<1>1. PICK w, v : w = World /\ v = World'
  OBVIOUS
<1>2. /\ w.s = src /\ w.q = queue /\ w.rc = 0 /\ w.ans = answers /\ w.doubt = doubt
      /\ w.asked = asked /\ w.lapsed = lapsed /\ w.adrift = adrift
  BY <1>1, WorldIs
<1>3. /\ v.s = src' /\ v.q = << >> /\ v.rc = 0 /\ v.ans = answers /\ v.doubt = doubt
      /\ v.asked = asked /\ v.lapsed = lapsed /\ v.adrift = adrift'
  BY <1>1 DEF World, SessionRebuilt
<1>4. main.at = "down" /\ "attach" \in Mains /\ main' = [main EXCEPT !.at = "attach"]
      /\ UNCHANGED <<note, ct, job, todo, misled, reverted>> /\ overtaken' = {}
  BY DEF SessionRebuilt, Mains
<1>5. main' \in [at : Mains, k : Streams] /\ main'.at = "attach"
  BY <1>4, MainAt DEF Inv
<1>6. w \in Worlds /\ Shaped(w) /\ Single(w) /\ \A s \in Streams : HeldOf(w, s)
  BY <1>1 DEF Inv, Good, Rest
<1>7. src \in Sources /\ src.st \in [Streams -> Units]
  BY <1>2, <1>6 DEF Worlds, Sources
<1>8. PICK keep \in BOOLEAN :
        src' = [src EXCEPT !.st = [s \in Streams |->
                  [src.st[s] EXCEPT !.result = IF Queued(s) THEN "failed" ELSE @,
                                    !.seen = IF keep THEN @ ELSE NoAnswer]]]
  BY DEF SessionRebuilt
<1>9. PICK st : st = [s \in Streams |->
                  [src.st[s] EXCEPT !.result = IF Queued(s) THEN "failed" ELSE @,
                                    !.seen = IF keep THEN @ ELSE NoAnswer]]
  OBVIOUS
<1>10. ASSUME NEW s \in Streams
       PROVE  LET u == src.st[s]  x == st[s] IN
              /\ x \in Units
              /\ x.slot = u.slot /\ x.upShape = u.upShape /\ x.inflight = u.inflight /\ x.txDone = u.txDone
              /\ x.at = u.at /\ x.shown = u.shown /\ x.packet = u.packet
              /\ x.seen \in {u.seen, NoAnswer}
  <2>1. PICK u, c, e : u = src.st[s] /\ c = (IF Queued(s) THEN "failed" ELSE u.result)
                       /\ e = (IF keep THEN u.seen ELSE NoAnswer)
    OBVIOUS
  <2>2. u \in Units /\ c \in {None, "ok", "failed"} /\ e \in Answers /\ e \in {u.seen, NoAnswer}
    BY <1>7, <2>1 DEF Units, Answers, NoAnswer
  <2>3. st[s] = [u EXCEPT !.result = c, !.seen = e]
    BY <1>9, <2>1
  <2>q. QED BY <2>1, <2>2, <2>3 DEF Units
<1>11. src' = [src EXCEPT !.st = st] /\ st \in [Streams -> Units]
  BY <1>8, <1>9, <1>10
<1>12. src' \in Sources /\ src'.st = st /\ src'.cache = src.cache /\ src'.selShape = src.selShape
  BY <1>7, <1>11 DEF Sources
<1>13. adrift' = {s \in Streams : src.st[s].shown} /\ answers' = answers /\ doubt' = doubt
       /\ asked' = asked /\ lapsed' = lapsed
  BY DEF SessionRebuilt
<1>14. v \in Worlds /\ Len(v.q) <= QueueCap
  <2>1. PICK e : e = << >>
    OBVIOUS
  <2>2. v = [s |-> src', q |-> e, rc |-> 0, ans |-> answers, doubt |-> doubt,
             asked |-> asked, lapsed |-> lapsed, adrift |-> adrift']
    BY <1>1, <2>1 DEF World, SessionRebuilt
  <2>3. e \in Seq(Items) /\ answers \in Seq(Answers) /\ doubt \in SUBSET Slots
        /\ asked \in [Streams -> Pictures] /\ lapsed \in SUBSET Streams /\ adrift' \in SUBSET Streams
    BY <1>2, <1>6, <1>13, <2>1 DEF Worlds
  <2>4. v \in Worlds
    BY <1>12, <2>2, <2>3 DEF Worlds
  <2>5. Len(v.q) = 0 /\ 0 <= QueueCap
    BY <1>3, CursorAssumption
  <2>q. QED BY <2>4, <2>5
<1>15. DOMAIN v.q = {}
  BY <1>3
<1>16. Shaped(v)
  BY <1>2, <1>3, <1>6, <1>10, <1>12 DEF Shaped
<1>17. Single(v)
  BY <1>2, <1>3, <1>6, <1>10, <1>12, <1>15 DEF Single
<1>18. (v \in Worlds)' /\ (Len(v.q) <= QueueCap)' /\ Shaped(v)' /\ Single(v)'
  BY <1>14, <1>16, <1>17 DEF Shaped, Single, Current, IsImage, Own
<1>19. Mirrored(v)' /\ Selected(v)' /\ Unmoved(v)'
  BY <1>5, <1>15 DEF Mirrored, Selected, Unmoved, Live
<1>20. dev' = [slots |-> [k \in Slots |-> None], sel |-> [s \in Streams |-> NoSlot],
               state |-> [s \in Streams |-> [at |-> 0, shown |-> FALSE]]]
  BY DEF SessionRebuilt
<1>21. Stated(v)'
  <2>1. ASSUME NEW s \in Streams, s \notin adrift'
        PROVE  dev'.state[s].at = v.s.st[s].at /\ dev'.state[s].shown = v.s.st[s].shown
    <3>1. ~src.st[s].shown /\ src.st[s].shown \in BOOLEAN
      BY <1>7, <1>13, <2>1 DEF Units
    <3>2. src.st[s].at = 0 /\ src.st[s].shown = FALSE
      BY <1>2, <1>6, <3>1 DEF Shaped
    <3>3. dev'.state[s] = [at |-> 0, shown |-> FALSE]
      BY <1>20
    <3>4. v.s.st[s].at = src.st[s].at /\ v.s.st[s].shown = src.st[s].shown
      BY <1>3, <1>10, <1>12
    <3>5. dev'.state[s].at = 0 /\ dev'.state[s].shown = FALSE
      BY <3>3
    <3>q. QED BY <3>2, <3>4, <3>5
  <2>2. v.adrift = adrift'
    BY <1>3
  <2>q. QED BY <1>15, <2>1, <2>2 DEF Stated
<1>22. ASSUME NEW s \in Streams PROVE HeldOf(v, s)'
  <2>1. HeldOf(w, s) /\ ~Ahead(w, s)
    BY <1>4, <1>6 DEF Ahead
  <2>2. v.s.st[s].slot = w.s.st[s].slot /\ v.s.st[s].inflight = w.s.st[s].inflight
        /\ v.s.st[s].upShape = w.s.st[s].upShape /\ v.s.cache = w.s.cache /\ v.s.selShape = w.s.selShape
        /\ v.asked = w.asked /\ v.lapsed = w.lapsed
    BY <1>2, <1>3, <1>10, <1>12
  <2>q. QED BY <1>4, <2>1, <2>2 DEF HeldOf, Due, Holds, Keeps
<1>23. Good(v)'
  BY <1>18, <1>19, <1>21, <1>22 DEF Good, Rest
<1>24. dev' \in Devices
  <2>1. [at |-> 0, shown |-> FALSE] \in [at : Places, shown : BOOLEAN]
    BY DEF Places
  <2>q. QED BY <1>20, <2>1 DEF Devices, Spots, Pictures
<1>25. Types'
  BY <1>4, <1>5, <1>24 DEF Inv, Types
<1>26. Sleeping'
  BY <1>4, <1>10, <1>12 DEF Inv, Sleeping
<1>27. Leaving'
  BY <1>5 DEF Leaving
<1>q. QED BY <1>1, <1>23, <1>25, <1>26, <1>27 DEF Inv
(* What is left when everything is forgotten. *)
Forgotten(w, v) ==
    /\ \A s \in Streams : /\ v.s.st[s].slot = NoSlot /\ v.s.st[s].packet = w.s.st[s].packet
                          /\ v.s.st[s].at = w.s.st[s].at /\ v.s.st[s].shown = w.s.st[s].shown
                          /\ ~v.s.st[s].inflight /\ ~v.s.st[s].txDone /\ v.s.st[s].upShape = NoSlot
                          /\ v.s.st[s].seen = NoAnswer /\ v.s.selShape[s] = NoSlot
    /\ \A k \in Slots : v.s.cache[k] = None
    /\ v.asked = w.asked /\ v.lapsed = w.lapsed /\ v.adrift = w.adrift
    /\ DOMAIN v.q = DOMAIN w.q /\ Len(v.q) = Len(w.q)
    /\ \A i \in DOMAIN w.q : IF w.q[i].kind = "image"
                             THEN v.q[i] = [kind |-> "image", stream |-> w.q[i].stream, old |-> TRUE]
                             ELSE v.q[i] = w.q[i]
    /\ \A n \in DOMAIN v.ans : v.ans[n].old

LEMMA ForgottenBy ==
    ASSUME Inv, Collect, NEW w, w = World
    PROVE  World' \in Worlds /\ Forgotten(w, World')
<1>1. /\ w.s = src /\ w.q = queue /\ w.rc = 0 /\ w.ans = answers /\ w.doubt = doubt
      /\ w.asked = asked /\ w.lapsed = lapsed /\ w.adrift = adrift
  BY WorldIs
<1>2. w \in Worlds
  BY DEF Inv, Good, Rest
<1>3. src \in Sources /\ queue \in Seq(Items) /\ answers \in Seq(Answers) /\ src.st \in [Streams -> Units]
  BY <1>1, <1>2 DEF Worlds, Sources
<1>4. PICK q : q = [i \in DOMAIN queue |-> IF queue[i].kind = "image"
                                           THEN [queue[i] EXCEPT !.old = TRUE] ELSE queue[i]]
  OBVIOUS
<1>5. PICK a : a = [i \in DOMAIN answers |-> [answers[i] EXCEPT !.old = TRUE]]
  OBVIOUS
<1>6. PICK st : st = [s \in Streams |-> [GiveUp(w, s).s.st[s] EXCEPT !.slot = NoSlot]]
  OBVIOUS
<1>7. PICK n, m : n = Len(queue) /\ m = Len(answers)
  OBVIOUS
<1>8. n \in Nat /\ m \in Nat /\ DOMAIN queue = 1 .. n /\ DOMAIN answers = 1 .. m
  BY <1>3, <1>7
<1>9. ASSUME NEW i \in DOMAIN queue
      PROVE  /\ q[i] \in Items
             /\ IF queue[i].kind = "image"
                THEN q[i] = [kind |-> "image", stream |-> queue[i].stream, old |-> TRUE]
                ELSE q[i] = queue[i]
  <2>1. queue[i] \in Items
    BY <1>3
  <2>2. queue[i].kind = "image" =>
          /\ [queue[i] EXCEPT !.old = TRUE] = [kind |-> "image", stream |-> queue[i].stream, old |-> TRUE]
          /\ [queue[i] EXCEPT !.old = TRUE] \in Items
    BY <2>1, OlderItem
  <2>3. CASE queue[i].kind = "image"
    <3>1. q[i] = [queue[i] EXCEPT !.old = TRUE]
      BY <1>4, <2>3
    <3>q. QED BY <2>2, <2>3, <3>1
  <2>4. CASE queue[i].kind # "image"
    BY <1>4, <2>1, <2>4
  <2>q. QED BY <2>3, <2>4
<1>10. q \in Seq(Items) /\ Len(q) = n /\ DOMAIN q = DOMAIN queue
  <2>1. q \in [1 .. n -> Items]
    BY <1>4, <1>8, <1>9
  <2>q. QED BY <1>8, <2>1, ListOf
<1>11. ASSUME NEW i \in DOMAIN answers PROVE a[i] \in Answers /\ a[i].old
  <2>1. answers[i] \in Answers /\ a[i] = [answers[i] EXCEPT !.old = TRUE]
    BY <1>3, <1>5
  <2>q. QED BY <2>1, OlderAnswer
<1>12. a \in Seq(Answers) /\ DOMAIN a = DOMAIN answers
  <2>1. a \in [1 .. m -> Answers]
    BY <1>5, <1>8, <1>11
  <2>q. QED BY <1>8, <2>1, ListOf
<1>13. ASSUME NEW s \in Streams
       PROVE  /\ st[s] \in Units /\ st[s].slot = NoSlot /\ st[s].packet = src.st[s].packet
              /\ st[s].at = src.st[s].at /\ st[s].shown = src.st[s].shown
              /\ ~st[s].inflight /\ ~st[s].txDone /\ st[s].upShape = NoSlot /\ st[s].seen = NoAnswer
  <2>1. PICK g : g = GiveUp(w, s)
    OBVIOUS
  <2>2. g.s.st[s] = Released(src.st[s])
    BY <1>1, <1>2, <2>1, GiveUpEffect DEF Ended1
  <2>3. PICK u : u = Released(src.st[s])
    OBVIOUS
  <2>4. /\ u \in Units
        /\ ~u.inflight /\ ~u.txDone /\ u.upShape = NoSlot /\ u.seen = NoAnswer
        /\ u.packet = src.st[s].packet /\ u.at = src.st[s].at /\ u.shown = src.st[s].shown
    BY <1>3, <2>3, ReleasedUnit
  <2>5. st[s] = [u EXCEPT !.slot = NoSlot]
    BY <1>6, <2>1, <2>2, <2>3
  <2>q. QED BY <2>4, <2>5 DEF Units, Spots
<1>14. st \in [Streams -> Units]
  BY <1>6, <1>13
<1>15. PICK ca, se : ca = [k \in Slots |-> None] /\ se = [s \in Streams |-> NoSlot]
  OBVIOUS
<1>16. ca \in [Slots -> Pictures] /\ se \in [Streams -> Spots]
  BY <1>15 DEF Pictures, Spots
<1>17. PICK src2 : src2 = [src EXCEPT !.st = st, !.selStream = NoSlot, !.selShape = se, !.cache = ca]
  OBVIOUS
<1>18. src2 \in Sources /\ src2.st = st /\ src2.selShape = se /\ src2.cache = ca
  BY <1>3, <1>14, <1>16, <1>17 DEF Sources
<1>19. PICK y : y = [w EXCEPT !.s = src2, !.q = q, !.ans = a, !.doubt = {}]
  OBVIOUS
<1>20. /\ y \in Worlds /\ y.s = src2 /\ y.q = q /\ y.ans = a /\ y.doubt = {}
       /\ y.asked = asked /\ y.lapsed = lapsed /\ y.adrift = adrift /\ y.rc = 0
  BY <1>1, <1>2, <1>10, <1>12, <1>18, <1>19 DEF Worlds
<1>21. Become(y)
  <2>1. PICK x : x = [w EXCEPT !.q = q, !.ans = a, !.doubt = {}]
    OBVIOUS
  <2>2. x = [w EXCEPT !.q = [i \in DOMAIN queue |-> IF queue[i].kind = "image"
                                           THEN [queue[i] EXCEPT !.old = TRUE] ELSE queue[i]],
                      !.ans = [i \in DOMAIN answers |-> [answers[i] EXCEPT !.old = TRUE]],
                      !.doubt = {}]
    BY <1>4, <1>5, <2>1
  <2>3. PICK z : Become(z) /\ z = [x EXCEPT
            !.s.st = [s \in Streams |-> [GiveUp(w, s).s.st[s] EXCEPT !.slot = NoSlot]],
            !.s.selStream = NoSlot, !.s.selShape = [s \in Streams |-> NoSlot],
            !.s.cache = [k \in Slots |-> None]]
    BY <1>1, <2>2 DEF Collect
  <2>4. z = [x EXCEPT !.s.st = st, !.s.selStream = NoSlot, !.s.selShape = se, !.s.cache = ca]
    BY <1>6, <1>15, <2>3
  <2>5. x \in Worlds /\ x.s = src /\ x.q = q /\ x.ans = a /\ x.doubt = {}
    BY <1>1, <1>2, <1>10, <1>12, <2>1 DEF Worlds
  <2>6. z = [x EXCEPT !.s = src2]
    BY <1>3, <1>17, <2>4, <2>5 DEF Worlds, Sources
  <2>7. z = y
    BY <1>2, <1>19, <2>1, <2>5, <2>6 DEF Worlds
  <2>q. QED BY <2>3, <2>7
<1>22. World' = y
  <2>1. [y EXCEPT !.rc = 0] = y
    BY <1>20 DEF Worlds
  <2>q. QED BY <1>20, <1>21, <2>1, Becoming
<1>23. Forgotten(w, y)
  <2>1. \A s \in Streams : y.s.selShape[s] = NoSlot
    BY <1>15, <1>18, <1>20
  <2>2. \A k \in Slots : y.s.cache[k] = None
    BY <1>15, <1>18, <1>20
  <2>3. \A s \in Streams : y.s.st[s] = st[s]
    BY <1>18, <1>20
  <2>4. y.q = q /\ w.q = queue /\ Len(queue) = n /\ y.ans = a
    BY <1>1, <1>7, <1>20
  <2>5. y.asked = w.asked /\ y.lapsed = w.lapsed /\ y.adrift = w.adrift /\ w.s = src
    BY <1>1, <1>20
  <2>q. QED BY <1>9, <1>10, <1>11, <1>12, <1>13, <2>1, <2>2, <2>3, <2>4, <2>5 DEF Forgotten
<1>q. QED BY <1>20, <1>22, <1>23
LEMMA ForgottenGood ==
    ASSUME NEW w, NEW v \in Worlds, Forgotten(w, v), Good(w), main.at = "collect",
           main' = [at |-> "replay", k |-> Min(Streams)], dev' = dev, reverted' = reverted,
           overtaken' = {s \in Streams : \E i \in DOMAIN w.q : IsImage(w, i, s)},
           \A s \in Streams : w.s.st[s].slot # NoSlot /\ w.s.cache[w.s.st[s].slot] # None
                                => todo'[s].img = w.s.cache[w.s.st[s].slot]
    PROVE  Good(v)'
<1>1. w \in Worlds /\ Len(w.q) <= QueueCap /\ Shaped(w) /\ Stated(w) /\ \A s \in Streams : HeldOf(w, s)
  BY DEF Good, Rest
<1>2. /\ v.asked = w.asked /\ v.lapsed = w.lapsed /\ v.adrift = w.adrift
      /\ DOMAIN v.q = DOMAIN w.q /\ Len(v.q) = Len(w.q)
  BY DEF Forgotten
<1>3. ASSUME NEW s \in Streams
      PROVE  /\ v.s.st[s].slot = NoSlot /\ v.s.st[s].at = w.s.st[s].at /\ v.s.st[s].shown = w.s.st[s].shown
             /\ ~v.s.st[s].inflight /\ ~v.s.st[s].txDone /\ v.s.st[s].upShape = NoSlot
             /\ v.s.st[s].seen = NoAnswer /\ v.s.selShape[s] = NoSlot
  BY DEF Forgotten
<1>4. \A i \in DOMAIN w.q : v.q[i].kind = w.q[i].kind /\ v.q[i].stream = w.q[i].stream
                            /\ (w.q[i].kind = "image" => v.q[i].old) /\ (w.q[i].kind # "image" => v.q[i] = w.q[i])
  <2>1. ASSUME NEW i \in DOMAIN w.q
        PROVE  /\ v.q[i].kind = w.q[i].kind /\ v.q[i].stream = w.q[i].stream
               /\ (w.q[i].kind = "image" => v.q[i].old) /\ (w.q[i].kind # "image" => v.q[i] = w.q[i])
    <3>1. CASE w.q[i].kind = "image"
      <4>1. v.q[i] = [kind |-> "image", stream |-> w.q[i].stream, old |-> TRUE]
        BY <3>1 DEF Forgotten
      <4>q. QED BY <3>1, <4>1
    <3>2. CASE w.q[i].kind # "image"
      <4>1. v.q[i] = w.q[i]
        BY <3>2 DEF Forgotten
      <4>q. QED BY <3>2, <4>1
    <3>q. QED BY <3>1, <3>2
  <2>q. QED BY <2>1
<1>5. Shaped(v)
  BY <1>1, <1>3 DEF Shaped
<1>6. Single(v)
  <2>1. \A i, s : ~Current(v, i, s)
    BY <1>2, <1>4 DEF Current, IsImage
  <2>2. \A n \in DOMAIN v.ans : \A s : ~Own(v.ans[n], s)
    BY DEF Forgotten, Own
  <2>q. QED BY <2>1, <2>2 DEF Single
<1>7. (v \in Worlds)' /\ (Len(v.q) <= QueueCap)' /\ Shaped(v)' /\ Single(v)'
  BY <1>1, <1>2, <1>5, <1>6 DEF Shaped, Single, Current, IsImage, Own
<1>8. Mirrored(v)'
  BY DEF Mirrored, Forgotten
<1>9. Selected(v)'
  BY <1>3 DEF Selected
<1>10. Stated(v)'
  <2>1. ASSUME NEW s \in Streams \ v.adrift
        PROVE  /\ \A i \in DOMAIN v.q : Last(v, i, "state", s) =>
                    v.q[i].at = v.s.st[s].at /\ v.q[i].shown = v.s.st[s].shown
               /\ Nowhere(v, "state", s) => dev.state[s].at = v.s.st[s].at /\ dev.state[s].shown = v.s.st[s].shown
    <3>1. \A i : IsKind(v, i, "state", s) <=> IsKind(w, i, "state", s)
      BY <1>2, <1>4 DEF IsKind
    <3>2. \A i : Last(v, i, "state", s) => Last(w, i, "state", s) /\ v.q[i] = w.q[i]
      BY <1>2, <1>4, <3>1 DEF Last, IsKind
    <3>3. Nowhere(v, "state", s) => Nowhere(w, "state", s)
      BY <1>2, <3>1 DEF Nowhere
    <3>4. /\ \A i \in DOMAIN w.q : Last(w, i, "state", s) =>
                 w.q[i].at = w.s.st[s].at /\ w.q[i].shown = w.s.st[s].shown
          /\ Nowhere(w, "state", s) => dev.state[s].at = w.s.st[s].at /\ dev.state[s].shown = w.s.st[s].shown
      BY <1>1, <1>2, <2>1 DEF Stated
    <3>q. QED BY <1>2, <1>3, <3>2, <3>3, <3>4
  <2>q. QED BY <2>1 DEF Stated, Last, Nowhere, IsKind
<1>11. Unmoved(v)'
  <2>1. \A i, s : IsImage(v, i, s) => IsImage(w, i, s)
    BY <1>2, <1>4 DEF IsImage
  <2>2. ASSUME NEW s \in Streams \ overtaken', NEW i \in DOMAIN v.q PROVE ~IsImage(v, i, s)
    BY <1>2, <2>1, <2>2
  <2>q. QED BY <2>2 DEF Unmoved, IsImage
<1>12. ASSUME NEW s \in Streams PROVE HeldOf(v, s)'
  <2> SUFFICES ASSUME w.asked[s] # None, s \notin w.lapsed, s \notin reverted
               PROVE  Ahead(v, s)'
    BY <1>2 DEF HeldOf, Due
  <2>1. HeldOf(w, s) /\ ~Ahead(w, s)
    BY <1>1 DEF Ahead
  <2>2. w.s.st[s].slot # NoSlot /\ w.s.cache[w.s.st[s].slot] = w.asked[s]
    BY <2>1 DEF HeldOf, Due, Holds, Keeps
  <2>3. todo'[s].img = w.asked[s]
    BY <2>2
  <2>4. Min(Streams) \in Nat /\ s \in Nat /\ s >= Min(Streams)
    BY MinStream, CursorAssumption
  <2>q. QED BY <1>2, <1>3, <2>3, <2>4 DEF Ahead
<1>q. QED BY <1>7, <1>8, <1>9, <1>10, <1>11, <1>12 DEF Good, Rest

LEMMA CollectInv ==
    ASSUME Inv, Collect
    PROVE  Inv'
<1>1. PICK w, v : w = World /\ v = World'
  OBVIOUS
<1>2. v \in Worlds /\ Forgotten(w, v)
  BY <1>1, ForgottenBy
<1>3. /\ w.s = src /\ w.q = queue
  BY <1>1, WorldIs
<1>4. /\ main.at = "collect" /\ main' = [at |-> "replay", k |-> Min(Streams)]
      /\ UNCHANGED <<note, ct, job, dev, misled, reverted>>
      /\ overtaken' = {s \in Streams : Queued(s)}
  BY DEF Collect
<1>5. overtaken' = {s \in Streams : \E i \in DOMAIN w.q : IsImage(w, i, s)}
  BY <1>3, <1>4 DEF Queued, IsImage
<1>6. src \in Sources /\ src.st \in [Streams -> Units]
  BY <1>1, <1>3 DEF Inv, Good, Rest, Worlds, Sources
<1>7. todo' = [s \in Streams |->
                  LET u == src.st[s] IN
                  IF u.slot = NoSlot \/ src.cache[u.slot] = None
                  THEN Nothing
                  ELSE [img |-> src.cache[u.slot], at |-> u.at, shown |-> u.shown]]
  BY DEF Collect
<1>8. ASSUME NEW s \in Streams, src.st[s].slot # NoSlot, src.cache[src.st[s].slot] # None
      PROVE  todo'[s].img = src.cache[src.st[s].slot]
  BY <1>7, <1>8
<1>9. ASSUME NEW s \in Streams PROVE todo'[s] \in [img : Pictures, at : Places, shown : BOOLEAN]
  <2>1. src.st[s] \in Units
    BY <1>6
  <2>2. CASE src.st[s].slot = NoSlot \/ src.cache[src.st[s].slot] = None
    BY <1>7, <2>2 DEF Nothing, Pictures, Places
  <2>3. CASE ~(src.st[s].slot = NoSlot \/ src.cache[src.st[s].slot] = None)
    <3>1. src.cache[src.st[s].slot] \in Pictures
      BY <1>6, <2>1, <2>3 DEF Sources, Units, Spots
    <3>2. todo'[s] = [img |-> src.cache[src.st[s].slot], at |-> src.st[s].at, shown |-> src.st[s].shown]
      BY <1>7, <2>3
    <3>q. QED BY <2>1, <3>1, <3>2 DEF Units
  <2>q. QED BY <2>2, <2>3
<1>10. Good(v)'
  <2>1. \A s \in Streams : w.s.st[s].slot # NoSlot /\ w.s.cache[w.s.st[s].slot] # None
                                => todo'[s].img = w.s.cache[w.s.st[s].slot]
    BY <1>3, <1>8
  <2>q. QED BY <1>1, <1>2, <1>4, <1>5, <2>1, ForgottenGood DEF Inv
<1>11. main' \in [at : Mains, k : Streams] /\ main'.at = "replay"
  BY <1>4, MinStream DEF Mains
<1>12. Types'
  <2>1. todo' \in Todos
    BY <1>7, <1>9 DEF Todos
  <2>2. overtaken' \subseteq Streams
    BY <1>4
  <2>q. QED BY <1>4, <1>11, <2>1, <2>2 DEF Inv, Types
<1>q. QED BY <1>1, <1>10, <1>11, <1>12 DEF Inv, Sleeping, Leaving
(* One more stream of the replay, or of what comes after it. *)
LEMMA TurnsGood ==
    ASSUME NEW v \in Worlds, Rest(v), Become(v), UNCHANGED <<dev, misled, overtaken>>,
           Live' => Live, main.at # "closed", \A s \in Streams : HeldOf(v, s)'
    PROVE  Good(World)'
<1>1. PICK y : y = [v EXCEPT !.rc = 0]
  OBVIOUS
<1>2. /\ y \in Worlds /\ y.s = v.s /\ y.q = v.q /\ y.ans = v.ans /\ y.doubt = v.doubt
      /\ y.asked = v.asked /\ y.lapsed = v.lapsed /\ y.adrift = v.adrift
  BY <1>1 DEF Worlds
<1>3. Rest(y)
  BY <1>2, RestSame
<1>4. Rest(y)'
  BY <1>3, Carried
<1>5. \A s \in Streams : HeldOf(y, s)'
  BY <1>2 DEF HeldOf, Due, Holds, Keeps, Ahead
<1>6. World' = y
  BY <1>1, Becoming
<1>q. QED BY <1>4, <1>5, <1>6 DEF Good

LEMMA NextTurn ==
    ASSUME Types, NEW next \in Mains, NextMain(next)
    PROVE  /\ main' \in [at : Mains, k : Streams] /\ main'.at \in {main.at, next}
           /\ \A r \in Later(main.k) : main'.at = main.at /\ r >= main'.k
<1>1. main \in [at : Mains, k : Streams]
  BY DEF Types
<1>2. CASE Later(main.k) = {}
  BY <1>2, MinStream DEF NextMain
<1>3. CASE Later(main.k) # {}
  <2>1. Min(Later(main.k)) \in Streams /\ \A r \in Later(main.k) : r >= Min(Later(main.k))
    BY <1>1, <1>3, MinLater
  <2>2. main' = [main EXCEPT !.k = Min(Later(main.k))]
    BY <1>3 DEF NextMain
  <2>q. QED BY <1>1, <2>1, <2>2
<1>q. QED BY <1>2, <1>3

LEMMA ReplaySkips ==
    ASSUME Inv, Replay, todo[main.k].img = None
    PROVE  Good(World)'
<1>1. PICK v : v = Fine(World)
  OBVIOUS
<1>2. v \in Worlds /\ Good(v) /\ v.rc = 0
  <2>1. v = [World EXCEPT !.rc = 0]
    BY <1>1 DEF Fine
  <2>q. QED BY <2>1, RcAside DEF Inv, Good, Rest
<1>3. Become(v) /\ NextMain("wake") /\ todo' = todo /\ main.at = "replay"
      /\ UNCHANGED <<dev, misled, overtaken>> /\ reverted' = reverted
  BY <1>1, <1>2 DEF Replay
<1>4. "wake" \in Mains /\ Types
  BY DEF Mains, Inv
<1>5. main'.at \in {"replay", "wake"} /\ \A r \in Later(main.k) : main'.at = "replay" /\ r >= main'.k
  BY <1>3, <1>4, NextTurn
<1>6. ASSUME NEW s \in Streams PROVE HeldOf(v, s)'
  <2>1. HeldOf(v, s)
    BY <1>2 DEF Good
  <2>2. ASSUME Ahead(v, s), Due(v, s) PROVE Ahead(v, s)'
    <3>1. s >= main.k /\ s # main.k
      BY <2>2 DEF Ahead, Due
    <3>2. s \in Later(main.k)
      <4>1. main.k \in Streams
        BY DEF Inv, Types
      <4>2. main.k \in Nat /\ s \in Nat
        BY <4>1, CursorAssumption
      <4>q. QED BY <3>1, <4>2 DEF Later
    <3>q. QED BY <1>3, <1>5, <2>2, <3>2 DEF Ahead
  <2>q. QED BY <1>3, <2>1, <2>2 DEF HeldOf, Due, Holds, Keeps
<1>q. QED BY <1>2, <1>3, <1>5, <1>6, TurnsGood DEF Live, Good

LEMMA ReplaySends ==
    ASSUME Inv, Replay, todo[main.k].img # None
    PROVE  Good(World)'
<1>1. PICK s \in Streams : s = main.k
  BY DEF Inv, Types
<1>2. PICK img \in Image : img = todo[s].img
  BY <1>1 DEF Inv, Types, Todos, Pictures
<1>3. PICK w : w = SendImage(World, s, img, TRUE)
  OBVIOUS
<1>4. SentImage(World, w, s, TRUE)
  <2>1. TRUE \in BOOLEAN /\ Good(World)
    BY DEF Inv
  <2>q. QED BY <1>3, <2>1, SendImageGood, Zenon
<1>5. Rest(w) /\ w \in Worlds /\ (\A r \in Streams \ {s} : HeldOf(w, r)) /\ w.s.st[s].slot # NoSlot /\ w.asked = asked
      /\ (HeldOf(w, s) \/ w.s.st[s].packet.img # asked[s])
  BY <1>4, WorldIs DEF SentImage, Rest
<1>6. PICK v : v = IF w.rc = 0 THEN w ELSE [w EXCEPT !.lapsed = w.lapsed \cup {r \in Later(s) : todo[r].img # None}]
  OBVIOUS
<1>7. /\ main.at = "replay" /\ UNCHANGED <<dev, misled, overtaken>>
      /\ Become(v)
      /\ IF w.rc = 0 THEN NextMain("wake") /\ UNCHANGED todo ELSE main' = [main EXCEPT !.at = "wake"]
      /\ reverted' = IF w.s.st[s].packet.img # asked[s] THEN reverted \cup {s} ELSE reverted
  BY <1>1, <1>2, <1>3, <1>6 DEF Replay
<1>8. /\ v \in Worlds /\ v.s = w.s /\ v.q = w.q /\ v.ans = w.ans /\ v.doubt = w.doubt
      /\ v.asked = w.asked /\ v.adrift = w.adrift /\ w.lapsed \subseteq v.lapsed
      /\ w.rc # 0 => \A r \in Later(s) : todo[r].img # None => r \in v.lapsed
  <2>1. CASE w.rc = 0
    BY <1>5, <1>6, <2>1
  <2>2. CASE w.rc # 0
    <3>1. PICK l : l = w.lapsed \cup {r \in Later(s) : todo[r].img # None}
      OBVIOUS
    <3>2. l \in SUBSET Streams /\ w.lapsed \subseteq l /\ \A r \in Later(s) : todo[r].img # None => r \in l
      BY <1>5, <3>1 DEF Worlds, Later
    <3>3. v = [w EXCEPT !.lapsed = l]
      BY <1>6, <2>2, <3>1
    <3>4. v \in Worlds /\ v.s = w.s /\ v.q = w.q /\ v.ans = w.ans /\ v.doubt = w.doubt
          /\ v.asked = w.asked /\ v.adrift = w.adrift /\ v.lapsed = l
      BY <1>5, <3>2, <3>3 DEF Worlds
    <3>q. QED BY <3>2, <3>4
  <2>q. QED BY <2>1, <2>2
<1>9. Rest(v)
  BY <1>5, <1>8, RestSame
<1>10. "wake" \in Mains /\ Types
  BY DEF Mains, Inv
<1>11. main'.at \in {"replay", "wake"}
       /\ (w.rc = 0 => \A r \in Later(s) : main'.at = "replay" /\ r >= main'.k)
  <2>1. CASE w.rc = 0
    <3>1. NextMain("wake")
      BY <1>7, <2>1
    <3>q. QED BY <1>1, <1>7, <1>10, <3>1, NextTurn
  <2>2. CASE w.rc # 0
    BY <1>7, <1>10, <2>2, MainAt
  <2>q. QED BY <2>1, <2>2
<1>12. ASSUME NEW r \in Streams, r # s PROVE HeldOf(v, r)'
  <2>1. HeldOf(w, r)
    BY <1>5, <1>12
  <2>2. reverted \subseteq reverted'
    BY <1>7
  <2> SUFFICES ASSUME Due(v, r)' PROVE Holds(v, r) \/ Ahead(v, r)'
    BY DEF HeldOf, Holds, Keeps
  <2>3. Due(w, r) /\ w.asked[r] # None /\ r \notin v.lapsed
    BY <1>8, <2>2 DEF Due
  <2>4. Holds(w, r) => Holds(v, r)
    BY <1>8 DEF Holds, Keeps
  <2>5. ASSUME Ahead(w, r) PROVE Ahead(v, r)'
    <3>1. s \in Nat /\ r \in Nat
      BY CursorAssumption
    <3>2. r \in Later(s) /\ todo[r].img = w.asked[r]
      BY <1>1, <1>12, <2>5, <3>1 DEF Later, Ahead
    <3>3. w.rc = 0
      BY <1>8, <2>3, <3>2
    <3>4. main'.at = "replay" /\ r >= main'.k /\ todo' = todo
      BY <1>7, <1>11, <3>2, <3>3
    <3>q. QED BY <1>8, <2>5, <3>4 DEF Ahead
  <2>q. QED BY <2>1, <2>3, <2>4, <2>5 DEF HeldOf
<1>13. HeldOf(v, s)'
  <2> SUFFICES ASSUME Due(v, s)' PROVE Holds(v, s)
    BY DEF HeldOf, Holds, Keeps
  <2>1. s \notin reverted'
    BY DEF Due
  <2>2. HeldOf(w, s) /\ s \notin reverted
    BY <1>5, <1>7, <2>1
  <2>3. Due(w, s)
    BY <1>8, <2>2 DEF Due
  <2>4. ~Ahead(w, s)
    BY <1>5 DEF Ahead
  <2>5. Holds(w, s)
    BY <2>2, <2>3, <2>4 DEF HeldOf
  <2>q. QED BY <1>8, <2>5 DEF Holds, Keeps
<1>14. \A r \in Streams : HeldOf(v, r)'
  BY <1>12, <1>13
<1>q. QED BY <1>7, <1>8, <1>9, <1>11, <1>14, TurnsGood DEF Live

LEMMA ReplayInv ==
    ASSUME Inv, Replay
    PROVE  Inv'
<1>1. Good(World)'
  BY ReplaySkips, ReplaySends
<1>2. PICK w : w = IF todo[main.k].img = None THEN Fine(World) ELSE SendImage(World, main.k, todo[main.k].img, TRUE)
  OBVIOUS
<1>3. /\ main.at = "replay" /\ UNCHANGED <<note, ct, job, dev, overtaken, misled>>
      /\ IF w.rc = 0 THEN NextMain("wake") /\ UNCHANGED todo
         ELSE main' = [main EXCEPT !.at = "wake"] /\ todo' = [r \in Streams |-> Nothing]
      /\ reverted' \in {reverted, reverted \cup {main.k}}
  BY <1>2 DEF Replay
<1>4. "wake" \in Mains /\ Types /\ main.k \in Streams
  BY DEF Mains, Inv, Types
<1>5. main' \in [at : Mains, k : Streams] /\ main'.at \in {"replay", "wake"}
  <2>1. CASE w.rc = 0
    <3>1. NextMain("wake")
      BY <1>3, <2>1
    <3>q. QED BY <1>3, <1>4, <3>1, NextTurn
  <2>2. CASE w.rc # 0
    BY <1>3, <1>4, <2>2, MainAt
  <2>q. QED BY <2>1, <2>2
<1>6. todo' \in Todos
  <2>1. [r \in Streams |-> Nothing] \in Todos
    BY DEF Todos, Nothing, Pictures, Places
  <2>q. QED BY <1>3, <1>4, <2>1 DEF Types
<1>7. Types'
  BY <1>3, <1>4, <1>5, <1>6 DEF Types
<1>q. QED BY <1>1, <1>5, <1>7 DEF Inv, Sleeping, Leaving

LEMMA ForceStateInv ==
    ASSUME Inv, ForceState
    PROVE  Inv'
<1>1. PICK s \in Streams : s = main.k
  BY DEF Inv, Types
<1>2. PICK w : w = IF ~todo[s].shown \/ src.st[s].inflight THEN World
                   ELSE SubmitState(World, s, todo[s].at, TRUE, TRUE)
  OBVIOUS
<1>3. /\ main.at = "force" /\ Become(w) /\ UNCHANGED <<note, ct, job, dev, overtaken, misled, reverted>>
      /\ IF w.rc = 0 THEN NextMain("run") ELSE main' = [main EXCEPT !.at = "run"]
      /\ todo' = IF main'.at = "run" THEN [r \in Streams |-> Nothing] ELSE todo
  BY <1>1, <1>2 DEF ForceState
<1>4. Good(w) /\ \A r \in Streams : w.s.st[r].inflight = src.st[r].inflight
  <2>1. CASE ~todo[s].shown \/ src.st[s].inflight
    BY <1>2, <2>1, WorldIs DEF Inv
  <2>2. CASE ~(~todo[s].shown \/ src.st[s].inflight)
    <3>1. todo[s].at \in Places /\ Good(World)
      BY DEF Inv, Types, Todos
    <3>2. w = SubmitState(World, s, todo[s].at, TRUE, TRUE)
      BY <1>2, <2>2
    <3>3. Stating(World, w)
      BY <3>1, <3>2, SubmitStateIs
    <3>q. QED BY <3>3, WorldIs DEF Stating, SameUploads, SameFlights
  <2>q. QED BY <2>1, <2>2
<1>5. "run" \in Mains /\ Types
  BY DEF Mains, Inv
<1>6. main' \in [at : Mains, k : Streams] /\ main'.at \in {"force", "run"}
  <2>1. CASE w.rc = 0
    <3>1. NextMain("run")
      BY <1>3, <2>1
    <3>q. QED BY <1>3, <1>5, <3>1, NextTurn
  <2>2. CASE w.rc # 0
    BY <1>3, <1>5, <2>2, MainAt
  <2>q. QED BY <2>1, <2>2
<1>7. \A r \in Streams : HeldOf(w, r)'
  <2>1. ASSUME NEW r \in Streams PROVE HeldOf(w, r)'
    <3>1. HeldOf(w, r) /\ ~Ahead(w, r)
      BY <1>3, <1>4 DEF Good, Ahead
    <3>q. QED BY <1>3, <3>1 DEF HeldOf, Due, Holds, Keeps
  <2>q. QED BY <2>1
<1>8. Good(World)'
  BY <1>3, <1>4, <1>6, <1>7, TurnsGood DEF Live, Good, Rest
<1>9. Types'
  <2>1. [r \in Streams |-> Nothing] \in Todos
    BY DEF Todos, Nothing, Pictures, Places
  <2>q. QED BY <1>3, <1>5, <1>6, <2>1 DEF Types
<1>10. Sleeping'
  <2>1. src' = w.s
    BY <1>3 DEF Become
  <2>q. QED BY <1>3, <1>4, <2>1 DEF Inv, Sleeping
<1>q. QED BY <1>6, <1>8, <1>9, <1>10 DEF Inv, Leaving
-----------------------------------------------------------------------------
LEMMA InitInv ==
    ASSUME Init
    PROVE  Inv
<1>1. PICK w : w = World
  OBVIOUS
<1>2. /\ w.s = src /\ w.q = << >> /\ w.rc = 0 /\ w.ans = << >> /\ w.doubt = {}
      /\ w.asked = [s \in Streams |-> None] /\ w.lapsed = {} /\ w.adrift = {}
  BY <1>1, WorldIs DEF Init
<1>3. PICK u : u = [slot |-> NoSlot, upShape |-> NoSlot,
                    inflight |-> FALSE, txDone |-> FALSE,
                    seen |-> NoAnswer, late |-> FALSE,
                    result |-> None, at |-> 0, shown |-> FALSE,
                    packet |-> [shape |-> NoSlot, img |-> None]]
  OBVIOUS
<1>4. u \in Units
  BY <1>3 DEF Units, Spots, Answers, NoAnswer, Packets, Pictures, Places
<1>5. PICK st, ca, se : st = [s \in Streams |-> u] /\ ca = [k \in Slots |-> None] /\ se = [s \in Streams |-> NoSlot]
  OBVIOUS
<1>6. src = [st |-> st, cache |-> ca, next |-> 0, selStream |-> NoSlot, selShape |-> se]
  BY <1>3, <1>5 DEF Init
<1>7. src \in Sources
  <2>1. st \in [Streams -> Units] /\ ca \in [Slots -> Pictures] /\ se \in [Streams -> Spots]
    BY <1>4, <1>5 DEF Pictures, Spots
  <2>2. 0 \in 0 .. CacheMax + 1
    BY CursorAssumption
  <2>q. QED BY <1>6, <2>1, <2>2 DEF Sources
<1>8. \A s \in Streams : src.st[s] = u
  BY <1>5, <1>6
<1>9. (\A k \in Slots : src.cache[k] = None) /\ \A s \in Streams : src.selShape[s] = NoSlot
  BY <1>5, <1>6
<1>10. w \in Worlds /\ Len(w.q) <= QueueCap
  <2>1. PICK e : e = << >>
    OBVIOUS
  <2>2. w = [s |-> src, q |-> e, rc |-> 0, ans |-> e, doubt |-> {},
             asked |-> [s \in Streams |-> None], lapsed |-> {}, adrift |-> {}]
    BY <1>1, <2>1 DEF World, Init
  <2>3. e \in Seq(Items) /\ e \in Seq(Answers) /\ [s \in Streams |-> None] \in [Streams -> Pictures]
    BY <2>1 DEF Pictures
  <2>4. w \in Worlds
    BY <1>7, <2>2, <2>3 DEF Worlds
  <2>5. Len(w.q) = 0 /\ 0 <= QueueCap
    BY <1>2, CursorAssumption
  <2>q. QED BY <2>4, <2>5
<1>11. DOMAIN w.q = {} /\ DOMAIN w.ans = {}
  BY <1>2
<1>12. Shaped(w)
  BY <1>2, <1>3, <1>8 DEF Shaped
<1>13. Single(w) /\ Unmoved(w)
  BY <1>11 DEF Single, Unmoved
<1>14. Mirrored(w) /\ Selected(w)
  BY <1>2, <1>9 DEF Mirrored, Selected
<1>15. dev = [slots |-> ca, sel |-> se, state |-> [s \in Streams |-> [at |-> 0, shown |-> FALSE]]]
  BY <1>5 DEF Init
<1>16. Stated(w)
  <2>1. \A s \in Streams : dev.state[s] = [at |-> 0, shown |-> FALSE]
    BY <1>15
  <2>2. \A s \in Streams : w.s.st[s].at = 0 /\ w.s.st[s].shown = FALSE
    BY <1>2, <1>3, <1>8
  <2>3. \A s \in Streams : dev.state[s].at = 0 /\ dev.state[s].shown = FALSE
    BY <2>1
  <2>q. QED BY <1>11, <2>2, <2>3 DEF Stated
<1>17. \A s \in Streams : HeldOf(w, s)
  BY <1>2 DEF HeldOf, Due
<1>18. Good(w)
  BY <1>10, <1>12, <1>13, <1>14, <1>16, <1>17 DEF Good, Rest
<1>19. Types
  <2>1. dev \in Devices
    BY <1>5, <1>15 DEF Devices, Pictures, Spots, Places
  <2>2. note \in [Streams -> Notes]
    BY DEF Init, Notes, Pictures
  <2>3. ct \in [at : Threads, k : Streams] /\ main \in [at : Mains, k : Streams]
    BY MinStream DEF Init, Threads, Mains
  <2>4. job \in JobSet
    BY NoJobType DEF Init
  <2>5. todo \in Todos
    BY DEF Init, Todos, Nothing, Pictures, Places
  <2>6. misled = {} /\ reverted = {} /\ overtaken = {}
    BY DEF Init
  <2>q. QED BY <2>1, <2>2, <2>3, <2>4, <2>5, <2>6 DEF Types
<1>20. Sleeping /\ Leaving
  BY DEF Init, Sleeping, Leaving
<1>q. QED BY <1>1, <1>18, <1>19, <1>20 DEF Inv

LEMMA StutterInv ==
    ASSUME Inv, UNCHANGED vars
    PROVE  Inv'
<1>1. UNCHANGED <<src, queue, sys, wire, ghosts>>
  BY DEF vars
<1>2. Good(World)'
  BY <1>1, StaysGood DEF Inv, sys
<1>3. Types' /\ Sleeping'
  BY <1>1 DEF Inv, Types, Sleeping, sys, wire, ghosts
<1>4. Leaving'
  BY <1>1 DEF Inv, Leaving, Free, IsImage, World, sys, ghosts
<1>q. QED BY <1>2, <1>3, <1>4 DEF Inv

LEMMA NextInv ==
    ASSUME Inv, [Next]_vars
    PROVE  Inv'
<1>1. CASE \E s \in Streams : \/ \E img \in Image \cup {Disabled} : CursorSet(s, img)
                              \/ \E at \in Places : CursorMove(s, at)
                              \/ TimePasses(s)
  BY <1>1, CursorSetInv, CursorMoveInv, TimePassesInv
<1>2. CASE CursorThread
  BY <1>2, CtPumpInv, CtFetchInv, CtSetInv, CtMoveInv, CtHideInv DEF CursorThread
<1>3. CASE Worker
  BY <1>3, SendsImageInv, SendsCommandInv, TransferFailsInv DEF Worker
<1>4. CASE Response \/ ResponseLost \/ SessionFails \/ StopBegins
  BY <1>4, ResponseInv, ResponseLostInv, SessionFailsInv, StopBeginsInv
<1>5. CASE Recovery
  BY <1>5, SessionRebuiltInv, AttachInv, CollectInv, ReplayInv, WakeInv, ForceStateInv DEF Recovery
<1>6. CASE Ending
  BY <1>6, CtJoinedInv, StreamsFreedInv, SessionClosesInv DEF Ending
<1>7. CASE Ended \/ UNCHANGED vars
  BY <1>7, StutterInv DEF Ended
<1>q. QED BY <1>1, <1>2, <1>3, <1>4, <1>5, <1>6, <1>7 DEF Next

(* The invariant is one. *)
THEOREM AlwaysInv == Spec => []Inv
<1>1. Init => Inv
  BY InitInv
<1>2. Inv /\ [Next]_vars => Inv'
  BY NextInv
<1>q. QED BY <1>1, <1>2, PTL DEF Spec
-----------------------------------------------------------------------------
(* The properties. *)
LEMMA InvTypeOK ==
    ASSUME Inv
    PROVE  TypeOK
<1>1. PICK w : w = World
  OBVIOUS
<1>2. /\ w.s = src /\ w.q = queue /\ w.doubt = doubt /\ w.lapsed = lapsed /\ w.adrift = adrift
      /\ w \in Worlds /\ Shaped(w) /\ Len(w.q) <= QueueCap
  BY <1>1, WorldIs DEF Inv, Good, Rest
<1>3. src \in Sources /\ doubt \subseteq Slots /\ lapsed \subseteq Streams /\ adrift \subseteq Streams
  BY <1>2 DEF Worlds
<1>4. /\ src.cache \in [Slots -> Pictures] /\ src.next \in 0..CacheMax + 1
      /\ src.selStream \in Streams \cup {NoSlot}
      /\ src.selShape \in [Streams -> Slots \cup {NoSlot}]
  BY <1>3 DEF Sources, Spots
<1>5. ASSUME NEW s \in Streams
      PROVE  LET u == src.st[s] IN
             /\ u.slot \in Slots \cup {NoSlot} /\ u.upShape \in Slots \cup {NoSlot}
             /\ u.inflight <=> u.upShape # NoSlot
             /\ u.txDone => u.inflight
             /\ u.result \in {None, "ok", "failed"}
  <2>1. src.st[s] \in Units
    BY <1>3 DEF Sources
  <2>2. (src.st[s].inflight <=> src.st[s].upShape # NoSlot) /\ (src.st[s].txDone => src.st[s].inflight)
    BY <1>2 DEF Shaped
  <2>q. QED BY <2>1, <2>2 DEF Units, Spots
<1>6. /\ note \in [Streams -> Notes]
      /\ ct \in [at : Threads, k : Streams] /\ main \in [at : Mains, k : Streams]
      /\ misled \subseteq Streams /\ reverted \subseteq Streams /\ overtaken \subseteq Streams
  BY DEF Inv, Types
<1>q. QED BY <1>2, <1>3, <1>4, <1>5, <1>6 DEF TypeOK

LEMMA InvMirrors ==
    ASSUME Inv
    PROVE  CacheMirrorsDevice
<1>1. TypeOK
  BY InvTypeOK
<1>2. ASSUME main.at \in {"run", "replay", "wake", "force"}, NEW k \in Slots \ doubt
      PROVE  \/ src.cache[k] \in {None, dev.slots[k]}
             \/ \E s \in Streams : src.st[s].inflight /\ src.st[s].upShape = k
  <2>1. Mirrored(World) /\ Live /\ World.s = src /\ World.doubt = doubt
    BY <1>2, WorldIs DEF Inv, Good, Rest, Live
  <2>q. QED BY <2>1 DEF Mirrored, There, Coming
<1>q. QED BY <1>1, <1>2 DEF CacheMirrorsDevice

(* A valid entry of the cursor cache that is not being uploaded is in the
   adapter's slot (evdi_source.c:861-876, 744-754), for every number of
   streams, slots and images and every length of the queue. *)
THEOREM CacheMirrorsTheDevice == Spec => []CacheMirrorsDevice
<1>1. Inv => CacheMirrorsDevice
  BY InvMirrors
<1>q. QED BY <1>1, AlwaysInv, PTL

LEMMA InvShows ==
    ASSUME Inv
    PROVE  SettledShowsAsked
<1> SUFFICES ASSUME NEW s \in Streams \ reverted, Settled(s), src.st[s].slot \notin doubt
             PROVE  Shows(s)
  BY DEF SettledShowsAsked
<1>1. /\ main.at = "run" /\ ct.at = "asleep" /\ queue = << >>
      /\ asked[s] # None /\ s \notin lapsed /\ s \notin misled
  BY DEF Settled
<1>2. \A r \in Streams : ~src.st[r].inflight
  BY <1>1 DEF Inv, Sleeping
<1>3. PICK w : w = World
  OBVIOUS
<1>4. /\ w.s = src /\ w.q = << >> /\ w.doubt = doubt /\ w.asked = asked /\ w.lapsed = lapsed
  BY <1>1, <1>3, WorldIs
<1>5. HeldOf(w, s) /\ Mirrored(w) /\ Selected(w) /\ w \in Worlds
  BY <1>3 DEF Inv, Good, Rest
<1>6. Due(w, s) /\ ~Ahead(w, s)
  BY <1>1, <1>4 DEF Due, Ahead
<1>7. src.st[s].slot # NoSlot /\ src.cache[src.st[s].slot] = asked[s] /\ src.selShape[s] = src.st[s].slot
  BY <1>2, <1>4, <1>5, <1>6 DEF HeldOf, Holds, Keeps
<1>8. PICK k \in Slots : k = src.st[s].slot
  <2>1. src.st[s] \in Units
    BY <1>4, <1>5 DEF Worlds, Sources
  <2>q. QED BY <1>7, <2>1 DEF Units, Spots
<1>9. Live
  BY <1>1 DEF Live
<1>10. dev.sel[s] = k
  <2>1. Nowhere(w, "select", s)
    BY <1>4 DEF Nowhere, IsKind
  <2>q. QED BY <1>1, <1>4, <1>5, <1>7, <1>8, <1>9, <2>1 DEF Selected
<1>11. dev.slots[k] = asked[s]
  BY <1>1, <1>2, <1>4, <1>5, <1>7, <1>8, <1>9 DEF Mirrored, There, Coming
<1>q. QED BY <1>7, <1>8, <1>10, <1>11 DEF Shows

(* When nothing is left to do the adapter shows the last image that was
   accepted (evdi_source.c:739-766, 890-920, 1424-1505). *)
THEOREM ShowsWhatWasAsked == Spec => []SettledShowsAsked
<1>1. Inv => SettledShowsAsked
  BY InvShows
<1>q. QED BY <1>1, AlwaysInv, PTL

LEMMA GreatestOf ==
    ASSUME NEW n \in Nat, NEW T, T \subseteq 1 .. n, T # {}
    PROVE  Max(T) \in T /\ \A j \in T : j <= Max(T)
<1>1. PICK R : R = {n - i : i \in T}
  OBVIOUS
<1>2. R \subseteq Nat /\ R # {}
  <2>1. \A i \in T : i \in 1 .. n /\ n - i \in Nat
    OBVIOUS
  <2>2. \A y \in R : y \in Nat
    BY <1>1, <2>1
  <2>3. PICK i : i \in T
    OBVIOUS
  <2>4. n - i \in R
    BY <1>1, <2>3
  <2>q. QED BY <2>2, <2>4
<1>3. PICK x \in R : \A y \in R : x <= y
  BY <1>2, LeastOf
<1>4. PICK i \in T : x = n - i
  BY <1>1, <1>3
<1>5. ASSUME NEW j \in T PROVE j <= i
  <2>1. n - j \in R /\ i \in 1 .. n /\ j \in 1 .. n
    BY <1>1
  <2>2. n - i <= n - j
    BY <1>3, <1>4, <2>1
  <2>q. QED BY <2>1, <2>2
<1>6. \E y \in T : \A z \in T : z <= y
  BY <1>5
<1>7. Max(T) \in T /\ \A z \in T : z <= Max(T)
  <2>1. \A y, z \in T : y \in Int /\ z \in Int
    OBVIOUS
  <2>2. \E y \in T : \A z \in T : y >= z
    BY <1>6, <2>1
  <2>3. Max(T) \in T /\ \A z \in T : Max(T) >= z
    BY <2>2 DEF Max
  <2>q. QED BY <2>1, <2>3
<1>q. QED BY <1>7

LEMMA LastWaiting ==
    ASSUME Inv, NEW kind, NEW s
    PROVE  IF Waiting(kind, s) = {} THEN Nowhere(World, kind, s)
           ELSE Last(World, Max(Waiting(kind, s)), kind, s)
<1>1. PICK T, m : T = Waiting(kind, s) /\ m = Max(T)
  OBVIOUS
<1>2. World.q = queue /\ queue \in Seq(Items)
  BY WorldIs DEF Inv, Good, Rest, Worlds
<1>3. \A i : i \in T <=> IsKind(World, i, kind, s)
  BY <1>1, <1>2 DEF Waiting, IsKind
<1>4. CASE T = {}
  BY <1>1, <1>3, <1>4 DEF Nowhere
<1>5. CASE T # {}
  <2>1. PICK n : n = Len(queue)
    OBVIOUS
  <2>2. n \in Nat /\ DOMAIN queue = 1 .. n
    BY <1>2, <2>1
  <2>3. T \subseteq 1 .. n
    BY <1>1, <2>2 DEF Waiting
  <2>4. m \in T /\ \A j \in T : j <= m
    BY <1>1, <1>5, <2>2, <2>3, GreatestOf
  <2>5. ASSUME NEW j \in DOMAIN World.q, j > m PROVE ~IsKind(World, j, kind, s)
    <3>1. j \in Nat /\ m \in Nat
      BY <1>2, <2>2, <2>3, <2>4, <2>5
    <3>2. ~(j <= m)
      BY <2>5, <3>1
    <3>q. QED BY <1>3, <2>4, <3>2
  <2>q. QED BY <1>1, <1>3, <1>5, <2>4, <2>5 DEF Last
<1>q. QED BY <1>4, <1>5

LEMMA InvSelection ==
    ASSUME Inv
    PROVE  SelectionInStep
<1> SUFFICES ASSUME Live, NEW s \in Streams \ misled, src.selShape[s] # NoSlot
             PROVE  src.selShape[s] = ToSelect(s)
  BY DEF SelectionInStep, Live
<1>1. World.s = src /\ World.q = queue /\ Selected(World)
  BY WorldIs DEF Inv, Good, Rest
<1>2. /\ \A i \in DOMAIN queue : Last(World, i, "select", s) => queue[i].shape = src.selShape[s]
      /\ Nowhere(World, "select", s) => dev.sel[s] = src.selShape[s]
  BY <1>1 DEF Selected
<1>3. CASE Waiting("select", s) = {}
  BY <1>2, <1>3, LastWaiting DEF ToSelect
<1>4. CASE Waiting("select", s) # {}
  <2>1. PICK m : m = Max(Waiting("select", s))
    OBVIOUS
  <2>2. Last(World, m, "select", s) /\ m \in DOMAIN queue
    BY <1>1, <1>4, <2>1, LastWaiting DEF Last, IsKind
  <2>q. QED BY <1>2, <1>4, <2>1, <2>2 DEF ToSelect
<1>q. QED BY <1>3, <1>4

LEMMA InvState ==
    ASSUME Inv
    PROVE  StateInStep
<1> SUFFICES ASSUME main.at # "closed", NEW s \in Streams \ adrift
             PROVE  ToShow(s) = <<src.st[s].at, src.st[s].shown>>
  BY DEF StateInStep
<1>1. World.s = src /\ World.q = queue /\ Stated(World) /\ World.adrift = adrift
  BY WorldIs DEF Inv, Good, Rest
<1>2. /\ \A i \in DOMAIN queue : Last(World, i, "state", s) =>
             queue[i].at = src.st[s].at /\ queue[i].shown = src.st[s].shown
      /\ Nowhere(World, "state", s) => dev.state[s].at = src.st[s].at /\ dev.state[s].shown = src.st[s].shown
  BY <1>1 DEF Stated
<1>3. PICK now : now = IF Waiting("state", s) = {} THEN dev.state[s] ELSE queue[Max(Waiting("state", s))]
  OBVIOUS
<1>4. now.at = src.st[s].at /\ now.shown = src.st[s].shown
  <2>1. CASE Waiting("state", s) = {}
    BY <1>2, <1>3, <2>1, LastWaiting
  <2>2. CASE Waiting("state", s) # {}
    <3>1. PICK m : m = Max(Waiting("state", s))
      OBVIOUS
    <3>2. Last(World, m, "state", s) /\ m \in DOMAIN queue
      BY <1>1, <2>2, <3>1, LastWaiting DEF Last, IsKind
    <3>q. QED BY <1>2, <1>3, <2>2, <3>1, <3>2
  <2>q. QED BY <2>1, <2>2
<1>5. ToShow(s) = <<now.at, now.shown>>
  BY <1>3 DEF ToShow
<1>q. QED BY <1>4, <1>5

(* What the driver leaves out because it believes it is made, is made or on its
   way: the selected shape (evdi_source.c:662-665) and the place and visibility
   (evdi_source.c:683-690). *)
THEOREM RecordsStayInStep == Spec => []RecordsInStep
<1>1. Inv => RecordsInStep
  BY InvSelection, InvState DEF RecordsInStep
<1>q. QED BY <1>1, AlwaysInv, PTL

(* No packet is written that waits to be read. *)
SpareOnly == \A s \in Streams : src'.st[s].packet # src.st[s].packet => Free(World, s)

LEMMA SentSpare ==
    ASSUME NEW v, NEW s \in Streams, NEW force, SentImage(World, v, s, force), src' = v.s
    PROVE  SpareOnly
BY WorldIs DEF SentImage, Delivered, SpareOnly

LEMMA StatedSpare ==
    ASSUME NEW v, Stating(World, v), src' = v.s
    PROVE  SpareOnly
BY WorldIs DEF Stating, SameUploads, SameFlights, SpareOnly

LEMMA CursorThreadSpare ==
    ASSUME Inv, CursorThread
    PROVE  SpareOnly
<1>1. Good(World) /\ World.s = src /\ job \in JobSet /\ ct.k \in Streams /\ job.stream \in Streams
  BY WorldIs DEF Inv, Types, JobSet
<1>2. CASE CtPump
  <2>1. PICK v : v = IF usb THEN Pump(World, ct.k) ELSE World
    OBVIOUS
  <2>2. src' = v.s
    BY <1>2, <2>1 DEF CtPump, Become
  <2>3. \A s \in Streams : v.s.st[s].packet = src.st[s].packet
    BY <1>1, <2>1, PumpGood DEF Calmer
  <2>q. QED BY <2>2, <2>3 DEF SpareOnly
<1>3. CASE CtFetch
  BY <1>3 DEF CtFetch, SpareOnly
<1>4. CASE CtSet
  <2>1. PICK v : v = IF job.set = None THEN World ELSE SendImage(World, job.stream, job.set, FALSE)
    OBVIOUS
  <2>2. src' = v.s
    BY <1>4, <2>1 DEF CtSet, Become
  <2>3. PICK s \in Streams, img \in Pictures \cup {Disabled} : s = job.stream /\ img = job.set
    BY <1>1 DEF JobSet
  <2>4. CASE img = None
    BY <1>1, <2>1, <2>2, <2>3, <2>4 DEF SpareOnly
  <2>5. CASE img = Disabled /\ img # None
    <3>1. v = SubmitState(World, s, 0, FALSE, FALSE)
      BY <2>1, <2>3, <2>5 DEF SendImage
    <3>2. Stating(World, v)
      BY <1>1, <3>1, HideIs
    <3>q. QED BY <2>2, <3>2, StatedSpare
  <2>6. CASE img \in Image /\ img # None
    <3>1. v = SendImage(World, s, img, FALSE)
      BY <2>1, <2>3, <2>6
    <3>2. FALSE \in BOOLEAN
      OBVIOUS
    <3>3. SentImage(World, v, s, FALSE)
      BY <1>1, <2>6, <3>1, <3>2, SendImageGood, Zenon
    <3>q. QED BY <2>2, <3>3, SentSpare
  <2>q. QED BY <2>4, <2>5, <2>6 DEF Pictures
<1>5. CASE CtMove
  <2>1. PICK v : v = IF job.move = NoSlot THEN World ELSE SubmitState(World, job.stream, job.move, TRUE, FALSE)
    OBVIOUS
  <2>2. src' = v.s
    BY <1>5, <2>1 DEF CtMove, Become
  <2>3. PICK s \in Streams, at \in Places \cup {NoSlot} : s = job.stream /\ at = job.move
    BY <1>1 DEF JobSet
  <2>4. CASE at = NoSlot
    BY <1>1, <2>1, <2>2, <2>3, <2>4 DEF SpareOnly
  <2>5. CASE at \in Places /\ at # NoSlot
    <3>1. v = SubmitState(World, s, at, TRUE, FALSE)
      BY <2>1, <2>3, <2>5
    <3>2. Stating(World, v)
      BY <1>1, <2>5, <3>1, SubmitStateIs
    <3>q. QED BY <2>2, <3>2, StatedSpare
  <2>q. QED BY <2>4, <2>5
<1>6. CASE CtHide
  <2>1. PICK v : v = SubmitState(World, job.stream, 0, FALSE, FALSE)
    OBVIOUS
  <2>2. src' = v.s
    BY <1>6, <2>1 DEF CtHide, Become
  <2>3. Stating(World, v)
    BY <1>1, <2>1, HideIs
  <2>q. QED BY <2>2, <2>3, StatedSpare
<1>q. QED BY <1>2, <1>3, <1>4, <1>5, <1>6 DEF CursorThread

LEMMA WorkerSpare ==
    ASSUME Inv, Worker
    PROVE  SpareOnly
<1>1. queue # << >> /\ (src' = src \/ (Head(queue).kind = "image" /\ \E rc \in {"ok", "failed"} : Result(rc)))
  BY DEF Worker, SendsImage, SendsCommand, TransferFails, Sent
<1>2. CASE src' = src
  BY <1>2 DEF SpareOnly
<1>3. CASE Head(queue).kind = "image" /\ \E rc \in {"ok", "failed"} : Result(rc)
  BY <1>1, <1>3, ResultWritten DEF SpareOnly
<1>q. QED BY <1>1, <1>2, <1>3

(* Where other fields are written, the packet stays. *)
LEMMA PacketStays ==
    ASSUME src \in Sources, NEW st, src' = [src EXCEPT !.st = st],
           \A s \in Streams : st[s].packet = src.st[s].packet
    PROVE  SpareOnly
<1>1. src'.st = st
  BY DEF Sources
<1>q. QED BY <1>1 DEF SpareOnly

LEMMA OthersSpare ==
    ASSUME Inv, Response \/ SessionRebuilt \/ (\E t \in Streams : TimePasses(t))
    PROVE  SpareOnly
<1>1. src \in Sources /\ src.st \in [Streams -> Units]
  BY WorldIs DEF Inv, Good, Rest, Worlds, Sources
<1>2. CASE Response
  <2>1. PICK st : st = [s \in Streams |-> [src.st[s] EXCEPT !.seen = IF src.st[s].inflight THEN Head(answers) ELSE src.st[s].seen]]
    OBVIOUS
  <2>2. src' = [src EXCEPT !.st = st]
    BY <1>2, <2>1 DEF Response
  <2>3. \A s \in Streams : st[s].packet = src.st[s].packet
    BY <1>1, <2>1 DEF Units
  <2>q. QED BY <1>1, <2>2, <2>3, PacketStays
<1>3. CASE SessionRebuilt
  <2>1. PICK keep \in BOOLEAN :
        src' = [src EXCEPT !.st = [s \in Streams |->
                  [src.st[s] EXCEPT !.result = IF Queued(s) THEN "failed" ELSE @,
                                    !.seen = IF keep THEN @ ELSE NoAnswer]]]
    BY <1>3 DEF SessionRebuilt
  <2>2. PICK st : st = [s \in Streams |->
                  [src.st[s] EXCEPT !.result = IF Queued(s) THEN "failed" ELSE @,
                                    !.seen = IF keep THEN @ ELSE NoAnswer]]
    OBVIOUS
  <2>3. \A s \in Streams : st[s].packet = src.st[s].packet
    BY <1>1, <2>2 DEF Units
  <2>4. src' = [src EXCEPT !.st = st]
    BY <2>1, <2>2
  <2>q. QED BY <1>1, <2>3, <2>4, PacketStays
<1>4. CASE \E t \in Streams : TimePasses(t)
  <2>1. PICK t \in Streams : TimePasses(t)
    BY <1>4
  <2>2. PICK z : z = [src.st[t] EXCEPT !.late = TRUE]
    OBVIOUS
  <2>3. z.packet = src.st[t].packet
    BY <1>1, <2>2 DEF Units
  <2>4. PICK st : st = [src.st EXCEPT ![t] = z]
    OBVIOUS
  <2>5. src' = [src EXCEPT !.st = st]
    BY <1>1, <2>1, <2>2, <2>4 DEF TimePasses, Sources
  <2>6. \A s \in Streams : st[s].packet = src.st[s].packet
    BY <1>1, <2>3, <2>4
  <2>q. QED BY <1>1, <2>5, <2>6, PacketStays
<1>q. QED BY <1>2, <1>3, <1>4

LEMMA ReplaySpare ==
    ASSUME Inv, Collect \/ Replay \/ ForceState
    PROVE  SpareOnly
<1>1. Good(World) /\ World.s = src /\ main.k \in Streams
  BY WorldIs DEF Inv, Types
<1>2. CASE Collect
  <2>1. PICK w, v : w = World /\ v = World'
    OBVIOUS
  <2>2. Forgotten(w, v)
    BY <1>2, <2>1, ForgottenBy
  <2>3. w.s = src /\ v.s = src'
    BY <2>1 DEF World
  <2>q. QED BY <2>2, <2>3 DEF Forgotten, SpareOnly
<1>3. CASE Replay
  <2>1. PICK s \in Streams : s = main.k
    BY <1>1
  <2>2. PICK img \in Pictures : img = todo[s].img
    BY DEF Inv, Types, Todos
  <2>3. PICK w : w = IF img = None THEN Fine(World) ELSE SendImage(World, s, img, TRUE)
    OBVIOUS
  <2>4. PICK v : v = IF w.rc = 0 THEN w ELSE [w EXCEPT !.lapsed = w.lapsed \cup {r \in Later(s) : todo[r].img # None}]
    OBVIOUS
  <2>5. Become(v)
    BY <1>3, <2>1, <2>2, <2>3, <2>4 DEF Replay
  <2>6. w \in Worlds => v.s = w.s
    BY <2>4 DEF Worlds
  <2>7. src' = v.s
    BY <2>5 DEF Become
  <2>8. CASE img = None
    <3>1. w = [World EXCEPT !.rc = 0]
      BY <2>3, <2>8 DEF Fine
    <3>2. w \in Worlds /\ w.s = src
      BY <1>1, <3>1, RcAside DEF Good, Rest
    <3>q. QED BY <2>6, <2>7, <3>2 DEF SpareOnly
  <2>9. CASE img \in Image /\ img # None
    <3>1. w = SendImage(World, s, img, TRUE)
      BY <2>3, <2>9
    <3>2. TRUE \in BOOLEAN
      OBVIOUS
    <3>3. SentImage(World, w, s, TRUE)
      BY <1>1, <2>9, <3>1, <3>2, SendImageGood, Zenon
    <3>4. w \in Worlds
      BY <3>3 DEF SentImage, Rest
    <3>q. QED BY <2>6, <2>7, <3>3, <3>4, SentSpare
  <2>q. QED BY <2>8, <2>9 DEF Pictures
<1>4. CASE ForceState
  <2>1. PICK s \in Streams : s = main.k
    BY <1>1
  <2>2. PICK w : w = IF ~todo[s].shown \/ src.st[s].inflight THEN World
                     ELSE SubmitState(World, s, todo[s].at, TRUE, TRUE)
    OBVIOUS
  <2>3. src' = w.s
    BY <1>4, <2>1, <2>2 DEF ForceState, Become
  <2>4. CASE w = World
    BY <1>1, <2>3, <2>4 DEF SpareOnly
  <2>5. CASE w = SubmitState(World, s, todo[s].at, TRUE, TRUE)
    <3>1. todo[s].at \in Places
      BY DEF Inv, Types, Todos
    <3>2. Stating(World, w)
      BY <1>1, <2>5, <3>1, SubmitStateIs
    <3>q. QED BY <2>3, <3>2, StatedSpare
  <2>q. QED BY <2>2, <2>4, <2>5
<1>q. QED BY <1>2, <1>3, <1>4

LEMMA NextSpare ==
    ASSUME Inv, [Next]_vars
    PROVE  SpareOnly
<1>1. CASE CursorThread \/ Worker \/ Response \/ SessionRebuilt \/ Collect \/ Replay \/ ForceState
           \/ \E t \in Streams : TimePasses(t)
  BY <1>1, CursorThreadSpare, WorkerSpare, OthersSpare, ReplaySpare
<1>2. CASE \E s \in Streams : \/ \E img \in Image \cup {Disabled} : CursorSet(s, img)
                              \/ \E at \in Places : CursorMove(s, at)
  BY <1>2 DEF CursorSet, CursorMove, SpareOnly
<1>3. CASE ResponseLost \/ SessionFails \/ StopBegins \/ Attach \/ Wake \/ Ending
  BY <1>3 DEF ResponseLost, SessionFails, StopBegins, Attach, Wake, Ending, CtJoined, StreamsFreed, SessionCloses, SpareOnly
<1>4. CASE Ended \/ UNCHANGED vars
  BY <1>4 DEF Ended, vars, SpareOnly
<1>q. QED BY <1>1, <1>2, <1>3, <1>4 DEF Next, Recovery

(* The transport may read the packet of an upload without a copy
   (evdi_source.c:91-95, 1290-1297): while it waits, nothing rewrites it and the
   streams are not freed, except what a replay has overtaken. *)
THEOREM PacketsAreLeftAlone == Spec => PacketsLeftAlone
<1>1. Inv /\ [Next]_vars
        => [\A s \in Streams : Queued(s) /\ src'.st[s].packet # src.st[s].packet => s \in overtaken]_vars
  <2>1. ASSUME Inv, [Next]_vars, NEW s \in Streams, Queued(s), src'.st[s].packet # src.st[s].packet
        PROVE  s \in overtaken
    <3>1. Free(World, s)
      BY <2>1, NextSpare DEF SpareOnly
    <3>q. QED BY <2>1, <3>1, WorldIs DEF Free, IsImage, Queued
  <2>q. QED BY <2>1
<1>2. Inv => NothingFreedInUse
  BY WorldIs DEF Inv, Leaving, NothingFreedInUse, Free, IsImage, Queued
<1>q. QED BY <1>1, <1>2, AlwaysInv, PTL DEF Spec, PacketsLeftAlone, OnlyReplayReusesPacket
=============================================================================
