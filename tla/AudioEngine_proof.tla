-------------------------- MODULE AudioEngine_proof --------------------------
(***************************************************************************)
(* What the listener is promised over the three threads, for any tracks,   *)
(* any block and ring, any speeds and any number of events.                *)
(***************************************************************************)
EXTENDS AudioEngine, SequenceTheorems, TLAPS

Flags  == {"playing", "loop_active", "token"}
SeekPlaces == {"seek", "position", "in_flight"}
Places == SeekPlaces \cup {"loop_start", "loop_end"}
Stores == [where : Flags, what : BOOLEAN] \cup [where : Places, what : Nat]
            \cup [where : {"samples"}, what : Tracks]
Labels == {"top", "pausedSeek", "pausedPublish", "park", "load", "seek", "publishSeek", "waitFlush",
           "room", "readStart", "readEnd", "readBlock", "checkSeek", "publish", "push"}
Reading == {"readStart", "readEnd", "readBlock"}
Holding == {"checkSeek", "publish", "push"}

\* The types of the shared state, of the threads' own and of the history.
SharedType ==
  /\ playing \in BOOLEAN /\ loop_active \in BOOLEAN /\ drain_flag \in BOOLEAN
  /\ samples \in Tracks /\ position \in Nat /\ in_flight \in Nat
  /\ loop_start \in Nat /\ loop_end \in Nat
  /\ seek_request \in Nat \cup {None}
  /\ ring \in Seq(Frames) /\ Len(ring) <= RingLen
  /\ \A i \in 1 .. Len(ring) : ring[i].pos < Length[ring[i].track]
UiType ==
  /\ ui \in Seq(Stores) /\ events \in Nat /\ seeks \in Seq(Nat)
  /\ seek_request # None => epoch < Len(seeks) /\ seek_request = seeks[Len(seeks)]
ProcType ==
  /\ pc \in Labels /\ token \in BOOLEAN /\ current \in Tracks
  /\ proc_pos \in Nat /\ ls \in Nat /\ le \in Nat /\ epoch \in Nat /\ epoch <= Len(seeks)
  /\ src_block \in Seq(Nat)
CbType == sounding \in BOOLEAN /\ out \in Frames \cup {None}

\* A block is begun with room for all that can come of it, before the track's end,
\* and what was read is of the track.
BlockFits ==
  /\ pc \in Reading \cup Holding => RingLen - Len(ring) >= BackPressure
  /\ pc \in Reading => proc_pos < Length[current]
  /\ pc \in Holding =>
       /\ Len(src_block) <= Block
       /\ \A i \in 1 .. Len(src_block) : src_block[i] < Length[current]

TypeInv == SharedType /\ UiType /\ ProcType /\ CbType /\ BlockFits

-----------------------------------------------------------------------------

\* The deck is not started again: whoever plays has played from the start.
Calm == {s \in Stores : s.where = "playing" => s.what = FALSE}
StaysPaused == ui \in Seq(Calm)

\* A flush is owed only while the processor waits for it or the deck is paused, and
\* what is in the ring then is from before the seek.
FreshInv ==
  /\ StaysPaused
  /\ \A i \in 1 .. Len(ring) : ring[i].epoch <= epoch
  /\ drain_flag \/ pc \in {"publishSeek", "pausedPublish"} =>
       \A i \in 1 .. Len(ring) : ring[i].epoch < epoch
  /\ drain_flag => \/ pc = "waitFlush"
                   \/ ~playing /\ pc \in {"top", "pausedSeek", "pausedPublish", "park"}
  /\ pc \in {"pausedSeek", "pausedPublish"} => ~playing

-----------------------------------------------------------------------------

\* The stores still to be made are the last of these.
Left(stores) ==
  /\ Len(ui) <= Len(stores)
  /\ \A i \in 1 .. Len(ui) : ui[i] = stores[Len(stores) - Len(ui) + i]

\* A CUE return before its seek: the deck is stopped first.
ReturnBegins ==
  \E p \in Nat :
    /\ Left(<<Store("playing", FALSE)>> \o SeekStores(p)) /\ Len(ui) >= 4
    /\ Len(ui) = 4 => ~playing

\* A load before its last seek: the deck is stopped, then in_flight is cleared; the
\* processor may be in its last round.
LoadBegins ==
  \E t \in Tracks, cue \in {0, 1} :
    LET stores == LoadStores(t, cue) IN
    /\ Left(stores) /\ Len(ui) > (IF cue > 0 THEN 3 ELSE 0)
    /\ Len(ui) < Len(stores) => ~playing
    /\ Len(ui) + 3 <= Len(stores) /\ pc \in {"load", "seek"} => in_flight = 0

\* The last seek's own store is made.
Target == seeks[Len(seeks)]
Sought == Left(<<Store("position", Target), Store("in_flight", 0), Unpark>>)

\* in_flight is cleared, or its store is still to come.
ClearLeft == Len(ui) >= 2
Cleared   == in_flight = 0 \/ ClearLeft

\* After the last seek's store, where the processor is in carrying it out.
Settling ==
  LET n == Len(src_block) IN
  /\ ~playing /\ Len(seeks) > 0
  /\ pc \in {"load", "seek"} => seek_request # None /\ Cleared
  /\ seek_request = None =>
       /\ epoch = Len(seeks)
       /\ pc = "pausedPublish" => proc_pos = Target
       /\ pc = "publishSeek" => proc_pos = Target /\ Cleared
       /\ pc \in {"waitFlush", "room"} \cup Reading =>
            /\ proc_pos = Target /\ position = Target /\ Cleared
            /\ (drain_flag /\ pc = "waitFlush") \/ ring = <<>>
       /\ pc \in {"readEnd", "readBlock"} \cup Holding => ui = <<>>
       /\ pc \in Holding => ring = <<>> /\ proc_pos = Target + n
       /\ pc \in {"checkSeek", "publish"} => in_flight = 0 /\ position = Target
       /\ pc = "push" => position = Target + n
       /\ pc \in {"top", "pausedSeek", "park"} =>
            /\ proc_pos = position
            /\ ui # <<>> => position = Target
            /\ ClearLeft \/ position - in_flight = Target

Loopless == {s \in Stores : s.where # "loop_active"}
SettleInv ==
  /\ loop_active = FALSE /\ ui \in Seq(Loopless)
  /\ last \in {"return", "load"} =>
       \/ last = "return" /\ ReturnBegins
       \/ last = "load" /\ LoadBegins
       \/ Sought /\ Settling

-----------------------------------------------------------------------------

\* The place of epoch e: the seek it belongs to, or the start of the track.
SeekOf(sk, e) == IF e = 0 THEN 0 ELSE sk[e]

\* Position q may be read where p was expected: there, or where a loop begins again.
Reads(pub, p, q) == q = p \/ \E lp \in pub : q = lp[1] /\ p >= lp[2]

\* Frame b may be heard after a, if there is one.
Linked(pub, sk, a, b) ==
  IF a # None /\ b.epoch = a.epoch THEN b = a \/ Reads(pub, a.pos + 1, b.pos)
  ELSE Reads(pub, SeekOf(sk, b.epoch), b.pos)

\* The last frame on its way out, and the position expected behind it.
LastOut  == IF ring = <<>> THEN out ELSE ring[Len(ring)]
UnderWay == LastOut # None /\ LastOut.epoch = epoch
Expected == IF UnderWay THEN LastOut.pos + 1 ELSE SeekOf(seeks, epoch)

\* No frame is of an epoch to come, and none heard before a flush of the present one.
OutInv ==
  /\ out # None => out.epoch <= epoch
  /\ drain_flag \/ pc \in {"publishSeek", "pausedPublish"} => (out # None => out.epoch < epoch)

\* Every loop begins at 0, whichever of its bounds the processor has seen.
Ends == {0} \cup {lp[2] : lp \in published}
LoopStore == {s \in Stores : (s.where = "loop_start" => s.what = 0) /\ (s.where = "loop_end" => s.what \in Ends)}
LoopInv ==
  /\ published \subseteq Loops /\ ui \in Seq(LoopStore)
  /\ loop_start = 0 /\ ls = 0 /\ loop_end \in Ends /\ le \in Ends

\* From the listener back to the cursor, each frame is one that may be heard after the
\* one before it.
HeardInv ==
  /\ ring # <<>> => Linked(published, seeks, out, ring[1])
  /\ \A i, j \in 1 .. Len(ring) : j = i + 1 => Linked(published, seeks, ring[i], ring[j])
  /\ pc \notin Holding => proc_pos = Expected
  /\ pc \in Holding =>
       /\ Len(src_block) > 0 /\ Reads(published, Expected, src_block[1])
       /\ \A i, j \in 1 .. Len(src_block) :
            j = i + 1 => Reads(published, src_block[i] + 1, src_block[j])
       /\ proc_pos = src_block[Len(src_block)] + 1

-----------------------------------------------------------------------------
(* The model's operators. *)

\* What is assumed of the constants, one by one.
LEMMA ConstantsAre ==
  /\ \A t \in Tracks : Length[t] \in Nat
  /\ None \notin Nat /\ None \notin Frames /\ Block \in Nat /\ Block > 0 /\ RingLen \in Nat /\ RingDefault \in Nat
  /\ BackPressure \in Nat /\ BackPressure <= RingLen /\ Word \in Nat /\ Word > 0
  /\ \A times \in Repeats : times \in Nat /\ times > 0 /\ times * Block <= BackPressure
  /\ \A lp \in Loops : lp[1] \in Nat /\ lp[2] \in Nat
  BY AudioAssumption DEF AudioAssumption, Frames

\* A quotient by a positive number is a natural number, at most what was divided.
LEMMA QuotientIs ==
  ASSUME NEW a \in Nat, NEW b \in Nat, b > 0
  PROVE  a \div b \in Nat /\ b * (a \div b) <= a /\ a < b * (a \div b) + b
  OBVIOUS

\* Of t equal parts, each as long as the n below, the a-th element is in part a \div t.
LEMMA PartsAre ==
  ASSUME NEW t \in Nat, NEW n \in Nat, NEW a \in Nat, t > 0, a < t * n
  PROVE  /\ a \div t \in Nat /\ a \div t < n
         /\ (a + 1) \div t = a \div t \/ (a + 1) \div t = a \div t + 1
<1>1. a \div t \in Nat /\ t * (a \div t) <= a /\ a < t * (a \div t) + t
  BY QuotientIs
<1>2. (a + 1) \div t \in Nat /\ t * ((a + 1) \div t) <= a + 1 /\ a + 1 < t * ((a + 1) \div t) + t
  BY QuotientIs
<1> DEFINE p == a \div t
           q == (a + 1) \div t
<1>3. p \in Nat /\ q \in Nat /\ t * p <= a /\ a < t * p + t /\ t * q <= a + 1 /\ a + 1 < t * q + t
  BY <1>1, <1>2
<1> HIDE DEF p, q
<1>4. \A x, y \in Nat : x >= y => t * x >= t * y
  OBVIOUS
<1>5. p < n
  <2>1. p >= n => t * p >= t * n
    BY <1>3, <1>4
  <2>2. t * p \in Nat /\ t * n \in Nat
    BY <1>3
  <2> QED  BY <1>3, <2>1, <2>2
<1>6. q >= p
  <2>1. q + 1 <= p => t * p >= t * (q + 1)
    BY <1>3, <1>4
  <2>2. t * (q + 1) = t * q + t /\ t * q \in Nat /\ t * p \in Nat
    BY <1>3
  <2> QED  BY <1>3, <2>1, <2>2
<1>7. q <= p + 1
  <2>1. q >= p + 2 => t * q >= t * (p + 2)
    BY <1>3, <1>4
  <2>2. t * (p + 2) = t * p + t + t /\ t * q \in Nat /\ t * p \in Nat
    BY <1>3
  <2> QED  BY <1>3, <2>1, <2>2
<1> QED  BY <1>3, <1>5, <1>6, <1>7 DEF p, q

\* Frames in a row.
LEMMA SpanIs ==
  ASSUME NEW from \in Nat, NEW to \in Nat, NEW n \in Nat, to = from + n
  PROVE  /\ Span(from, to) \in Seq(Nat) /\ Len(Span(from, to)) = n
         /\ \A i \in 1 .. n : Span(from, to)[i] = from + i - 1
<1>1. n = to - from /\ \A i \in 1 .. n : from + i - 1 \in Nat
  OBVIOUS
<1>2. Span(from, to) = [i \in 1 .. n |-> from + i - 1]
  BY <1>1 DEF Span
<1>3. Span(from, to) \in [1 .. n -> Nat]
  BY <1>1, <1>2
<1>4. Span(from, to) \in Seq(Nat) /\ Len(Span(from, to)) = n
  BY <1>2, <1>3
<1> QED  BY <1>2, <1>4

\* A chain of frames below n: each follows the one before it, or starts the loop again.
Chain(f, n, wraps, start, end) ==
  /\ f \in Seq(Nat) /\ Len(f) \in 1 .. Block
  /\ \A i \in 1 .. Len(f) : f[i] < n
  /\ \A i, j \in 1 .. Len(f) :
       j = i + 1 => f[j] = f[i] + 1 \/ (wraps /\ f[i] + 1 = end /\ f[j] = start)

\* Frames in a row are a chain.
LEMMA SpanChain ==
  ASSUME NEW from \in Nat, NEW to \in Nat, NEW k \in 1 .. Block, to = from + k,
         NEW n \in Nat, to <= n, NEW wraps \in BOOLEAN, NEW start, NEW end
  PROVE  LET f == Span(from, to) IN
         Chain(f, n, wraps, start, end) /\ Len(f) = k /\ f[1] = from /\ f[k] = to - 1
<1>1. Block \in Nat /\ k \in Nat
  BY ConstantsAre
<1> DEFINE f == Span(from, to)
<1>2. f \in Seq(Nat) /\ Len(f) = k /\ \A i \in 1 .. k : f[i] = from + i - 1
  BY <1>1, SpanIs
<1> HIDE DEF f
<1>3. 1 \in 1 .. k /\ k \in 1 .. k
  BY <1>1
<1>4. f[1] = from + 1 - 1 /\ f[k] = from + k - 1
  BY <1>2, <1>3
<1>5. f[1] = from /\ f[k] = to - 1
  BY <1>1, <1>4
<1>6. ASSUME NEW i \in 1 .. k PROVE f[i] < n
  <2>1. f[i] = from + i - 1
    BY <1>2
  <2> QED  BY <1>1, <2>1
<1>7. ASSUME NEW i \in 1 .. k, NEW j \in 1 .. k, j = i + 1 PROVE f[j] = f[i] + 1
  <2>1. f[i] = from + i - 1 /\ f[j] = from + j - 1
    BY <1>2
  <2> QED  BY <1>1, <1>7, <2>1
<1> QED  BY <1>2, <1>5, <1>6, <1>7 DEF Chain, f

\* A block is a chain from the cursor, or from the loop's start when the cursor has
\* passed its end; and the cursor is then behind its last frame.
LEMMA BlockIs ==
  ASSUME NEW p \in Nat, NEW n \in Nat, p < n, NEW start \in Nat, NEW end \in Nat,
         NEW wraps \in BOOLEAN, wraps => end > start /\ end <= n
  PROVE  LET b == NextBlock(p, Block, n, wraps, start, end)
             f == b.frames
         IN  /\ Chain(f, n, wraps, start, end) /\ b.next \in Nat
             /\ f[1] = p \/ (wraps /\ p >= end /\ f[1] = start)
             /\ b.next = f[Len(f)] + 1
             /\ ~wraps => b.next = p + Len(f)
<1> DEFINE b == NextBlock(p, Block, n, wraps, start, end)
<1>1. Block \in Nat /\ Block > 0
  BY ConstantsAre
<1>2. CASE ~wraps
  <2> DEFINE stop == IF p + Block <= n THEN p + Block ELSE n
             k == stop - p
  <2>1. stop \in Nat /\ k \in 1 .. Block /\ stop = p + k /\ stop <= n /\ k \in Nat
    BY <1>1
  <2>2. b.frames = Span(p, stop) /\ b.next = stop
    BY <1>2 DEF NextBlock
  <2> HIDE DEF stop, k, b
  <2> DEFINE f == Span(p, stop)
  <2>3. Chain(f, n, wraps, start, end) /\ Len(f) = k /\ f[1] = p /\ f[k] = stop - 1
    BY <2>1, SpanChain
  <2>4. b.frames = f
    BY <2>2
  <2> HIDE DEF f
  <2>5. stop = f[Len(f)] + 1
    BY <2>1, <2>3
  <2> QED  BY <1>2, <2>1, <2>2, <2>3, <2>4, <2>5 DEF b
<1>3. CASE wraps
  <2> DEFINE from == IF p >= end THEN start ELSE p
             over == from + Block - end
             head == IF over <= end - start THEN over ELSE end - start
  <2>1. from \in Nat /\ from < end /\ end <= n /\ over \in Int
        /\ (from = p \/ (p >= end /\ from = start))
    BY <1>1, <1>3
  <2>2. CASE over > 0
    <3> DEFINE to == start + head
               k == end - from
               l == k + head
    <3>1. /\ head \in Nat /\ head > 0 /\ head <= over /\ to \in Nat /\ to <= end /\ to <= n
      BY <1>3, <2>1, <2>2
    <3>2. b.frames = Span(from, end) \o Span(start, to) /\ b.next = to
      BY <1>3, <2>2 DEF NextBlock
    <3>3. over = from + Block - end
      OBVIOUS
    <3> HIDE DEF from, over, head, b
    <3>4. /\ k \in Nat /\ k \in 1 .. Block /\ head \in 1 .. Block /\ l \in 1 .. Block /\ l \in Nat
          /\ end = from + k /\ to = start + head /\ l > k /\ l = k + head
      BY <1>1, <2>1, <2>2, <3>1, <3>3
    <3> HIDE DEF to, k, l
    <3> DEFINE u == Span(from, end)
               v == Span(start, to)
               f == u \o v
    <3>5. Chain(u, n, wraps, start, end) /\ Len(u) = k /\ u[1] = from /\ u[k] = end - 1
      <4> DEFINE z == end
      <4>1. from \in Nat /\ k \in 1 .. Block /\ z = from + k /\ z <= n /\ z \in Nat
        BY <2>1, <3>4
      <4> HIDE DEF z
      <4> DEFINE g == Span(from, z)
      <4>2. Chain(g, n, wraps, start, end) /\ Len(g) = k /\ g[1] = from /\ g[k] = z - 1
        <5>1. Chain(g, n, wraps, start, end)
          BY <4>1, SpanChain
        <5>2. Len(g) = k
          BY <4>1, SpanChain
        <5>3. g[1] = from
          BY <4>1, SpanChain
        <5>4. g[k] = z - 1
          BY <4>1, SpanChain
        <5> QED  BY <5>1, <5>2, <5>3, <5>4
      <4> QED  BY <4>2 DEF z
    <3>6. Chain(v, n, wraps, start, end) /\ Len(v) = head /\ v[1] = start /\ v[head] = to - 1
      BY <3>1, <3>4, SpanChain
    <3> HIDE DEF u, v
    <3>7. u \in Seq(Nat) /\ v \in Seq(Nat)
      BY <3>5, <3>6 DEF Chain
    <3>8. /\ f \in Seq(Nat) /\ Len(f) = Len(u) + Len(v)
          /\ \A i \in 1 .. Len(u) + Len(v) : f[i] = IF i <= Len(u) THEN u[i] ELSE v[i - Len(u)]
      BY <3>7, ConcatProperties
    <3>9. b.frames = f
      BY <3>2 DEF u, v
    <3> HIDE DEF f
    <3>10. Len(f) = l /\ \A i \in 1 .. l : f[i] = IF i <= k THEN u[i] ELSE v[i - k]
      BY <3>4, <3>5, <3>6, <3>8
    <3>11. ASSUME NEW i \in 1 .. l
           PROVE  (i <= k => i \in 1 .. k /\ f[i] = u[i])
                  /\ (i > k => i - k \in 1 .. head /\ f[i] = v[i - k])
      BY <3>1, <3>4, <3>10
    <3>12. ASSUME NEW i \in 1 .. l PROVE f[i] < n
      BY SMTT(30), <3>4, <3>5, <3>6, <3>11 DEF Chain
    <3>13. ASSUME NEW i \in 1 .. l, NEW j \in 1 .. l, j = i + 1
           PROVE  f[j] = f[i] + 1 \/ (f[i] + 1 = end /\ f[j] = start)
      <4>1. CASE j <= k
        <5>1. i \in 1 .. k /\ j \in 1 .. k /\ f[i] = u[i] /\ f[j] = u[j]
          BY <3>4, <3>11, <3>13, <4>1
        <5> QED  BY <3>5, <3>13, <5>1 DEF Chain
      <4>2. CASE i = k
        <5>1. f[i] = u[k] /\ f[j] = v[j - k] /\ j - k = 1
          BY <3>4, <3>11, <3>13, <4>2
        <5>2. f[j] = start /\ f[i] = end - 1
          BY <3>5, <3>6, <5>1
        <5> QED  BY <5>2
      <4>3. CASE i > k
        <5> DEFINE x == i - k
                   y == j - k
        <5>1. x \in 1 .. head /\ y \in 1 .. head /\ f[i] = v[x] /\ f[j] = v[y] /\ y = x + 1
          BY <3>1, <3>4, <3>11, <3>13, <4>3
        <5> HIDE DEF x, y
        <5> QED  BY <3>6, <5>1 DEF Chain
      <4>4. j <= k \/ i = k \/ i > k
        BY <3>4, <3>13
      <4> QED  BY <4>1, <4>2, <4>3, <4>4
    <3>14. f[1] = from /\ f[l] = to - 1
      <4>1. 1 \in 1 .. l /\ l \in 1 .. l /\ 1 <= k /\ l > k /\ l - k = head
        BY <3>1, <3>4
      <4>2. f[1] = u[1] /\ f[l] = v[head]
        BY <3>11, <4>1
      <4> QED  BY <3>5, <3>6, <4>2
    <3>15. Chain(f, n, wraps, start, end)
      BY <1>3, <3>4, <3>8, <3>10, <3>12, <3>13 DEF Chain
    <3>16. to = f[Len(f)] + 1
      BY <3>1, <3>10, <3>14
    <3> QED  BY <1>3, <2>1, <3>1, <3>2, <3>9, <3>14, <3>15, <3>16 DEF b
  <2>3. CASE ~(over > 0)
    <3> DEFINE to == from + Block
    <3>1. b.frames = Span(from, to) /\ b.next = to
      BY <1>3, <2>3 DEF NextBlock
    <3>2. to \in Nat /\ to = from + Block /\ to <= n /\ Block \in 1 .. Block
      BY <1>1, <2>1, <2>3
    <3> HIDE DEF from, over, head, to, b
    <3> DEFINE f == Span(from, to)
    <3>3. Chain(f, n, wraps, start, end) /\ Len(f) = Block /\ f[1] = from /\ f[Block] = to - 1
      BY <2>1, <3>2, SpanChain
    <3>4. b.frames = f
      BY <3>1
    <3> HIDE DEF f
    <3>5. to = f[Len(f)] + 1
      BY <3>2, <3>3
    <3> QED  BY <1>3, <2>1, <3>1, <3>2, <3>3, <3>4, <3>5 DEF b
  <2> QED  BY <2>2, <2>3
<1> QED  BY <1>2, <1>3

\* What the stretcher makes of a block: each frame as often as the speed says, so that
\* the next frame is the same one or the next of the block.
LEMMA StretchedIs ==
  ASSUME NEW f \in Seq(Nat), NEW times \in Nat, times > 0,
         epoch \in Nat, current \in Tracks
  PROVE  LET m == Stretched(f, times) IN
         /\ m \in Seq(Frames) /\ Len(m) = times * Len(f)
         /\ \A i \in 1 .. Len(m) : /\ m[i].epoch = epoch /\ m[i].track = current
                                   /\ \E k \in 1 .. Len(f) : m[i].pos = f[k]
         /\ \A i, j \in 1 .. Len(m) : j = i + 1 =>
              m[j] = m[i] \/ \E k, l \in 1 .. Len(f) : l = k + 1 /\ m[i].pos = f[k] /\ m[j].pos = f[l]
         /\ Len(f) > 0 => Len(m) > 0 /\ m[1].pos = f[1] /\ m[Len(m)].pos = f[Len(f)]
<1> DEFINE m == Stretched(f, times)
           n == Len(f)
           l == times * n
           At(i) == 1 + (i - 1) \div times
           F(k) == [pos |-> f[k], epoch |-> epoch, track |-> current]
<1>1. n \in Nat
  BY LenProperties
<1>2. l \in Nat
  BY <1>1
<1>3. m = [i \in 1 .. l |-> F(At(i))]
  BY DEF Stretched
<1>4. \A k \in 1 .. n : f[k] \in Nat
  BY ElementOfSeq
<1> HIDE DEF n, l, m
<1>5. ASSUME NEW i \in 1 .. l
      PROVE  /\ At(i) \in 1 .. n
             /\ i + 1 <= l => At(i + 1) = At(i) \/ At(i + 1) = At(i) + 1
  <2> DEFINE a == i - 1
  <2>1. a \in Nat /\ a < times * n
    BY <1>2 DEF l
  <2>2. /\ a \div times \in Nat /\ a \div times < n
        /\ (a + 1) \div times = a \div times \/ (a + 1) \div times = a \div times + 1
    BY <1>1, <2>1, PartsAre
  <2>3. (i + 1) - 1 = a + 1
    BY <1>2
  <2> QED  BY <1>1, <2>2, <2>3
<1>6. ASSUME NEW k \in 1 .. n PROVE F(k) \in Frames
  BY <1>4 DEF Frames
<1>7. \A i \in 1 .. l : m[i] = F(At(i))
  BY <1>3
<1> HIDE DEF At
<1>8. m \in Seq(Frames) /\ Len(m) = l
  <2>1. \A i \in 1 .. l : F(At(i)) \in Frames
    BY <1>5, <1>6
  <2>2. m \in [1 .. l -> Frames]
    BY <1>3, <2>1
  <2> QED  BY <1>2, <1>3, <2>2
<1>9. \A i \in 1 .. l : /\ m[i].epoch = epoch /\ m[i].track = current
                        /\ At(i) \in 1 .. n /\ m[i].pos = f[At(i)]
  <2>1. \A k : F(k).epoch = epoch /\ F(k).track = current /\ F(k).pos = f[k]
    OBVIOUS
  <2> HIDE DEF F
  <2> QED  BY <1>5, <1>7, <2>1
<1>10. ASSUME NEW i \in 1 .. l, NEW j \in 1 .. l, j = i + 1
       PROVE  \/ m[j] = m[i]
              \/ \E k, q \in 1 .. n : q = k + 1 /\ m[i].pos = f[k] /\ m[j].pos = f[q]
  <2>1. At(j) = At(i) \/ At(j) = At(i) + 1
    BY <1>2, <1>5, <1>10
  <2>2. CASE At(j) = At(i)
    BY <1>7, <2>2
  <2>3. CASE At(j) = At(i) + 1
    BY <1>9, <2>3
  <2> QED  BY <2>1, <2>2, <2>3
<1>11. ASSUME n > 0 PROVE l > 0 /\ m[1].pos = f[1] /\ m[l].pos = f[n]
  <2>1. l > 0
    <3>1. \A x, y \in Nat : x > 0 /\ y > 0 => x * y > 0
      OBVIOUS
    <3> QED  BY <1>1, <1>11, <3>1 DEF l
  <2>2. At(1) = 1
    <3>1. 0 \div times = 0
      <4>1. 0 \div times \in Nat /\ times * (0 \div times) <= 0
        BY QuotientIs
      <4>2. \A x \in Nat : times * x <= 0 => x = 0
        OBVIOUS
      <4> QED  BY <4>1, <4>2
    <3> QED  BY <3>1 DEF At
  <2>3. At(l) = n
    <3> DEFINE q == (l - 1) \div times
    <3>1. l - 1 \in Nat
      BY <1>2, <2>1
    <3>2. q \in Nat /\ times * q <= l - 1 /\ l - 1 < times * q + times
      BY <3>1, QuotientIs
    <3>3. At(l) = 1 + q
      BY DEF At
    <3> HIDE DEF q
    <3>4. times * (q + 1) = times * q + times /\ times * q \in Nat
      BY <3>2
    <3>5. times * n <= times * (q + 1)
      BY <1>2, <3>2, <3>4 DEF l
    <3>6. n <= q + 1
      <4>1. \A x, y \in Nat : x >= y + 1 => times * x >= times * y + times
        OBVIOUS
      <4>2. n >= q + 1 + 1 => times * n >= times * (q + 1) + times
        BY <1>1, <3>2, <4>1
      <4>3. times * n \in Nat /\ times * (q + 1) \in Nat
        BY <1>1, <3>2
      <4> QED  BY <1>1, <3>2, <3>5, <4>2, <4>3
    <3>7. At(l) \in 1 .. n
      BY <1>2, <1>5, <2>1
    <3> QED  BY <1>1, <3>2, <3>3, <3>6, <3>7
  <2> QED  BY <1>2, <1>9, <2>1, <2>2, <2>3
<1>12. \A i \in 1 .. l : \E k \in 1 .. n : m[i].pos = f[k]
  BY <1>9
<1>13. n > 0 => l > 0 /\ m[1].pos = f[1] /\ m[l].pos = f[n]
  BY <1>11
<1>14. \A i, j \in 1 .. l : j = i + 1 =>
         m[j] = m[i] \/ \E k, q \in 1 .. n : q = k + 1 /\ m[i].pos = f[k] /\ m[j].pos = f[q]
  BY <1>10
<1> HIDE DEF m, n, l, F
<1>15. /\ m \in Seq(Frames) /\ Len(m) = l
       /\ \A i \in 1 .. Len(m) : /\ m[i].epoch = epoch /\ m[i].track = current
                                 /\ \E k \in 1 .. n : m[i].pos = f[k]
       /\ \A i, j \in 1 .. Len(m) : j = i + 1 =>
            m[j] = m[i] \/ \E k, q \in 1 .. n : q = k + 1 /\ m[i].pos = f[k] /\ m[j].pos = f[q]
       /\ n > 0 => Len(m) > 0 /\ m[1].pos = f[1] /\ m[Len(m)].pos = f[n]
  BY <1>8, <1>9, <1>12, <1>13, <1>14
<1> QED  BY <1>15, Zenon DEF m, n, l

\* Short lists of stores, all of one kind.
LEMMA FewIn ==
  ASSUME NEW S
  PROVE  /\ <<>> \in Seq(S)
         /\ \A a \in S : <<a>> \in Seq(S)
         /\ \A a, b \in S : <<a, b>> \in Seq(S)
         /\ \A a, b, c \in S : <<a, b, c>> \in Seq(S)
         /\ \A a, b, c, d \in S : <<a, b, c, d>> \in Seq(S)
         /\ \A a, b, c, d, e \in S : <<a, b, c, d, e>> \in Seq(S)
  OBVIOUS

\* The stores of the UI's events are of a kind, when each of them is.
LEMMA EventsIn ==
  ASSUME NEW S, TypeInv,
         \A where \in SeekPlaces, p \in Nat : Store(where, p) \in S,
         \A t \in Tracks : Store("samples", t) \in S,
         Store("playing", FALSE) \in S, Unpark \in S, loop_active => Store("loop_active", FALSE) \in S
  PROVE  /\ SetPlaying(FALSE) \in Seq(S)
         /\ Store("playing", TRUE) \in S => SetPlaying(TRUE) \in Seq(S)
         /\ \A p \in Nat : SeekStores(p) \in Seq(S) /\ SeekTo(p) \in Seq(S)
         /\ \A p \in Nat : SetPlaying(FALSE) \o SeekTo(p) \in Seq(S)
         /\ \A p \in Nat : Store("playing", TRUE) \in S => SeekTo(p) \o SetPlaying(TRUE) \in Seq(S)
         /\ \A t \in Tracks, cue \in Nat : LoadStores(t, cue) \in Seq(S)
         /\ <<Store("playing", FALSE)>> \in Seq(S)
         /\ loop_active => <<Store("loop_active", FALSE)>> \in Seq(S)
         /\ \A lp \in Loops :
              /\ Store("loop_start", lp[1]) \in S /\ Store("loop_end", lp[2]) \in S
              /\ Store("loop_active", TRUE) \in S
              => LoopStores(lp) \in Seq(S)
<1>1. /\ SetPlaying(FALSE) \in Seq(S) /\ <<Store("playing", FALSE)>> \in Seq(S)
      /\ loop_active => <<Store("loop_active", FALSE)>> \in Seq(S)
  BY FewIn DEF SetPlaying
<1>2. Store("playing", TRUE) \in S => SetPlaying(TRUE) \in Seq(S)
  BY FewIn DEF SetPlaying
<1>3. ASSUME NEW p \in Nat PROVE SeekStores(p) \in Seq(S)
  <2>1. Store("seek", p) \in S /\ Store("position", p) \in S /\ Store("in_flight", 0) \in S
    BY DEF SeekPlaces
  <2> QED  BY <2>1, FewIn DEF SeekStores
<1>4. ASSUME NEW p \in Nat PROVE SeekTo(p) \in Seq(S)
  <2> DEFINE leave == IF loop_active /\ ~(loop_start <= p /\ p < loop_end)
                      THEN <<Store("loop_active", FALSE)>> ELSE <<>>
  <2>1. leave \in Seq(S)
    BY <1>1, FewIn
  <2>2. SeekTo(p) = leave \o SeekStores(p)
    BY DEF SeekTo
  <2> HIDE DEF leave
  <2> QED  BY <1>3, <2>1, <2>2, ConcatProperties
<1>5. ASSUME NEW t \in Tracks, NEW cue \in Nat PROVE LoadStores(t, cue) \in Seq(S)
  <2> DEFINE first == <<Store("playing", FALSE), Store("samples", t), Store("in_flight", 0),
                        Store("position", 0), Store("seek", 0)>>
             then == IF cue > 0 THEN SeekStores(cue) ELSE <<>>
  <2>1. first \in Seq(S)
    <3>1. Store("in_flight", 0) \in S /\ Store("position", 0) \in S /\ Store("seek", 0) \in S
      BY DEF SeekPlaces
    <3> QED  BY <3>1, FewIn
  <2>2. then \in Seq(S)
    BY <1>3, FewIn
  <2>3. LoadStores(t, cue) = first \o then
    BY DEF LoadStores
  <2> HIDE DEF first, then
  <2> QED  BY <2>1, <2>2, <2>3, ConcatProperties
<1>6. ASSUME NEW lp \in Loops, Store("loop_start", lp[1]) \in S, Store("loop_end", lp[2]) \in S,
             Store("loop_active", TRUE) \in S
      PROVE  LoopStores(lp) \in Seq(S)
  BY <1>6, FewIn DEF LoopStores
<1>7. ASSUME NEW p \in Nat PROVE SetPlaying(FALSE) \o SeekTo(p) \in Seq(S)
  BY <1>1, <1>4, ConcatProperties
<1>8. ASSUME NEW p \in Nat, Store("playing", TRUE) \in S
      PROVE  SeekTo(p) \o SetPlaying(TRUE) \in Seq(S)
  BY <1>2, <1>4, <1>8, ConcatProperties
<1> QED  BY <1>1, <1>2, <1>3, <1>4, <1>5, <1>6, <1>7, <1>8

\* Every store there is is one of Stores.
LEMMA StoresAre ==
  /\ \A where \in Places, p \in Nat : Store(where, p) \in Stores
  /\ \A t \in Tracks : Store("samples", t) \in Stores
  /\ Store("playing", FALSE) \in Stores /\ Store("playing", TRUE) \in Stores
  /\ Unpark \in Stores
  /\ Store("loop_active", FALSE) \in Stores /\ Store("loop_active", TRUE) \in Stores
  BY DEF Store, Stores, Flags, Unpark

\* What an event or the end of the track leaves for the UI to store is of a kind, when
\* each store it can make is.
LEMMA SentIn ==
  ASSUME NEW S, TypeInv, UiEvent \/ FrameAtEnd,
         \A where \in SeekPlaces, p \in Nat : Store(where, p) \in S,
         \A t \in Tracks : Store("samples", t) \in S,
         Store("playing", FALSE) \in S, Unpark \in S,
         Panel \cap {"play", "preview"} # {} => Store("playing", TRUE) \in S,
         loop_active => Store("loop_active", FALSE) \in S,
         \A lp \in Loops \cap published' :
           /\ Store("loop_start", lp[1]) \in S /\ Store("loop_end", lp[2]) \in S
           /\ Store("loop_active", TRUE) \in S
  PROVE  ui' \in Seq(S)
<1>1. /\ SetPlaying(FALSE) \in Seq(S)
      /\ \A p \in Nat : SeekTo(p) \in Seq(S) /\ SetPlaying(FALSE) \o SeekTo(p) \in Seq(S)
      /\ \A t \in Tracks, cue \in Nat : LoadStores(t, cue) \in Seq(S)
      /\ <<Store("playing", FALSE)>> \in Seq(S)
      /\ loop_active => <<Store("loop_active", FALSE)>> \in Seq(S)
      /\ \A lp \in Loops \cap published' : LoopStores(lp) \in Seq(S)
  BY EventsIn
<1>2. Store("playing", TRUE) \in S =>
        SetPlaying(TRUE) \in Seq(S) /\ \A p \in Nat : SeekTo(p) \o SetPlaying(TRUE) \in Seq(S)
  BY EventsIn
<1>3. CASE FrameAtEnd
  BY <1>1, <1>3 DEF FrameAtEnd
<1>4. CASE UiEvent
  <2>1. \A kind, stores : Send(kind, stores) => ui' = stores /\ kind \in Panel
    BY DEF Send
  <2>2. \A p \in 0 .. Length[samples] : p \in Nat
    OBVIOUS
  <2>3. \A cue \in 0 .. 1 : cue \in Nat
    OBVIOUS
  <2>4. \A stores : Send("play", stores) \/ Send("preview", stores) => Store("playing", TRUE) \in S
    BY <2>1
  <2>5. CASE Send("play", SetPlaying(TRUE)) \/ Send("pause", SetPlaying(FALSE))
    <3>1. ui' = SetPlaying(FALSE) \/ (ui' = SetPlaying(TRUE) /\ Store("playing", TRUE) \in S)
      BY <2>1, <2>4, <2>5
    <3>2. SetPlaying(FALSE) \in Seq(S) /\ (Store("playing", TRUE) \in S => SetPlaying(TRUE) \in Seq(S))
      BY <1>1, <1>2
    <3> QED  BY <3>1, <3>2
  <2>6. ASSUME NEW p \in 0 .. Length[samples],
               \/ Send("seek", SeekTo(p)) \/ Send("return", SetPlaying(FALSE) \o SeekTo(p))
               \/ Send("preview", SeekTo(p) \o SetPlaying(TRUE))
        PROVE  ui' \in Seq(S)
    <3>1. p \in Nat
      BY <2>2
    <3>2. CASE Send("seek", SeekTo(p))
      <4>1. ui' = SeekTo(p)
        BY <2>1, <3>2
      <4> QED  BY <1>1, <3>1, <4>1
    <3>3. CASE Send("return", SetPlaying(FALSE) \o SeekTo(p))
      <4>1. ui' = SetPlaying(FALSE) \o SeekTo(p)
        BY <2>1, <3>3
      <4> QED  BY <1>1, <3>1, <4>1
    <3>4. CASE Send("preview", SeekTo(p) \o SetPlaying(TRUE))
      <4>1. ui' = SeekTo(p) \o SetPlaying(TRUE) /\ Store("playing", TRUE) \in S
        BY <2>1, <2>4, <3>4
      <4> QED  BY <1>2, <3>1, <4>1
    <3> QED  BY <2>6, <3>2, <3>3, <3>4
  <2>7. ASSUME NEW t \in Tracks, NEW cue \in 0 .. 1, Send("load", LoadStores(t, cue))
        PROVE  ui' \in Seq(S)
    BY <1>1, <2>1, <2>3, <2>7
  <2>8. ASSUME NEW lp \in Loops, Send("loop", LoopStores(lp)), published' = published \cup {lp}
        PROVE  ui' \in Seq(S)
    <3>1. lp \in Loops \cap published' /\ ui' = LoopStores(lp)
      BY <2>1, <2>8
    <3> QED  BY <1>1, <3>1
  <2>9. CASE loop_active /\ Send("loop", <<Store("loop_active", FALSE)>>)
    <3>1. ui' = <<Store("loop_active", FALSE)>>
      BY <2>1, <2>9
    <3>2. <<Store("loop_active", FALSE)>> \in Seq(S)
      BY <1>1, <2>9
    <3> QED  BY <3>1, <3>2
  <2> QED  BY <1>4, <2>5, <2>6, <2>7, <2>8, <2>9 DEF UiEvent
<1> QED  BY <1>3, <1>4

\* An event and the end of the track only leave stores to make.
LEMMA SentIs ==
  ASSUME TypeInv, UiEvent \/ FrameAtEnd
  PROVE  /\ ui = <<>> /\ ui' \in Seq(Stores) /\ events' \in Nat
         /\ UNCHANGED <<shared, procvars, cbvars, seeks>>
         /\ published' = published \/ \E lp \in Loops : published' = published \cup {lp}
<1>1. \A lp \in Loops : Store("loop_start", lp[1]) \in Stores /\ Store("loop_end", lp[2]) \in Stores
  BY StoresAre, ConstantsAre DEF Places
<1>2. \A where \in SeekPlaces, p \in Nat : Store(where, p) \in Stores
  BY StoresAre DEF Places
<1>3. ui' \in Seq(Stores)
  BY <1>1, <1>2, StoresAre, SentIn
<1>4. events \in Nat
  BY DEF TypeInv, UiType
<1>5. CASE FrameAtEnd
  BY <1>3, <1>4, <1>5 DEF FrameAtEnd
<1>6. CASE UiEvent
  <2>1. \E kind, stores : Send(kind, stores)
    BY <1>6 DEF UiEvent
  <2>2. published' = published \/ \E lp \in Loops : published' = published \cup {lp}
    BY <1>6 DEF UiEvent
  <2> QED  BY <1>3, <1>4, <2>1, <2>2 DEF Send
<1> QED  BY <1>5, <1>6

\* The UI's next store: it is made, and the rest are left.
LEMMA UiStoreIs ==
  ASSUME TypeInv, UiStore
  PROVE  LET s == ui[1] IN
         /\ ui # <<>> /\ s \in Stores /\ ui' = Tail(ui) /\ ui' \in Seq(Stores)
         /\ Len(ui) \in Nat /\ Len(ui) > 0 /\ Len(ui') = Len(ui) - 1
         /\ \A i \in 1 .. Len(ui') : ui'[i] = ui[i + 1]
         /\ playing' = (IF s.where = "playing" THEN s.what ELSE playing)
         /\ samples' = (IF s.where = "samples" THEN s.what ELSE samples)
         /\ position' = (IF s.where = "position" THEN s.what ELSE position)
         /\ in_flight' = (IF s.where = "in_flight" THEN s.what ELSE in_flight)
         /\ loop_start' = (IF s.where = "loop_start" THEN s.what ELSE loop_start)
         /\ loop_end' = (IF s.where = "loop_end" THEN s.what ELSE loop_end)
         /\ loop_active' = (IF s.where = "loop_active" THEN s.what ELSE loop_active)
         /\ token' = (IF s.where = "token" THEN s.what ELSE token)
         /\ seek_request' = (IF s.where = "seek" THEN s.what ELSE seek_request)
         /\ seeks' = (IF s.where = "seek" THEN Append(seeks, s.what) ELSE seeks)
         /\ UNCHANGED <<drain_flag, ring, events, last, published, cbvars,
                        pc, proc_pos, current, src_block, ls, le, epoch>>
<1>1. ui \in Seq(Stores) /\ ui # <<>>
  BY DEF TypeInv, UiType, UiStore
<1>2. /\ Head(ui) = ui[1] /\ Tail(ui) \in Seq(Stores) /\ Len(Tail(ui)) = Len(ui) - 1
      /\ \A i \in 1 .. Len(Tail(ui)) : Tail(ui)[i] = ui[i + 1]
  BY <1>1, HeadTailProperties
<1>3. Len(ui) \in Nat /\ Len(ui) > 0
  BY <1>1, EmptySeq, LenProperties
<1>4. ui[1] \in Stores
  <2>1. 1 \in 1 .. Len(ui)
    BY <1>3
  <2> QED  BY <1>1, <2>1, ElementOfSeq
<1>5. ui' = Tail(ui)
  BY DEF UiStore
<1> DEFINE s == ui[1]
<1>6. /\ playing' = (IF s.where = "playing" THEN s.what ELSE playing)
      /\ samples' = (IF s.where = "samples" THEN s.what ELSE samples)
      /\ position' = (IF s.where = "position" THEN s.what ELSE position)
      /\ in_flight' = (IF s.where = "in_flight" THEN s.what ELSE in_flight)
      /\ loop_start' = (IF s.where = "loop_start" THEN s.what ELSE loop_start)
      /\ loop_end' = (IF s.where = "loop_end" THEN s.what ELSE loop_end)
      /\ loop_active' = (IF s.where = "loop_active" THEN s.what ELSE loop_active)
      /\ token' = (IF s.where = "token" THEN s.what ELSE token)
      /\ seek_request' = (IF s.where = "seek" THEN s.what ELSE seek_request)
      /\ seeks' = (IF s.where = "seek" THEN Append(seeks, s.what) ELSE seeks)
      /\ UNCHANGED <<drain_flag, ring, events, last, published, cbvars,
                     pc, proc_pos, current, src_block, ls, le, epoch>>
  BY <1>2 DEF UiStore
<1> QED  BY <1>1, <1>2, <1>3, <1>4, <1>5, <1>6

\* What a store may store, by where.
LEMMA StoredIs ==
  ASSUME NEW s \in Stores
  PROVE  /\ s.where \in Flags \cup Places \cup {"samples"}
         /\ s.where \in Flags => s.what \in BOOLEAN
         /\ s.where \in Places => s.what \in Nat
         /\ s.where = "samples" => s.what \in Tracks
  BY DEF Stores, Flags, Places, SeekPlaces

\* One more seek is the last one.
LEMMA OneMoreSeek ==
  ASSUME NEW q \in Seq(Nat), NEW p \in Nat
  PROVE  /\ Append(q, p) \in Seq(Nat) /\ Len(Append(q, p)) = Len(q) + 1 /\ Len(q) \in Nat
         /\ Append(q, p)[Len(Append(q, p))] = p
         /\ \A i \in 1 .. Len(q) : Append(q, p)[i] = q[i]
<1>1. /\ Append(q, p) \in Seq(Nat) /\ Len(Append(q, p)) = Len(q) + 1
      /\ Append(q, p)[Len(q) + 1] = p
      /\ \A i \in 1 .. Len(q) : Append(q, p)[i] = q[i]
  BY AppendProperties
<1>2. Len(q) \in Nat
  BY LenProperties
<1> QED  BY <1>1, <1>2

\* The UI keeps the types.
LEMMA UiTypes == TypeInv /\ UI => TypeInv'
<1> SUFFICES ASSUME TypeInv, UI PROVE TypeInv'
  OBVIOUS
<1>1. CASE UiEvent \/ FrameAtEnd
  <2>1. /\ ui' \in Seq(Stores) /\ events' \in Nat
        /\ UNCHANGED <<shared, procvars, cbvars, seeks>>
    BY <1>1, SentIs
  <2>2. SharedType'
    BY <2>1 DEF TypeInv, SharedType, shared
  <2>3. UiType'
    BY <2>1 DEF TypeInv, UiType, shared, procvars
  <2>4. ProcType' /\ CbType'
    BY <2>1 DEF TypeInv, ProcType, CbType, procvars, cbvars
  <2>5. BlockFits'
    BY <2>1 DEF TypeInv, BlockFits, procvars, shared
  <2> QED  BY <2>2, <2>3, <2>4, <2>5 DEF TypeInv
<1>2. CASE UiStore
  <2> DEFINE s == ui[1]
  <2>1. /\ s \in Stores /\ ui' \in Seq(Stores)
        /\ playing' = (IF s.where = "playing" THEN s.what ELSE playing)
        /\ samples' = (IF s.where = "samples" THEN s.what ELSE samples)
        /\ position' = (IF s.where = "position" THEN s.what ELSE position)
        /\ in_flight' = (IF s.where = "in_flight" THEN s.what ELSE in_flight)
        /\ loop_start' = (IF s.where = "loop_start" THEN s.what ELSE loop_start)
        /\ loop_end' = (IF s.where = "loop_end" THEN s.what ELSE loop_end)
        /\ loop_active' = (IF s.where = "loop_active" THEN s.what ELSE loop_active)
        /\ token' = (IF s.where = "token" THEN s.what ELSE token)
        /\ seek_request' = (IF s.where = "seek" THEN s.what ELSE seek_request)
        /\ seeks' = (IF s.where = "seek" THEN Append(seeks, s.what) ELSE seeks)
        /\ UNCHANGED <<drain_flag, ring, events, last, published, cbvars,
                       pc, proc_pos, current, src_block, ls, le, epoch>>
    BY <1>2, UiStoreIs
  <2>2. /\ s.where \in Flags => s.what \in BOOLEAN
        /\ s.where \in Places => s.what \in Nat
        /\ s.where = "samples" => s.what \in Tracks
    BY <2>1, StoredIs
  <2> HIDE DEF s
  <2>3. SharedType'
    BY <2>1, <2>2 DEF TypeInv, SharedType, Flags, Places, SeekPlaces
  <2>4. s.where = "seek" => s.what \in Nat /\ Len(seeks') = Len(seeks) + 1 /\ seeks' \in Seq(Nat)
                            /\ seeks'[Len(seeks')] = s.what
    <3>1. s.where = "seek" => s.what \in Nat
      BY <2>2 DEF Places, SeekPlaces
    <3>2. seeks \in Seq(Nat)
      BY DEF TypeInv, UiType
    <3> QED  BY <2>1, <3>1, <3>2, OneMoreSeek
  <2>5. epoch \in Nat /\ epoch <= Len(seeks) /\ Len(seeks) \in Nat /\ seeks \in Seq(Nat)
    BY LenProperties DEF TypeInv, ProcType, UiType
  <2>6. UiType'
    <3>1. events' \in Nat /\ ui' \in Seq(Stores)
      BY <2>1 DEF TypeInv, UiType
    <3>2. CASE s.where = "seek"
      BY <2>1, <2>4, <2>5, <3>1, <3>2 DEF UiType
    <3>3. CASE s.where # "seek"
      BY <2>1, <3>1, <3>3 DEF TypeInv, UiType
    <3> QED  BY <3>2, <3>3
  <2>7. ProcType'
    <3>1. token' \in BOOLEAN
      BY <2>1, <2>2 DEF TypeInv, ProcType, Flags
    <3>2. epoch' <= Len(seeks')
      BY <2>1, <2>4, <2>5
    <3> QED  BY <2>1, <3>1, <3>2 DEF TypeInv, ProcType
  <2>8. CbType' /\ BlockFits'
    BY <2>1 DEF TypeInv, CbType, BlockFits, cbvars
  <2> QED  BY <2>3, <2>6, <2>7, <2>8 DEF TypeInv
<1> QED  BY <1>1, <1>2 DEF UI

\* A shorter ring, as the callback leaves it: its elements are of the old ring.
LEMMA CallbackIs ==
  ASSUME TypeInv, Callback
  PROVE  /\ \/ ring' = ring /\ out' = out
            \/ ring' = <<>> /\ out' = out /\ drain_flag
            \/ ring # <<>> /\ ring' = Tail(ring) /\ out' = Head(ring)
            \/ ring # <<>> /\ ring' = <<>> /\ out' = Head(ring) /\ drain_flag
         /\ \/ drain_flag' = drain_flag
            \/ drain_flag /\ ~drain_flag' /\ ring' = <<>>
         /\ drain_flag' \in BOOLEAN /\ sounding' \in BOOLEAN
         /\ UNCHANGED <<playing, samples, position, in_flight, seek_request,
                        loop_start, loop_end, loop_active, uivars, procvars>>
<1>1. drain_flag \in BOOLEAN /\ sounding \in BOOLEAN
  BY DEF TypeInv, SharedType, CbType
<1>2. CASE CallbackPlaying
  BY <1>1, <1>2 DEF Callback, CallbackPlaying, Flushed, Popped
<1>3. CASE CallbackFading
  BY <1>1, <1>3 DEF Callback, CallbackFading, Flushed
<1>4. CASE CallbackSilent
  BY <1>1, <1>4 DEF Callback, CallbackSilent, Flushed
<1> QED  BY <1>2, <1>3, <1>4 DEF Callback

\* The callback keeps the types: it only takes from the ring.
LEMMA CbTypes == TypeInv /\ Callback => TypeInv'
<1> SUFFICES ASSUME TypeInv, Callback PROVE TypeInv'
  OBVIOUS
<1>1. ring \in Seq(Frames) /\ Len(ring) <= RingLen /\ Len(ring) \in Nat /\ RingLen \in Nat
      /\ (\A i \in 1 .. Len(ring) : ring[i].pos < Length[ring[i].track])
      /\ out \in Frames \cup {None}
  BY LenProperties, ConstantsAre DEF TypeInv, SharedType, CbType
<1>2. /\ \/ ring' = ring /\ out' = out
         \/ ring' = <<>> /\ out' = out
         \/ ring # <<>> /\ ring' = Tail(ring) /\ out' = Head(ring)
         \/ ring # <<>> /\ ring' = <<>> /\ out' = Head(ring)
      /\ drain_flag' \in BOOLEAN /\ sounding' \in BOOLEAN
      /\ UNCHANGED <<playing, samples, position, in_flight, seek_request,
                     loop_start, loop_end, loop_active, uivars, procvars>>
  BY CallbackIs
<1>3. ring # <<>> =>
        /\ Head(ring) \in Frames /\ Tail(ring) \in Seq(Frames) /\ Len(Tail(ring)) = Len(ring) - 1
        /\ \A i \in 1 .. Len(Tail(ring)) : Tail(ring)[i] = ring[i + 1]
  BY <1>1, HeadTailProperties
<1>4. <<>> \in Seq(Frames) /\ Len(<<>>) = 0
  BY FewIn
<1>5. out' \in Frames \cup {None}
  BY <1>1, <1>2, <1>3
<1>6. ring' \in Seq(Frames) /\ Len(ring') <= Len(ring) /\ Len(ring') \in Nat
      /\ \A i \in 1 .. Len(ring') : ring'[i].pos < Length[ring'[i].track]
  <2>1. CASE ring' = ring
    BY <1>1, <2>1
  <2>2. CASE ring' = <<>>
    <3>1. Len(ring') = 0 /\ ring' \in Seq(Frames)
      BY <1>4, <2>2
    <3> QED  BY <1>1, <3>1
  <2>3. CASE ring # <<>> /\ ring' = Tail(ring)
    <3>1. /\ ring' \in Seq(Frames) /\ Len(ring') = Len(ring) - 1
          /\ \A i \in 1 .. Len(ring') : ring'[i] = ring[i + 1]
      BY <1>3, <2>3
    <3>2. Len(ring') \in Nat
      BY <3>1, LenProperties
    <3>3. \A i \in 1 .. Len(ring') : i + 1 \in 1 .. Len(ring)
      BY <1>1, <3>1
    <3> QED  BY <1>1, <3>1, <3>2, <3>3
  <2> QED  BY <1>2, <2>1, <2>2, <2>3
<1>7. SharedType'
  BY <1>1, <1>2, <1>6 DEF TypeInv, SharedType
<1>8. UiType' /\ ProcType' /\ CbType'
  BY <1>2, <1>5 DEF TypeInv, UiType, ProcType, CbType, uivars, procvars
<1>9. BlockFits'
  <2>1. BackPressure \in Nat
    BY ConstantsAre
  <2> QED  BY <1>1, <1>2, <1>6, <2>1 DEF TypeInv, BlockFits, procvars
<1> QED  BY <1>7, <1>8, <1>9 DEF TypeInv

\* The processor's steps, but for the two that read and push, are written out: each
\* goes to one place or another and touches little.
Quiet == Top \/ PausedSeek \/ PausedPublish \/ Park \/ Load \/ Seek \/ PublishSeek \/ WaitFlush
           \/ Room \/ ReadStart \/ ReadEnd \/ CheckSeek \/ Publish

\* Reading a block.
LEMMA ReadBlockIs ==
  ASSUME TypeInv, ReadBlock
  PROVE  LET looping == LoopHonoured(loop_active, ls, le, Length[current])
             n == Length[current]
         IN  /\ pc = "readBlock" /\ pc' = "checkSeek" /\ proc_pos < n /\ n \in Nat
             /\ Chain(src_block', n, looping, ls, le) /\ proc_pos' \in Nat
             /\ src_block'[1] = proc_pos \/ (looping /\ proc_pos >= le /\ src_block'[1] = ls)
             /\ proc_pos' = src_block'[Len(src_block')] + 1
             /\ ~looping => proc_pos' = proc_pos + Len(src_block')
             /\ UNCHANGED <<shared, uivars, cbvars, current, ls, le, token, epoch>>
<1> DEFINE n == Length[current]
           looping == LoopHonoured(loop_active, ls, le, n)
           b == NextBlock(proc_pos, Block, n, looping, ls, le)
<1>1. n \in Nat
  BY ConstantsAre DEF TypeInv, ProcType
<1>2. proc_pos \in Nat /\ ls \in Nat /\ le \in Nat /\ loop_active \in BOOLEAN
  BY DEF TypeInv, ProcType, SharedType
<1>3. pc = "readBlock" /\ pc' = "checkSeek" /\ src_block' = b.frames /\ proc_pos' = b.next
      /\ UNCHANGED <<shared, uivars, cbvars, current, ls, le, token, epoch>>
  BY DEF ReadBlock, Goto
<1>4. proc_pos < n
  BY <1>3 DEF TypeInv, BlockFits, Reading
<1>5. looping \in BOOLEAN /\ (looping => le > ls /\ le <= n)
  BY <1>2 DEF LoopHonoured
<1> HIDE DEF n, looping
<1>6. /\ Chain(b.frames, n, looping, ls, le) /\ b.next \in Nat
      /\ b.frames[1] = proc_pos \/ (looping /\ proc_pos >= le /\ b.frames[1] = ls)
      /\ b.next = b.frames[Len(b.frames)] + 1
      /\ ~looping => b.next = proc_pos + Len(b.frames)
  BY <1>1, <1>2, <1>4, <1>5, BlockIs
<1> QED  BY <1>1, <1>3, <1>4, <1>6 DEF n, looping

\* Pushing a block: all of it fits, and in_flight is what the ring then holds.
LEMMA PushIs ==
  ASSUME TypeInv, Push
  PROVE  \E times \in Repeats :
           LET m == Stretched(src_block, times) IN
           /\ times \in Nat /\ times > 0 /\ pc = "push" /\ pc' = "top"
           /\ m \in Seq(Frames) /\ Len(m) = times * Len(src_block)
           /\ Len(ring) + Len(m) <= RingLen /\ Len(ring) \in Nat
           /\ ring' = ring \o m /\ Len(ring') = Len(ring) + Len(m) /\ ring' \in Seq(Frames)
           /\ \A i \in 1 .. Len(ring) : ring'[i] = ring[i]
           /\ \A i \in 1 .. Len(m) : ring'[Len(ring) + i] = m[i]
           /\ in_flight' = ((RingDefault - (RingLen - Len(ring'))) % Word) \div times
           /\ src_block' = <<>>
           /\ UNCHANGED <<playing, samples, position, seek_request, loop_start, loop_end, loop_active,
                          drain_flag, uivars, cbvars, proc_pos, current, ls, le, token, epoch>>
<1>1. PICK times \in Repeats :
         LET made == Stretched(src_block, times)
             free == RingLen - Len(ring)
             fit  == IF Len(made) <= free THEN Len(made) ELSE free
         IN  /\ ring' = ring \o SubSeq(made, 1, fit)
             /\ in_flight' = ((RingDefault - (RingLen - Len(ring'))) % Word) \div times
  BY DEF Push
<1>2. /\ times \in Nat /\ times > 0 /\ times * Block <= BackPressure
      /\ Block \in Nat /\ BackPressure \in Nat /\ RingLen \in Nat
  BY ConstantsAre
<1>3. /\ src_block \in Seq(Nat) /\ epoch \in Nat /\ current \in Tracks /\ ring \in Seq(Frames)
  BY DEF TypeInv, ProcType, SharedType
<1>4. pc = "push" /\ Len(src_block) <= Block /\ RingLen - Len(ring) >= BackPressure
  BY DEF Push, TypeInv, BlockFits, Holding
<1>5. Len(src_block) \in Nat /\ Len(ring) \in Nat
  BY <1>3, LenProperties
<1> DEFINE m == Stretched(src_block, times)
           free == RingLen - Len(ring)
<1>6. m \in Seq(Frames) /\ Len(m) = times * Len(src_block)
  BY <1>2, <1>3, StretchedIs
<1>7. Len(m) \in Nat /\ Len(m) <= free
  <2>1. times * Len(src_block) <= times * Block
    BY <1>2, <1>4, <1>5
  <2>2. times * Len(src_block) \in Nat /\ times * Block \in Nat
    BY <1>2, <1>5
  <2> HIDE DEF m
  <2> QED  BY <1>2, <1>4, <1>5, <1>6, <2>1, <2>2
<1> HIDE DEF m
<1>8. SubSeq(m, 1, Len(m)) = m
  BY <1>6, SubSeqFull
<1>9. ring' = ring \o m /\ in_flight' = ((RingDefault - (RingLen - Len(ring'))) % Word) \div times
  BY <1>1, <1>7, <1>8 DEF m
<1>10. /\ ring \o m \in Seq(Frames) /\ Len(ring \o m) = Len(ring) + Len(m)
       /\ \A i \in 1 .. Len(ring) + Len(m) :
            (ring \o m)[i] = IF i <= Len(ring) THEN ring[i] ELSE m[i - Len(ring)]
  BY <1>3, <1>6, ConcatProperties
<1>11. \A i \in 1 .. Len(ring) : ring'[i] = ring[i]
  BY <1>5, <1>7, <1>9, <1>10
<1>12. ASSUME NEW i \in 1 .. Len(m) PROVE ring'[Len(ring) + i] = m[i]
  <2> DEFINE j == Len(ring) + i
  <2>1. j \in 1 .. Len(ring) + Len(m) /\ ~(j <= Len(ring)) /\ j - Len(ring) = i
    BY <1>5, <1>7
  <2> HIDE DEF j
  <2>2. ring'[j] = m[i]
    BY <1>9, <1>10, <2>1
  <2> QED  BY <2>2 DEF j
<1>13. /\ pc' = "top" /\ src_block' = <<>>
       /\ UNCHANGED <<playing, samples, position, seek_request, loop_start, loop_end, loop_active,
                      drain_flag, uivars, cbvars, proc_pos, current, ls, le, token, epoch>>
  BY DEF Push, Goto
<1>14. Len(ring) + Len(m) <= RingLen
  BY <1>2, <1>5, <1>7
<1>15. ring' \in Seq(Frames) /\ Len(ring') = Len(ring) + Len(m)
  BY <1>9, <1>10
<1> QED  BY <1>2, <1>4, <1>5, <1>6, <1>9, <1>11, <1>12, <1>13, <1>14, <1>15 DEF m

\* The quiet steps keep the types.
LEMMA QuietTypes == TypeInv /\ Quiet => TypeInv'
<1> SUFFICES ASSUME TypeInv, Quiet PROVE TypeInv'
  OBVIOUS
<1>1. ring \in Seq(Frames) /\ Len(ring) \in Nat /\ RingLen \in Nat /\ BackPressure \in Nat
      /\ Len(ring) <= RingLen
  BY LenProperties, ConstantsAre DEF TypeInv, SharedType
<1>2. /\ seek_request \in Nat \cup {None} /\ proc_pos \in Nat /\ position \in Nat /\ in_flight \in Nat
      /\ Length[current] \in Nat /\ samples \in Tracks /\ Len(seeks) \in Nat
      /\ (seek_request # None => epoch < Len(seeks)) /\ loop_start \in Nat /\ loop_end \in Nat
  BY LenProperties, ConstantsAre DEF TypeInv, SharedType, ProcType, UiType
<1>3. None \notin Nat
  BY ConstantsAre
<1>4. CASE Top \/ Park \/ WaitFlush \/ CheckSeek
  BY ZenonT(40), <1>4 DEF Top, Park, WaitFlush, CheckSeek, Goto, TypeInv, SharedType, UiType, ProcType, CbType,
              BlockFits, shared, uivars, cbvars, Labels, Reading, Holding
<1>5. CASE PausedSeek \/ Seek
  <2>1. \/ UNCHANGED <<seek_request, proc_pos, epoch>>
        \/ seek_request # None /\ TakeSeek
    BY <1>5 DEF PausedSeek, Seek
  <2>2. /\ seek_request' \in Nat \cup {None} /\ proc_pos' \in Nat
        /\ seek_request' # None => seek_request' = seek_request /\ epoch' = epoch
        /\ epoch' \in Nat /\ epoch' <= Len(seeks)
    BY <1>2, <2>1 DEF TakeSeek, TypeInv, ProcType
  <2>3. pc' \in {"park", "pausedPublish", "room", "publishSeek"}
        /\ UNCHANGED <<playing, samples, position, in_flight, loop_start, loop_end, loop_active,
                       drain_flag, ring, uivars, cbvars, current, src_block, ls, le, token>>
    BY <1>5 DEF PausedSeek, Seek, Goto
  <2> QED  BY SMTT(30), <1>2, <2>2, <2>3
           DEF TypeInv, SharedType, UiType, ProcType, CbType, BlockFits, uivars, cbvars, Labels,
               Reading, Holding
<1>6. CASE PausedPublish \/ PublishSeek
  <2>1. pc' \in {"park", "waitFlush"} /\ position' = proc_pos /\ drain_flag' = TRUE
        /\ (in_flight' = 0 \/ in_flight' = in_flight)
    BY <1>6 DEF PausedPublish, PublishSeek, Goto
  <2>2. UNCHANGED <<playing, samples, seek_request, loop_start, loop_end, loop_active, ring,
                    uivars, cbvars, proc_pos, current, src_block, ls, le, token, epoch>>
    BY <1>6 DEF PausedPublish, PublishSeek
  <2>3. position' \in Nat /\ in_flight' \in Nat /\ drain_flag' \in BOOLEAN
    BY <1>2, <2>1
  <2> QED  BY <2>1, <2>2, <2>3 DEF TypeInv, SharedType, UiType, ProcType, CbType, BlockFits, uivars, cbvars,
                       Labels, Reading, Holding
<1>7. CASE Load
  BY <1>2, <1>7 DEF Load, Goto, TypeInv, SharedType, UiType, ProcType, CbType,
              BlockFits, shared, uivars, cbvars, Labels, Reading, Holding
<1>8. CASE Room
  <2>1. /\ pc' \in {"top", "readStart"}
        /\ pc' = "readStart" => RingLen - Len(ring) >= BackPressure /\ proc_pos < Length[current]
    BY <1>1, <1>2, <1>8 DEF Room, Goto
  <2>2. in_flight' \in Nat
    BY <1>1, <1>2, <1>8 DEF Room
  <2>3. UNCHANGED <<playing, samples, position, seek_request, loop_start, loop_end, loop_active,
                 drain_flag, ring, uivars, cbvars, proc_pos, current, src_block, ls, le, token, epoch>>
    BY <1>8 DEF Room
  <2> QED  BY <2>1, <2>2, <2>3
           DEF TypeInv, SharedType, UiType, ProcType, CbType, BlockFits, uivars, cbvars, Labels,
               Reading, Holding
<1>9. CASE ReadStart \/ ReadEnd
  BY <1>2, <1>9 DEF ReadStart, ReadEnd, Goto, TypeInv, SharedType, UiType, ProcType, CbType,
              BlockFits, shared, uivars, cbvars, Labels, Reading, Holding
<1>10. CASE Publish
  BY <1>2, <1>10 DEF Publish, Goto, TypeInv, SharedType, UiType, ProcType, CbType,
              BlockFits, uivars, cbvars, Labels, Reading, Holding
<1> QED  BY <1>4, <1>5, <1>6, <1>7, <1>8, <1>9, <1>10 DEF Quiet

\* The processor keeps the types.
LEMMA ProcTypes == TypeInv /\ Processor => TypeInv'
<1> SUFFICES ASSUME TypeInv, Processor PROVE TypeInv'
  OBVIOUS
<1>1. CASE Quiet
  BY <1>1, QuietTypes
<1>2. CASE ReadBlock
  <2>1. /\ pc = "readBlock" /\ pc' = "checkSeek" /\ src_block' \in Seq(Nat)
        /\ Len(src_block') <= Block /\ proc_pos' \in Nat
        /\ \A i \in 1 .. Len(src_block') : src_block'[i] < Length[current]
        /\ UNCHANGED <<shared, uivars, cbvars, current, ls, le, token, epoch>>
    BY <1>2, ReadBlockIs, ConstantsAre DEF Chain
  <2> QED  BY <2>1 DEF TypeInv, SharedType, UiType, ProcType, CbType, BlockFits, shared, uivars,
                       cbvars, Labels, Reading, Holding
<1>3. CASE Push
  <2>1. PICK times \in Repeats :
           LET m == Stretched(src_block, times) IN
           /\ times \in Nat /\ times > 0 /\ pc = "push" /\ pc' = "top"
           /\ m \in Seq(Frames) /\ Len(m) = times * Len(src_block)
           /\ Len(ring) + Len(m) <= RingLen /\ Len(ring) \in Nat
           /\ ring' = ring \o m /\ Len(ring') = Len(ring) + Len(m) /\ ring' \in Seq(Frames)
           /\ \A i \in 1 .. Len(ring) : ring'[i] = ring[i]
           /\ \A i \in 1 .. Len(m) : ring'[Len(ring) + i] = m[i]
           /\ in_flight' = ((RingDefault - (RingLen - Len(ring'))) % Word) \div times
           /\ src_block' = <<>>
           /\ UNCHANGED <<playing, samples, position, seek_request, loop_start, loop_end, loop_active,
                          drain_flag, uivars, cbvars, proc_pos, current, ls, le, token, epoch>>
    BY <1>3, PushIs
  <2> DEFINE m == Stretched(src_block, times)
             w == RingDefault - (RingLen - Len(ring'))
  <2>2. src_block \in Seq(Nat) /\ epoch \in Nat /\ current \in Tracks
    BY DEF TypeInv, ProcType
  <2>3. \A i \in 1 .. Len(m) : /\ m[i].track = current
                               /\ \E k \in 1 .. Len(src_block) : m[i].pos = src_block[k]
    BY <2>1, <2>2, StretchedIs
  <2>4. \A k \in 1 .. Len(src_block) : src_block[k] < Length[current]
    BY <2>1 DEF TypeInv, BlockFits, Holding
  <2>5. in_flight' \in Nat
    <3>1. w \in Int /\ Word \in Nat /\ Word > 0
      BY <2>1, ConstantsAre, LenProperties
    <3>2. w % Word \in Nat
      BY <3>1
    <3> DEFINE v == w % Word
    <3>3. v \in Nat
      BY <3>2
    <3>4. in_flight' = v \div times
      BY <2>1
    <3> HIDE DEF v
    <3> QED  BY <2>1, <3>3, <3>4, QuotientIs
  <2> HIDE DEF m, w
  <2>6. \A i \in 1 .. Len(m) : m[i].pos < Length[m[i].track]
    BY <2>3, <2>4
  <2>7. Len(m) \in Nat /\ Len(ring) \in Nat /\ Len(ring') = Len(ring) + Len(m)
        /\ Len(ring') <= RingLen
    BY <2>1, LenProperties DEF m
  <2>8. \A i \in 1 .. Len(ring') : ring'[i].pos < Length[ring'[i].track]
    <3> SUFFICES ASSUME NEW i \in 1 .. Len(ring') PROVE ring'[i].pos < Length[ring'[i].track]
      OBVIOUS
    <3>1. CASE i <= Len(ring)
      <4>1. i \in 1 .. Len(ring) /\ ring'[i] = ring[i]
        BY <2>1, <2>7, <3>1
      <4> QED  BY <4>1 DEF TypeInv, SharedType
    <3>2. CASE i > Len(ring)
      <4> DEFINE j == i - Len(ring)
      <4>1. j \in 1 .. Len(m) /\ Len(ring) + j = i
        BY <2>7, <3>2
      <4> HIDE DEF j
      <4>2. ring'[i] = m[j]
        BY <2>1, <4>1 DEF m
      <4> QED  BY <2>6, <4>1, <4>2
    <3> QED  BY <2>7, <3>1, <3>2
  <2>9. SharedType'
    BY <2>1, <2>5, <2>7, <2>8 DEF TypeInv, SharedType
  <2>10. UiType' /\ ProcType' /\ CbType' /\ BlockFits'
    <3>1. src_block' \in Seq(Nat)
      BY <2>1, FewIn
    <3> QED  BY <2>1, <3>1 DEF TypeInv, UiType, ProcType, CbType, BlockFits, uivars, cbvars, Labels,
                            Reading, Holding
  <2> QED  BY <2>9, <2>10 DEF TypeInv
<1> QED  BY <1>1, <1>2, <1>3 DEF Processor, Quiet

\* The types hold at the start, and through any step.
LEMMA TypesStart == Init => TypeInv
<1> SUFFICES ASSUME Init PROVE TypeInv
  OBVIOUS
<1>1. <<>> \in Seq(Stores) /\ <<>> \in Seq(Nat) /\ <<>> \in Seq(Frames) /\ Len(<<>>) = 0
  BY FewIn
<1>2. RingLen \in Nat
  BY ConstantsAre
<1>3. SharedType
  <2> DEFINE some == Length[samples] > 0
  <2>1. some \in BOOLEAN
    OBVIOUS
  <2>2. playing \in {FALSE, some} /\ samples \in Tracks
    BY DEF Init
  <2> HIDE DEF some
  <2>3. playing \in BOOLEAN
    BY <2>1, <2>2
  <2>4. seek_request \in Nat \cup {None} /\ loop_active \in BOOLEAN /\ drain_flag \in BOOLEAN
        /\ position \in Nat /\ in_flight \in Nat /\ loop_start \in Nat /\ loop_end \in Nat
    BY DEF Init
  <2>5. ring \in Seq(Frames) /\ Len(ring) = 0
    BY <1>1 DEF Init
  <2>6. Len(ring) <= RingLen /\ \A i \in 1 .. Len(ring) : ring[i].pos < Length[ring[i].track]
    BY <1>2, <2>5
  <2> QED  BY <2>2, <2>3, <2>4, <2>5, <2>6 DEF SharedType
<1>4. UiType /\ CbType
  BY <1>1 DEF Init, UiType, CbType
<1>5. ProcType
  <2>1. current \in Tracks /\ proc_pos \in Nat /\ ls \in Nat /\ le \in Nat /\ token \in BOOLEAN
    BY DEF Init
  <2>2. src_block \in Seq(Nat) /\ epoch \in Nat /\ epoch <= Len(seeks)
    BY <1>1 DEF Init
  <2>3. pc \in Labels
    BY DEF Init, Labels
  <2> QED  BY <2>1, <2>2, <2>3 DEF ProcType
<1>6. BlockFits
  BY DEF Init, BlockFits, Reading, Holding
<1> QED  BY <1>3, <1>4, <1>5, <1>6 DEF TypeInv

\* No step leaves the types.
LEMMA TypesStep == TypeInv /\ [Next]_vars => TypeInv'
<1>1. CASE UNCHANGED vars
  BY <1>1 DEF vars, shared, uivars, procvars, cbvars, TypeInv, SharedType, UiType, ProcType, CbType,
              BlockFits
<1> QED  BY <1>1, UiTypes, ProcTypes, CbTypes DEF Next

\* The types are an invariant.
LEMMA TypesHold == Spec => []TypeInv
<1> QED  BY TypesStart, TypesStep, PTL DEF Spec

\* What the callback leaves in the ring was in it.
LEMMA CallbackKeeps ==
  ASSUME TypeInv, Callback
  PROVE  \A i \in 1 .. Len(ring') : \E j \in 1 .. Len(ring) : ring'[i] = ring[j]
<1>1. ring \in Seq(Frames) /\ Len(ring) \in Nat
  BY LenProperties DEF TypeInv, SharedType
<1>2. ring' = ring \/ ring' = <<>> \/ (ring # <<>> /\ ring' = Tail(ring))
  BY CallbackIs
<1>3. CASE ring' = ring
  BY <1>3
<1>4. CASE ring' = <<>>
  <2>1. Len(ring') = 0
    BY <1>4, FewIn
  <2> QED  BY <2>1
<1>5. CASE ring # <<>> /\ ring' = Tail(ring)
  <2>1. Len(ring') = Len(ring) - 1 /\ \A i \in 1 .. Len(ring') : ring'[i] = ring[i + 1]
    BY <1>1, <1>5, HeadTailProperties
  <2>2. \A i \in 1 .. Len(ring') : i + 1 \in 1 .. Len(ring)
    BY <1>1, <2>1
  <2> QED  BY <2>1, <2>2
<1> QED  BY <1>2, <1>3, <1>4, <1>5

\* What a push leaves in the ring was in it, or is of the cursor's epoch and track.
LEMMA PushAdds ==
  ASSUME TypeInv, Push
  PROVE  \A i \in 1 .. Len(ring') :
           \/ \E j \in 1 .. Len(ring) : ring'[i] = ring[j]
           \/ ring'[i].epoch = epoch
<1>1. PICK times \in Repeats :
        LET m == Stretched(src_block, times) IN
        /\ times \in Nat /\ times > 0
        /\ m \in Seq(Frames) /\ Len(ring) \in Nat
        /\ Len(ring') = Len(ring) + Len(m)
        /\ \A i \in 1 .. Len(ring) : ring'[i] = ring[i]
        /\ \A i \in 1 .. Len(m) : ring'[Len(ring) + i] = m[i]
  BY PushIs
<1> DEFINE m == Stretched(src_block, times)
<1>2. src_block \in Seq(Nat) /\ epoch \in Nat /\ current \in Tracks
  BY DEF TypeInv, ProcType
<1>3. \A i \in 1 .. Len(m) : m[i].epoch = epoch
  BY <1>1, <1>2, StretchedIs
<1>4. Len(m) \in Nat
  BY <1>1, LenProperties
<1> HIDE DEF m
<1> SUFFICES ASSUME NEW i \in 1 .. Len(ring'), i > Len(ring) PROVE ring'[i].epoch = epoch
  BY <1>1, <1>4 DEF m
<1> DEFINE j == i - Len(ring)
<1>5. j \in 1 .. Len(m) /\ Len(ring) + j = i
  BY <1>1, <1>4 DEF m
<1> HIDE DEF j
<1>6. ring'[i] = m[j]
  BY <1>1, <1>5 DEF m
<1> QED  BY <1>3, <1>5, <1>6

\* The processor touches the ring only to push, and its cursor moves to another epoch
\* only where it then asks for a flush.
LEMMA QuietIs ==
  ASSUME Quiet
  PROVE  /\ ring' = ring
         /\ \/ epoch' = epoch /\ pc \notin {"publishSeek", "pausedPublish"}
               /\ drain_flag' = drain_flag
            \/ pc' \in {"publishSeek", "pausedPublish"}
            \/ drain_flag' = TRUE
  BY DEF Quiet, Top, PausedSeek, PausedPublish, Park, Load, Seek, PublishSeek, WaitFlush,
         Room, ReadStart, ReadEnd, CheckSeek, Publish, Goto, shared, uivars, cbvars

\* Audio from before a seek the processor has taken stays in the ring only while a flush
\* of it is owed: once the callback has honoured the flag (audio.rs:500), all that is left
\* to be heard is of the place the processor reads from.
THEOREM StaleIsFlushed == Spec => []StaleAudioIsFlushed
<1>1. Init => StaleAudioIsFlushed
  <2>1. Init => Len(ring) = 0
    BY FewIn DEF Init
  <2> QED  BY <2>1 DEF StaleAudioIsFlushed
<1>2. TypeInv /\ StaleAudioIsFlushed /\ [Next]_vars => StaleAudioIsFlushed'
  <2> SUFFICES ASSUME TypeInv, StaleAudioIsFlushed, [Next]_vars PROVE StaleAudioIsFlushed'
    OBVIOUS
  <2>1. CASE UNCHANGED vars
    BY <2>1 DEF vars, shared, procvars, StaleAudioIsFlushed
  <2>2. CASE UI
    <3>1. UNCHANGED <<drain_flag, pc, ring, epoch>>
      BY <2>2, SentIs, UiStoreIs DEF UI, shared, procvars
    <3> QED  BY <3>1 DEF StaleAudioIsFlushed
  <2>3. CASE Callback
    <3>1. UNCHANGED <<pc, epoch>>
          /\ (drain_flag' = drain_flag \/ ring' = <<>>)
      BY <2>3, CallbackIs DEF procvars
    <3>2. ring' = <<>> => Len(ring') = 0
      BY FewIn
    <3> QED  BY <2>3, <3>1, <3>2, CallbackKeeps DEF StaleAudioIsFlushed
  <2>4. CASE Quiet
    BY <2>4, QuietIs DEF StaleAudioIsFlushed
  <2>5. CASE ReadBlock
    BY <2>5 DEF ReadBlock, Goto, shared, StaleAudioIsFlushed
  <2>6. CASE Push
    <3>1. UNCHANGED <<drain_flag, epoch>> /\ pc \notin {"publishSeek", "pausedPublish"}
      BY <2>6 DEF Push
    <3> QED  BY <2>6, <3>1, PushAdds DEF StaleAudioIsFlushed
  <2> QED  BY <2>1, <2>2, <2>3, <2>4, <2>5, <2>6 DEF Next, Processor, Quiet
<1> QED  BY <1>1, <1>2, TypesHold, PTL DEF Spec

\* While the deck is not started again, FreshInv holds at the start.
LEMMA FreshStart == Init => FreshInv
<1> SUFFICES ASSUME Init PROVE FreshInv
  OBVIOUS
<1>1. <<>> \in Seq(Calm) /\ Len(<<>>) = 0
  BY FewIn
<1>2. StaysPaused /\ Len(ring) = 0
  BY <1>1 DEF Init, StaysPaused
<1>3. drain_flag = FALSE /\ pc = "top"
  BY DEF Init
<1> QED  BY <1>2, <1>3 DEF FreshInv

\* None of the events sent then starts the deck.
LEMMA CalmSent ==
  ASSUME TypeInv, Panel \cap {"play", "preview"} = {}, UiEvent \/ FrameAtEnd
  PROVE  ui' \in Seq(Calm)
<1>1. /\ \A where \in Places, p \in Nat : Store(where, p) \in Calm
      /\ \A t \in Tracks : Store("samples", t) \in Calm
      /\ Store("playing", FALSE) \in Calm /\ Unpark \in Calm
      /\ Store("loop_active", FALSE) \in Calm /\ Store("loop_active", TRUE) \in Calm
  BY StoresAre DEF Calm, Store, Unpark, Places, SeekPlaces
<1>2. \A lp \in Loops : Store("loop_start", lp[1]) \in Calm /\ Store("loop_end", lp[2]) \in Calm
  BY <1>1, ConstantsAre DEF Places
<1> QED  BY <1>1, <1>2, SentIn DEF Places

\* The UI's steps keep FreshInv: it can only stop the deck.
LEMMA FreshUi ==
  ASSUME Panel \cap {"play", "preview"} = {}, TypeInv, FreshInv, UI
  PROVE  FreshInv'
<1>1. UNCHANGED <<ring, epoch, drain_flag, pc>> /\ ui' \in Seq(Calm)
      /\ (playing' = playing \/ playing' = FALSE)
  <2>1. CASE UiEvent \/ FrameAtEnd
    BY <2>1, SentIs, CalmSent DEF shared, procvars
  <2>2. CASE UiStore
    <3>1. ui \in Seq(Calm) /\ ui # <<>>
      BY <2>2 DEF FreshInv, StaysPaused, UiStore
    <3>2. Tail(ui) \in Seq(Calm) /\ Head(ui) = ui[1] /\ Head(ui) \in Calm
      BY <3>1, HeadTailProperties
    <3>3. playing' = (IF ui[1].where = "playing" THEN ui[1].what ELSE playing) /\ ui' = Tail(ui)
          /\ UNCHANGED <<ring, epoch, drain_flag, pc>>
      BY <2>2, UiStoreIs
    <3> QED  BY <3>2, <3>3 DEF Calm
  <2> QED  BY <2>1, <2>2 DEF UI
<1> QED  BY <1>1 DEF FreshInv, StaysPaused

\* The callback's steps keep it: a flush ends what is owed.
LEMMA FreshCb ==
  ASSUME TypeInv, FreshInv, Callback
  PROVE  FreshInv'
<1>1. UNCHANGED <<playing, ui, epoch, pc>> /\ (drain_flag' => drain_flag)
  BY CallbackIs DEF uivars, procvars
<1>2. \A i \in 1 .. Len(ring') : \E j \in 1 .. Len(ring) : ring'[i] = ring[j]
  BY CallbackKeeps
<1> QED  BY <1>1, <1>2 DEF FreshInv, StaysPaused

\* Taking a seek puts what is in the ring behind it.
LEMMA FreshTake ==
  ASSUME TypeInv, FreshInv, PausedSeek \/ Seek
  PROVE  FreshInv'
<1>1. UNCHANGED <<playing, ui, drain_flag, ring>>
  BY DEF PausedSeek, Seek, uivars
<1>2. \A i \in 1 .. Len(ring) : ring[i].epoch \in Nat
  <2>1. \A i \in 1 .. Len(ring) : ring[i] \in Frames
    BY ElementOfSeq DEF TypeInv, SharedType
  <2> QED  BY <2>1 DEF Frames
<1>3. CASE seek_request = None
  <2>1. UNCHANGED epoch /\ pc' \in {"park", "room"} /\ pc \in {"pausedSeek", "seek"}
        /\ (pc = "pausedSeek" => pc' = "park")
    BY <1>3 DEF PausedSeek, Seek, Goto
  <2> QED  BY <1>1, <2>1 DEF FreshInv, StaysPaused
<1>4. CASE seek_request # None
  <2>1. epoch' = Len(seeks) /\ epoch < epoch' /\ epoch \in Nat /\ epoch' \in Nat
    BY <1>4, LenProperties DEF PausedSeek, Seek, TakeSeek, TypeInv, UiType, ProcType
  <2>2. \/ pc = "pausedSeek" /\ pc' = "pausedPublish"
        \/ pc = "seek" /\ pc' = "publishSeek"
    BY <1>4 DEF PausedSeek, Seek, Goto
  <2>3. \A i \in 1 .. Len(ring') : ring'[i].epoch < epoch' /\ ring'[i].epoch <= epoch'
    BY <1>1, <1>2, <2>1 DEF FreshInv
  <2> QED  BY <1>1, <2>2, <2>3 DEF FreshInv, StaysPaused
<1> QED  BY <1>3, <1>4

\* The processor's steps keep it: it pushes only what was flushed for.
LEMMA FreshProc ==
  ASSUME TypeInv, FreshInv, Processor
  PROVE  FreshInv'
<1>1. CASE PausedSeek \/ Seek
  BY <1>1, FreshTake
<1>2. CASE Top \/ Park \/ WaitFlush \/ Load \/ ReadStart \/ ReadEnd \/ CheckSeek \/ ReadBlock
  BY <1>2 DEF Top, Park, WaitFlush, Load, ReadStart, ReadEnd, CheckSeek, ReadBlock, Goto, shared,
              uivars, FreshInv, StaysPaused
<1>3. CASE PausedPublish \/ PublishSeek \/ Room \/ Publish
  BY <1>3 DEF PausedPublish, PublishSeek, Room, Publish, Goto, uivars, FreshInv, StaysPaused
<1>4. CASE Push
  <2>1. UNCHANGED <<playing, ui, drain_flag, epoch>> /\ pc = "push" /\ pc' = "top"
    BY <1>4 DEF Push, uivars, Goto
  <2>2. ~drain_flag
    BY <2>1 DEF FreshInv
  <2>3. epoch \in Nat
    BY DEF TypeInv, ProcType
  <2> QED  BY <1>4, <2>1, <2>2, <2>3, PushAdds DEF FreshInv, StaysPaused
<1> QED  BY <1>1, <1>2, <1>3, <1>4 DEF Processor

\* "WAIT for it to actually flush before pushing the first post-seek block" (audio.rs:728):
\* as long as the deck is not started again, no flush throws away audio of the place the
\* deck has moved to.  (With PLAY it can: see the run DocPausedSeek.)
THEOREM FreshIsKept ==
  ASSUME Panel \cap {"play", "preview"} = {}
  PROVE  Spec => NothingFreshIsFlushed
<1>1. TypeInv /\ FreshInv /\ [Next]_vars => FreshInv'
  <2>1. TypeInv /\ FreshInv /\ UNCHANGED vars => FreshInv'
    BY DEF vars, shared, uivars, procvars, FreshInv, StaysPaused
  <2> QED  BY <2>1, FreshUi, FreshCb, FreshProc DEF Next
<1>2. FreshInv => [drain_flag /\ ~drain_flag' => \A i \in 1 .. Len(ring) : ring[i].epoch < epoch]_vars
  BY DEF FreshInv
<1> QED  BY <1>1, <1>2, FreshStart, TypesHold, PTL DEF Spec, NothingFreshIsFlushed

\* The stores of a CUE return and of a load, one by one.
LEMMA ReturnStoresAre ==
  ASSUME NEW p \in Nat
  PROVE  LET stores == <<Store("playing", FALSE)>> \o SeekStores(p) IN
         /\ Len(stores) = 5
         /\ stores[1] = Store("playing", FALSE) /\ stores[2] = Store("seek", p)
  BY DEF SeekStores

\* So with a load: with a cue past the start, it seeks twice.
LEMMA LoadStoresAre ==
  ASSUME NEW t \in Tracks, NEW cue \in {0, 1}
  PROVE  LET stores == LoadStores(t, cue) IN
         /\ Len(stores) = IF cue > 0 THEN 9 ELSE 5
         /\ stores[1] = Store("playing", FALSE) /\ stores[2] = Store("samples", t)
         /\ stores[3] = Store("in_flight", 0) /\ stores[4] = Store("position", 0)
         /\ stores[5] = Store("seek", 0)
         /\ cue > 0 => stores[6] = Store("seek", cue)
<1> DEFINE first == <<Store("playing", FALSE), Store("samples", t), Store("in_flight", 0),
                      Store("position", 0), Store("seek", 0)>>
<1>1. CASE cue > 0
  <2>1. LoadStores(t, cue) = first \o SeekStores(cue)
    BY <1>1 DEF LoadStores
  <2> QED  BY <1>1, <2>1 DEF SeekStores
<1>2. CASE ~(cue > 0)
  <2>1. LoadStores(t, cue) = first \o <<>>
    BY <1>2 DEF LoadStores
  <2>2. LoadStores(t, cue) = first
    BY <2>1
  <2> QED  BY <1>2, <2>2
<1> QED  BY <1>1, <1>2

\* A store takes the first of what is left.
LEMMA LeftNext ==
  ASSUME NEW stores, Len(stores) \in Nat, TypeInv, UiStore, Left(stores)
  PROVE  /\ ui[1] = stores[Len(stores) - Len(ui) + 1] /\ Len(ui) \in 1 .. Len(stores)
         /\ Len(ui') = Len(ui) - 1 /\ Len(ui') <= Len(stores)
         /\ \A i \in 1 .. Len(ui') : ui'[i] = stores[Len(stores) - Len(ui') + i]
<1>1. /\ Len(ui) \in Nat /\ Len(ui) > 0 /\ Len(ui') = Len(ui) - 1
      /\ \A i \in 1 .. Len(ui') : ui'[i] = ui[i + 1]
  BY UiStoreIs
<1>2. Len(ui) <= Len(stores)
      /\ \A i \in 1 .. Len(ui) : ui[i] = stores[Len(stores) - Len(ui) + i]
  BY DEF Left
<1>3. ASSUME NEW i \in 1 .. Len(ui') PROVE ui'[i] = stores[Len(stores) - Len(ui') + i]
  <2>1. i + 1 \in 1 .. Len(ui) /\ Len(stores) - Len(ui) + (i + 1) = Len(stores) - Len(ui') + i
    BY <1>1, <1>2
  <2> QED  BY <1>1, <1>2, <2>1
<1>4. 1 \in 1 .. Len(ui)
  BY <1>1
<1> QED  BY <1>1, <1>2, <1>3, <1>4

\* The last three stores of a seek, one by one.
LEMMA SoughtNext ==
  ASSUME TypeInv, UiStore, Sought
  PROVE  /\ Sought'
         /\ \/ Len(ui) = 3 /\ Len(ui') = 2 /\ position' = Target /\ in_flight' = in_flight
            \/ Len(ui) = 2 /\ Len(ui') = 1 /\ in_flight' = 0 /\ position' = position
            \/ Len(ui) = 1 /\ Len(ui') = 0 /\ in_flight' = in_flight /\ position' = position
         /\ UNCHANGED <<playing, seek_request, seeks, drain_flag, ring, pc, proc_pos, src_block,
                        epoch, last, loop_active>>
<1> DEFINE stores == <<Store("position", Target), Store("in_flight", 0), Unpark>>
<1>1. Len(stores) = 3 /\ stores[1] = Store("position", Target) /\ stores[2] = Store("in_flight", 0)
      /\ stores[3] = Unpark
  OBVIOUS
<1>2. Left(stores)
  BY DEF Sought
<1> HIDE DEF stores
<1>3. /\ ui[1] = stores[Len(stores) - Len(ui) + 1] /\ Len(ui) \in 1 .. Len(stores)
      /\ Len(ui') = Len(ui) - 1 /\ Len(ui') <= Len(stores)
      /\ \A i \in 1 .. Len(ui') : ui'[i] = stores[Len(stores) - Len(ui') + i]
  <2>1. Len(stores) \in Nat
    BY <1>1
  <2>2. ui[1] = stores[Len(stores) - Len(ui) + 1] /\ Len(ui) \in 1 .. Len(stores)
    BY <1>2, <2>1, LeftNext
  <2>3. Len(ui') = Len(ui) - 1 /\ Len(ui') <= Len(stores)
    BY <1>2, <2>1, LeftNext
  <2>4. \A i \in 1 .. Len(ui') : ui'[i] = stores[Len(stores) - Len(ui') + i]
    BY <1>2, <2>1, LeftNext
  <2> QED  BY <2>2, <2>3, <2>4
<1> DEFINE s == ui[1]
<1>4. /\ playing' = (IF s.where = "playing" THEN s.what ELSE playing)
      /\ position' = (IF s.where = "position" THEN s.what ELSE position)
      /\ in_flight' = (IF s.where = "in_flight" THEN s.what ELSE in_flight)
      /\ loop_active' = (IF s.where = "loop_active" THEN s.what ELSE loop_active)
      /\ seek_request' = (IF s.where = "seek" THEN s.what ELSE seek_request)
      /\ seeks' = (IF s.where = "seek" THEN Append(seeks, s.what) ELSE seeks)
      /\ UNCHANGED <<drain_flag, ring, last, pc, proc_pos, src_block, epoch>>
  BY UiStoreIs
<1>5. \/ Len(ui) = 3 /\ s = Store("position", Target)
      \/ Len(ui) = 2 /\ s = Store("in_flight", 0)
      \/ Len(ui) = 1 /\ s = Unpark
  BY <1>1, <1>3
<1> HIDE DEF s
<1>6. UNCHANGED <<playing, seek_request, seeks, loop_active>>
  BY <1>4, <1>5 DEF Store, Unpark
<1>7. Sought'
  BY <1>1, <1>3, <1>6 DEF Sought, Left, Target, stores
<1> QED  BY <1>3, <1>4, <1>5, <1>6, <1>7 DEF Store, Unpark

\* Without loops to set, no loop becomes active.
LEMMA LooplessUi ==
  ASSUME Loops = {}, TypeInv, loop_active = FALSE, ui \in Seq(Loopless), UI
  PROVE  loop_active' = FALSE /\ ui' \in Seq(Loopless)
<1>1. CASE UiStore
  <2>1. ui # <<>> /\ ui' = Tail(ui)
        /\ loop_active' = (IF ui[1].where = "loop_active" THEN ui[1].what ELSE loop_active)
    BY <1>1, UiStoreIs
  <2>2. Tail(ui) \in Seq(Loopless) /\ Head(ui) = ui[1] /\ Head(ui) \in Loopless
    BY <2>1, HeadTailProperties
  <2> QED  BY <2>1, <2>2 DEF Loopless
<1>2. CASE UiEvent \/ FrameAtEnd
  <2>1. /\ \A where \in Places, p \in Nat : Store(where, p) \in Loopless
        /\ \A t \in Tracks : Store("samples", t) \in Loopless
        /\ Store("playing", FALSE) \in Loopless /\ Store("playing", TRUE) \in Loopless
        /\ Unpark \in Loopless
    BY StoresAre DEF Loopless, Store, Unpark, Places, SeekPlaces
  <2>2. ui' \in Seq(Loopless)
    BY <1>2, <2>1, SentIn DEF Places
  <2>3. loop_active' = FALSE
    BY <1>2, SentIs DEF shared
  <2> QED  BY <2>2, <2>3
<1> QED  BY <1>1, <1>2 DEF UI

\* An event begins a return or a load, or is of another kind; the end of the track is
\* not seen while either is being carried out.
LEMMA SettleSent ==
  ASSUME TypeInv, SettleInv, UiEvent \/ FrameAtEnd, last' \in {"return", "load"}
  PROVE  (last' = "return" /\ ReturnBegins') \/ (last' = "load" /\ LoadBegins')
<1>1. ui = <<>> /\ Len(ui) = 0
  BY SentIs, FewIn
<1>2. loop_active = FALSE
  BY DEF SettleInv
<1>3. CASE FrameAtEnd
  <2>1. last' = last /\ playing
    BY <1>3 DEF FrameAtEnd
  <2> QED  BY <1>1, <2>1 DEF SettleInv, ReturnBegins, LoadBegins, Settling
<1>4. CASE UiEvent
  <2>1. \A kind, stores : Send(kind, stores) => ui' = stores /\ last' = kind
    BY DEF Send
  <2>2. \A p \in 0 .. Length[samples] : p \in Nat
    OBVIOUS
  <2>3. \/ last' = "return" /\ \E p \in Nat : ui' = SetPlaying(FALSE) \o SeekTo(p)
        \/ last' = "load" /\ \E t \in Tracks, cue \in {0, 1} : ui' = LoadStores(t, cue)
    <3>1. \A stores : /\ ~Send("play", stores) /\ ~Send("pause", stores) /\ ~Send("seek", stores)
                      /\ ~Send("preview", stores) /\ ~Send("loop", stores)
      BY <2>1
    <3>2. \A cue \in 0 .. 1 : cue \in {0, 1}
      OBVIOUS
    <3>3. \A stores : /\ Send("return", stores) => last' = "return" /\ ui' = stores
                      /\ Send("load", stores) => last' = "load" /\ ui' = stores
      BY <2>1
    <3>4. \/ \E p \in 0 .. Length[samples] : Send("return", SetPlaying(FALSE) \o SeekTo(p))
          \/ \E t \in Tracks, cue \in 0 .. 1 : Send("load", LoadStores(t, cue))
      BY <1>4, <3>1 DEF UiEvent
    <3>5. CASE \E p \in 0 .. Length[samples] : Send("return", SetPlaying(FALSE) \o SeekTo(p))
      <4>1. PICK p \in 0 .. Length[samples] : Send("return", SetPlaying(FALSE) \o SeekTo(p))
        BY <3>5
      <4>2. p \in Nat /\ last' = "return" /\ ui' = SetPlaying(FALSE) \o SeekTo(p)
        BY <2>2, <3>3, <4>1
      <4> QED  BY <4>2
    <3>6. CASE \E t \in Tracks, cue \in 0 .. 1 : Send("load", LoadStores(t, cue))
      <4>1. PICK t \in Tracks, cue \in 0 .. 1 : Send("load", LoadStores(t, cue))
        BY <3>6
      <4>2. cue \in {0, 1} /\ last' = "load" /\ ui' = LoadStores(t, cue)
        BY <3>2, <3>3, <4>1
      <4> QED  BY <4>2
    <3> QED  BY <3>4, <3>5, <3>6
  <2>4. ASSUME NEW p \in Nat, ui' = SetPlaying(FALSE) \o SeekTo(p) PROVE ReturnBegins'
    <3> DEFINE stores == <<Store("playing", FALSE)>> \o SeekStores(p)
    <3>1. SeekTo(p) = SeekStores(p)
      <4>1. SeekTo(p) = <<>> \o SeekStores(p)
        BY <1>2 DEF SeekTo
      <4>2. SeekStores(p) \in Seq(Stores)
        BY StoresAre, FewIn DEF SeekStores, Places, SeekPlaces
      <4> QED  BY <4>1, <4>2, ConcatEmptySeq
    <3>2. ui' = stores
      BY <2>4, <3>1 DEF SetPlaying
    <3>3. Len(stores) = 5
      BY ReturnStoresAre
    <3> HIDE DEF stores
    <3> QED  BY <3>2, <3>3 DEF ReturnBegins, Left, stores
  <2>5. ASSUME NEW t \in Tracks, NEW cue \in {0, 1}, ui' = LoadStores(t, cue) PROVE LoadBegins'
    <3>1. Len(LoadStores(t, cue)) = IF cue > 0 THEN 9 ELSE 5
      BY LoadStoresAre
    <3> DEFINE stores == LoadStores(t, cue)
               n == Len(stores)
    <3>2. n \in Nat /\ n > 3 /\ ui' = stores /\ Len(ui') = n
      BY <2>5, <3>1
    <3>3. Left(stores)'
      BY <3>2 DEF Left
    <3>4. Len(ui') > (IF cue > 0 THEN 3 ELSE 0) /\ ~(Len(ui') < n) /\ ~(Len(ui') + 3 <= n)
      BY <3>2
    <3> QED  BY <3>3, <3>4 DEF LoadBegins
  <2> QED  BY <2>3, <2>4, <2>5
<1> QED  BY <1>3, <1>4

\* The store of the last seek begins the settling.
LEMMA SeekMade ==
  ASSUME TypeInv, UiStore, NEW p \in Nat, ui[1] = Store("seek", p), ~playing,
         \/ Len(ui') = 0 /\ (pc \in {"load", "seek"} => in_flight = 0)
         \/ /\ Len(ui') = 3 /\ ui'[1] = Store("position", p) /\ ui'[2] = Store("in_flight", 0)
            /\ ui'[3] = Unpark
  PROVE  Sought' /\ Settling'
<1> DEFINE s == ui[1]
<1>1. /\ playing' = (IF s.where = "playing" THEN s.what ELSE playing)
      /\ in_flight' = (IF s.where = "in_flight" THEN s.what ELSE in_flight)
      /\ seek_request' = (IF s.where = "seek" THEN s.what ELSE seek_request)
      /\ seeks' = (IF s.where = "seek" THEN Append(seeks, s.what) ELSE seeks)
      /\ pc' = pc
  BY UiStoreIs
<1>2. s.where = "seek" /\ s.what = p
  BY DEF Store
<1> HIDE DEF s
<1>3. ~playing' /\ in_flight' = in_flight /\ seek_request' = p /\ seeks' = Append(seeks, p)
  BY <1>1, <1>2
<1>4. Len(seeks') \in Nat /\ Len(seeks') > 0 /\ seeks'[Len(seeks')] = p
  BY <1>3, OneMoreSeek, LenProperties DEF TypeInv, UiType
<1>5. Target' = p /\ seek_request' # None
  BY <1>3, <1>4, ConstantsAre DEF Target
<1>6. Sought'
  <2> DEFINE stores == <<Store("position", p), Store("in_flight", 0), Unpark>>
  <2>1. Len(stores) = 3 /\ stores[1] = Store("position", p) /\ stores[2] = Store("in_flight", 0)
        /\ stores[3] = Unpark
    OBVIOUS
  <2> HIDE DEF stores
  <2>2. Len(ui') <= Len(stores)
        /\ \A i \in 1 .. Len(ui') : ui'[i] = stores[Len(stores) - Len(ui') + i]
    <3>1. CASE Len(ui') = 0
      BY <2>1, <3>1
    <3>2. CASE Len(ui') = 3 /\ ui'[1] = stores[1] /\ ui'[2] = stores[2] /\ ui'[3] = stores[3]
      <4>1. Len(ui') = 3 /\ Len(stores) = 3
        BY <2>1, <3>2
      <4>2. \A i \in 1 .. 3 : ui'[i] = stores[i]
        <5>1. \A i \in 1 .. 3 : i = 1 \/ i = 2 \/ i = 3
          OBVIOUS
        <5> QED  BY <3>2, <5>1
      <4>3. \A i \in 1 .. Len(ui') : Len(stores) - Len(ui') + i = i /\ i \in 1 .. 3
        BY <4>1
      <4> QED  BY <4>1, <4>2, <4>3
    <3> QED  BY <2>1, <3>1, <3>2
  <2> QED  BY <1>5, <2>2 DEF Sought, Left, stores
<1>7. pc' \in {"load", "seek"} => Cleared'
  BY <1>1, <1>3 DEF Cleared, ClearLeft
<1> QED  BY <1>3, <1>4, <1>5, <1>6, <1>7 DEF Settling

\* A return's stores, up to its seek.
LEMMA ReturnStep ==
  ASSUME TypeInv, UiStore, ReturnBegins
  PROVE  ReturnBegins' \/ (Sought' /\ Settling')
<1>1. PICK p \in Nat :
        /\ Left(<<Store("playing", FALSE)>> \o SeekStores(p)) /\ Len(ui) >= 4
        /\ Len(ui) = 4 => ~playing
  BY DEF ReturnBegins
<1> DEFINE stores == <<Store("playing", FALSE)>> \o SeekStores(p)
<1>2. Len(stores) = 5 /\ stores[1] = Store("playing", FALSE) /\ stores[2] = Store("seek", p)
  BY ReturnStoresAre
<1>3. stores[3] = Store("position", p) /\ stores[4] = Store("in_flight", 0) /\ stores[5] = Unpark
  BY DEF SeekStores
<1>4. Left(stores)
  BY <1>1
<1> HIDE DEF stores
<1>5. Len(stores) \in Nat
  BY <1>2
<1>6. /\ ui[1] = stores[Len(stores) - Len(ui) + 1] /\ Len(ui) \in 1 .. Len(stores)
      /\ Len(ui') = Len(ui) - 1 /\ Len(ui') <= Len(stores)
  BY <1>4, <1>5, LeftNext
<1>7. \A i \in 1 .. Len(ui') : ui'[i] = stores[Len(stores) - Len(ui') + i]
  BY <1>4, <1>5, LeftNext
<1>8. CASE Len(ui) = 5
  <2> DEFINE k == Len(stores) - Len(ui) + 1
  <2>1. k = 1 /\ Len(ui') = 4
    BY <1>2, <1>6, <1>8
  <2> HIDE DEF k
  <2>2. ui[1] = stores[k]
    BY <1>6 DEF k
  <2>3. ui[1] = Store("playing", FALSE)
    BY <1>2, <2>1, <2>2
  <2>4. ~playing'
    <3>1. playing' = (IF ui[1].where = "playing" THEN ui[1].what ELSE playing)
      BY UiStoreIs
    <3> QED  BY <2>3, <3>1 DEF Store
  <2>5. Left(stores)'
    BY <1>6, <1>7 DEF Left
  <2> QED  BY <2>1, <2>4, <2>5 DEF ReturnBegins, stores
<1>9. CASE Len(ui) = 4
  <2>1. ui[1] = Store("seek", p) /\ Len(ui') = 3 /\ ~playing
    BY <1>1, <1>2, <1>6, <1>9
  <2>2. ui'[1] = Store("position", p) /\ ui'[2] = Store("in_flight", 0) /\ ui'[3] = Unpark
    BY <1>2, <1>3, <1>7, <2>1
  <2> QED  BY <2>1, <2>2, SeekMade
<1> QED  BY <1>1, <1>2, <1>6, <1>8, <1>9

\* A load's stores, up to its last seek.
LEMMA LoadStep ==
  ASSUME TypeInv, UiStore, LoadBegins
  PROVE  LoadBegins' \/ (Sought' /\ Settling')
<1>1. PICK t \in Tracks, cue \in {0, 1} :
        /\ Left(LoadStores(t, cue)) /\ Len(ui) > (IF cue > 0 THEN 3 ELSE 0)
        /\ Len(ui) < Len(LoadStores(t, cue)) => ~playing
        /\ Len(ui) + 3 <= Len(LoadStores(t, cue)) /\ pc \in {"load", "seek"} => in_flight = 0
  BY DEF LoadBegins
<1> DEFINE stores == LoadStores(t, cue)
           n == IF cue > 0 THEN 9 ELSE 5
           k == Len(stores) - Len(ui) + 1
<1>2. /\ Len(stores) = n
      /\ stores[1] = Store("playing", FALSE) /\ stores[2] = Store("samples", t)
      /\ stores[3] = Store("in_flight", 0) /\ stores[4] = Store("position", 0)
      /\ stores[5] = Store("seek", 0)
      /\ cue > 0 => stores[6] = Store("seek", cue)
  BY LoadStoresAre
<1>3. cue > 0 => stores[7] = Store("position", cue) /\ stores[8] = Store("in_flight", 0)
                 /\ stores[9] = Unpark
  BY DEF LoadStores, SeekStores
<1>4. Left(stores)
  BY <1>1
<1> HIDE DEF stores
<1>5. Len(stores) \in Nat
  BY <1>2
<1>6. /\ ui[1] = stores[Len(stores) - Len(ui) + 1] /\ Len(ui) \in 1 .. Len(stores)
      /\ Len(ui') = Len(ui) - 1 /\ Len(ui') <= Len(stores)
  BY <1>4, <1>5, LeftNext
<1>7. \A i \in 1 .. Len(ui') : ui'[i] = stores[Len(stores) - Len(ui') + i]
  BY <1>4, <1>5, LeftNext
<1> DEFINE s == ui[1]
<1>8. /\ playing' = (IF s.where = "playing" THEN s.what ELSE playing)
      /\ in_flight' = (IF s.where = "in_flight" THEN s.what ELSE in_flight)
      /\ pc' = pc
  BY UiStoreIs
<1>9. s = stores[k] /\ k \in 1 .. n /\ Len(ui') = n - k /\ Len(ui) = n - k + 1
  BY <1>2, <1>6
<1>10. ~(k <= 1) => ~playing
  BY <1>1, <1>2, <1>6 DEF stores
<1>11. k > 3 /\ pc \in {"load", "seek"} => in_flight = 0
  BY <1>1, <1>2, <1>6 DEF stores
<1>12. k <= IF cue > 0 THEN 6 ELSE 5
  BY <1>1, <1>2, <1>9
<1> HIDE DEF k, s
<1>13. CASE k = 6 \/ (k = 5 /\ cue = 0)
  <2>1. cue \in Nat /\ s = Store("seek", cue) /\ ~playing
    BY <1>2, <1>9, <1>10, <1>12, <1>13
  <2>2. CASE cue = 0
    <3>1. Len(ui') = 0 /\ (pc \in {"load", "seek"} => in_flight = 0)
      BY <1>9, <1>11, <1>12, <1>13, <2>2
    <3> QED  BY <2>1, <3>1, SeekMade DEF s
  <2>3. CASE cue > 0
    <3>1. Len(ui') = 3 /\ n = 9
      BY <1>9, <1>12, <1>13, <2>3
    <3>2. ui'[1] = stores[7] /\ ui'[2] = stores[8] /\ ui'[3] = stores[9]
      BY <1>2, <1>7, <3>1
    <3> QED  BY <1>3, <2>1, <2>3, <3>1, <3>2, SeekMade DEF s
  <2> QED  BY <2>2, <2>3
<1>14. CASE ~(k = 6 \/ (k = 5 /\ cue = 0))
  <2>1. Left(stores)'
    BY <1>6, <1>7 DEF Left
  <2>2. Len(ui') > (IF cue > 0 THEN 3 ELSE 0)
    BY <1>9, <1>12, <1>14
  <2>3. ~playing'
    BY <1>2, <1>8, <1>9, <1>10, <1>12 DEF Store
  <2>4. Len(ui') + 3 <= Len(stores) /\ pc' \in {"load", "seek"} => in_flight' = 0
    BY <1>2, <1>8, <1>9, <1>11, <1>12, <1>14 DEF Store
  <2> QED  BY <2>1, <2>2, <2>3, <2>4 DEF LoadBegins, stores
<1> QED  BY <1>13, <1>14

\* The last seek's other stores leave it settling.
LEMMA SoughtStep ==
  ASSUME TypeInv, UiStore, Sought, Settling
  PROVE  Settling'
<1>1. /\ \/ Len(ui) = 3 /\ Len(ui') = 2 /\ position' = Target /\ in_flight' = in_flight
         \/ Len(ui) = 2 /\ Len(ui') = 1 /\ in_flight' = 0 /\ position' = position
         \/ Len(ui) = 1 /\ Len(ui') = 0 /\ in_flight' = in_flight /\ position' = position
      /\ UNCHANGED <<playing, seek_request, seeks, drain_flag, ring, pc, proc_pos, src_block,
                     epoch, last, loop_active>>
  BY SoughtNext
<1>2. ui # <<>> /\ Target' = Target
  BY <1>1 DEF UiStore, Target
<1>3. position \in Nat /\ in_flight \in Nat /\ Len(seeks) \in Nat /\ seeks \in Seq(Nat)
  BY LenProperties DEF TypeInv, SharedType, UiType
<1>4. Target \in Nat
  BY <1>3, ElementOfSeq DEF Settling, Target
<1>5. Cleared => Cleared'
  <2>1. CASE Len(ui) = 3 /\ Len(ui') = 2
    BY <2>1 DEF Cleared, ClearLeft
  <2>2. CASE in_flight' = 0
    BY <2>2 DEF Cleared
  <2>3. CASE Len(ui) = 1 /\ Len(ui') = 0 /\ in_flight' = in_flight
    BY <2>3 DEF Cleared, ClearLeft
  <2> QED  BY <1>1, <2>1, <2>2, <2>3
<1>6. CASE seek_request # None
  BY <1>1, <1>5, <1>6 DEF Settling
<1>7. CASE seek_request = None
  <2>1. ~(pc \in {"readEnd", "readBlock"} \cup Holding)
    BY <1>2, <1>7 DEF Settling
  <2>2. pc \in {"top", "pausedSeek", "park"} =>
          /\ proc_pos' = position' /\ position' = Target
          /\ ClearLeft' \/ position' - in_flight' = Target
    <3>1. pc \in {"top", "pausedSeek", "park"} =>
            proc_pos = position /\ position = Target /\ (ClearLeft \/ position - in_flight = Target)
      BY <1>2, <1>7 DEF Settling
    <3>2. CASE Len(ui) = 3 /\ Len(ui') = 2 /\ position' = Target
      BY <1>1, <3>1, <3>2 DEF ClearLeft
    <3>3. CASE in_flight' = 0 /\ position' = position
      BY <1>1, <1>4, <3>1, <3>3
    <3>4. CASE Len(ui) = 1 /\ in_flight' = in_flight /\ position' = position
      BY <1>1, <3>1, <3>4 DEF ClearLeft
    <3> QED  BY <1>1, <3>2, <3>3, <3>4
  <2>3. pc \in {"waitFlush", "room", "readStart"} =>
          /\ proc_pos' = Target' /\ position' = Target' /\ Cleared'
          /\ (drain_flag' /\ pc' = "waitFlush") \/ ring' = <<>>
    BY <1>1, <1>2, <1>5, <1>7 DEF Settling, Reading
  <2> QED  BY <1>1, <1>2, <1>5, <1>7, <2>1, <2>2, <2>3 DEF Settling, Reading, Holding
<1> QED  BY <1>6, <1>7

\* With the last seek made, only the processor and the callback go on.
LEMMA SettlingBy ==
  ASSUME UNCHANGED <<playing, ui, seeks>>, Settling,
         pc' \in {"load", "seek"} => seek_request' # None /\ Cleared',
         seek_request' = None =>
           /\ epoch' = Len(seeks)
           /\ pc' = "pausedPublish" => proc_pos' = Target
           /\ pc' = "publishSeek" => proc_pos' = Target /\ Cleared'
           /\ pc' \in {"waitFlush", "room"} \cup Reading =>
                /\ proc_pos' = Target /\ position' = Target /\ Cleared'
                /\ (drain_flag' /\ pc' = "waitFlush") \/ ring' = <<>>
           /\ pc' \in {"readEnd", "readBlock"} \cup Holding => ui = <<>>
           /\ pc' \in Holding => ring' = <<>> /\ proc_pos' = Target + Len(src_block')
           /\ pc' \in {"checkSeek", "publish"} => in_flight' = 0 /\ position' = Target
           /\ pc' = "push" => position' = Target + Len(src_block')
           /\ pc' \in {"top", "pausedSeek", "park"} =>
                /\ proc_pos' = position'
                /\ ui # <<>> => position' = Target
                /\ ClearLeft \/ position' - in_flight' = Target
  PROVE  Settling'
<1>1. Target' = Target /\ (ClearLeft' <=> ClearLeft)
  BY DEF Target, ClearLeft
<1>2. ~playing' /\ Len(seeks') > 0
  BY DEF Settling
<1> QED  BY <1>1, <1>2 DEF Settling

\* The processor takes the seek.
LEMMA SettleTake ==
  ASSUME TypeInv, Settling, PausedSeek \/ Seek
  PROVE  Settling'
<1>1. UNCHANGED <<playing, ui, seeks, position, in_flight, drain_flag, ring, src_block>>
  BY DEF PausedSeek, Seek, uivars
<1>2. (Cleared' <=> Cleared) /\ (ClearLeft' <=> ClearLeft)
  BY <1>1 DEF Cleared, ClearLeft
<1>3. CASE seek_request = None
  <2>1. pc = "pausedSeek" /\ pc' = "park" /\ UNCHANGED <<seek_request, proc_pos, epoch>>
    BY <1>3 DEF PausedSeek, Seek, Goto, Settling
  <2> QED  BY <1>1, <1>2, <1>3, <2>1, SettlingBy DEF Settling, Reading, Holding
<1>4. CASE seek_request # None
  <2>1. proc_pos' = seek_request /\ epoch' = Len(seeks)
        /\ \/ pc = "pausedSeek" /\ pc' = "pausedPublish"
           \/ pc = "seek" /\ pc' = "publishSeek"
    BY <1>4 DEF PausedSeek, Seek, TakeSeek, Goto
  <2>2. proc_pos' = Target
    BY <1>4, <2>1 DEF TypeInv, UiType, Target
  <2>3. pc' = "publishSeek" => Cleared
    BY <2>1 DEF Settling
  <2> QED  BY <1>1, <1>2, <2>1, <2>2, <2>3, SettlingBy DEF Reading, Holding
<1> QED  BY <1>3, <1>4

\* It publishes where it went.
LEMMA SettlePublish ==
  ASSUME TypeInv, Settling, PausedPublish \/ PublishSeek \/ Publish
  PROVE  Settling'
<1>1. UNCHANGED <<playing, ui, seeks, seek_request, ring, src_block, proc_pos, epoch>>
  BY DEF PausedPublish, PublishSeek, Publish, uivars
<1>2. ClearLeft' <=> ClearLeft
  BY <1>1 DEF ClearLeft
<1>3. Len(seeks) \in Nat /\ Len(seeks) > 0 /\ seeks \in Seq(Nat)
  BY LenProperties DEF TypeInv, UiType, Settling
<1>4. Target \in Nat
  BY <1>3, ElementOfSeq DEF Target
<1>5. CASE PausedPublish
  <2>1. pc = "pausedPublish" /\ pc' = "park" /\ position' = proc_pos /\ in_flight' = 0
    BY <1>5 DEF PausedPublish, Goto
  <2>2. seek_request = None => epoch = Len(seeks) /\ proc_pos = Target
    BY <2>1 DEF Settling
  <2> QED  BY <1>1, <1>2, <1>4, <2>1, <2>2, SettlingBy DEF Reading, Holding
<1>6. CASE PublishSeek
  <2>1. pc = "publishSeek" /\ pc' = "waitFlush" /\ position' = proc_pos /\ in_flight' = in_flight
        /\ drain_flag' = TRUE
    BY <1>6 DEF PublishSeek, Goto
  <2>2. seek_request = None => epoch = Len(seeks) /\ proc_pos = Target /\ Cleared
    BY <2>1 DEF Settling
  <2>3. Cleared' <=> Cleared
    BY <1>2, <2>1 DEF Cleared
  <2> QED  BY <1>1, <2>1, <2>2, <2>3, SettlingBy DEF Reading, Holding
<1>7. CASE Publish
  <2>1. pc = "publish" /\ pc' = "push" /\ position' = proc_pos
    BY <1>7 DEF Publish, Goto
  <2>2. seek_request = None =>
          epoch = Len(seeks) /\ ui = <<>> /\ ring = <<>> /\ proc_pos = Target + Len(src_block)
    BY <2>1 DEF Settling, Holding
  <2> QED  BY <1>1, <2>1, <2>2, SettlingBy DEF Reading, Holding
<1> QED  BY <1>5, <1>6, <1>7

\* It reads the block at the target.
LEMMA SettleRead ==
  ASSUME TypeInv, loop_active = FALSE, Settling, ReadBlock
  PROVE  Settling'
<1>1. /\ pc = "readBlock" /\ pc' = "checkSeek"
      /\ proc_pos' = proc_pos + Len(src_block')
      /\ UNCHANGED <<shared, uivars, cbvars, current, ls, le, token, epoch>>
  BY ReadBlockIs DEF LoopHonoured
<1>2. UNCHANGED <<playing, ui, seeks, seek_request, ring, position, in_flight, drain_flag, epoch>>
  BY <1>1 DEF shared, uivars
<1>3. seek_request = None =>
        /\ epoch = Len(seeks) /\ ui = <<>> /\ ring = <<>> /\ proc_pos = Target /\ position = Target
        /\ Cleared
  BY <1>1 DEF Settling, Reading
<1>4. ui = <<>> /\ Cleared => in_flight = 0
  <2>1. ui = <<>> => Len(ui) = 0
    BY FewIn
  <2> QED  BY <2>1 DEF Cleared, ClearLeft
<1> QED  BY <1>1, <1>2, <1>3, <1>4, SettlingBy DEF Reading, Holding

\* It pushes it: what is on its way is then as long as the cursor is ahead.
LEMMA SettlePush ==
  ASSUME RingDefault = RingLen, RingLen < Word, TypeInv, Settling, Push
  PROVE  Settling'
<1>1. PICK times \in Repeats :
        LET m == Stretched(src_block, times) IN
        /\ times \in Nat /\ times > 0 /\ pc = "push" /\ pc' = "top"
        /\ Len(m) = times * Len(src_block)
        /\ Len(ring) + Len(m) <= RingLen /\ Len(ring') = Len(ring) + Len(m)
        /\ in_flight' = ((RingDefault - (RingLen - Len(ring'))) % Word) \div times
  BY PushIs
<1> DEFINE n == Len(src_block)
           l == times * n
<1>2. UNCHANGED <<playing, ui, seeks, seek_request, position, proc_pos, epoch>>
  BY DEF Push, uivars
<1>3. n \in Nat /\ RingLen \in Nat /\ Word \in Nat /\ Len(seeks) \in Nat /\ Len(seeks) > 0
      /\ seeks \in Seq(Nat)
  BY LenProperties, ConstantsAre DEF TypeInv, ProcType, UiType, Settling
<1>4. Target \in Nat
  BY <1>3, ElementOfSeq DEF Target
<1>5. CASE seek_request # None
  BY <1>1, <1>2, <1>5, SettlingBy
<1>6. CASE seek_request = None
  <2>1. epoch = Len(seeks) /\ ui = <<>> /\ ring = <<>> /\ proc_pos = Target + n /\ position = Target + n
    BY <1>1, <1>6 DEF Settling, Holding
  <2>2. Len(ring) = 0
    BY <2>1, FewIn
  <2>3. l \in Nat /\ Len(ring') = l /\ l <= RingLen
    BY <1>1, <1>3, <2>2
  <2>4. in_flight' = n
    <3>1. in_flight' = ((RingLen - (RingLen - l)) % Word) \div times
      BY <1>1, <2>3
    <3>2. RingLen - (RingLen - l) = l
      BY <1>3, <2>3
    <3>3. in_flight' = (l % Word) \div times
      BY <3>1, <3>2
    <3>4. l % Word = l
      <4> DEFINE x == l
      <4>1. x \in Nat /\ x < Word /\ Word \in Nat
        BY <1>3, <2>3
      <4> HIDE DEF x
      <4>2. x % Word = x
        BY <4>1
      <4> QED  BY <4>2 DEF x
    <3>5. l \div times = n
      <4> DEFINE q == l \div times
      <4>1. q \in Nat /\ times * q <= l /\ l < times * q + times
        BY <1>1, <2>3, QuotientIs
      <4> HIDE DEF q
      <4>2. \A x, y \in Nat : x >= y => times * x >= times * y
        BY <1>1
      <4>3. q >= n + 1 => times * q >= times * (n + 1)
        BY <1>3, <4>1, <4>2
      <4>4. n >= q + 1 => times * n >= times * (q + 1)
        BY <1>3, <4>1, <4>2
      <4>5. times * (n + 1) = times * n + times /\ times * (q + 1) = times * q + times
        BY <1>1, <1>3, <4>1
      <4>6. times * q \in Nat /\ times * n \in Nat
        BY <1>1, <1>3, <4>1
      <4>7. q = n
        BY <1>1, <1>3, <4>1, <4>3, <4>4, <4>5, <4>6
      <4> QED  BY <4>7 DEF q
    <3> QED  BY <3>3, <3>4, <3>5
  <2>5. position - in_flight' = Target
    BY <1>3, <1>4, <2>1, <2>4
  <2> QED  BY <1>1, <1>2, <1>6, <2>1, <2>5, SettlingBy DEF Reading, Holding
<1> QED  BY <1>5, <1>6

\* Its other steps.
LEMMA SettleQuiet ==
  ASSUME Prompt = TRUE, TypeInv, Settling,
         Top \/ Park \/ Load \/ WaitFlush \/ Room \/ ReadStart \/ ReadEnd \/ CheckSeek
  PROVE  Settling'
<1>1. UNCHANGED <<playing, ui, seeks, seek_request, position, drain_flag, ring, proc_pos, src_block,
                  epoch>>
  BY DEF Top, Park, Load, WaitFlush, Room, ReadStart, ReadEnd, CheckSeek, shared, uivars
<1>2. (ClearLeft' <=> ClearLeft) /\ ~playing
  BY <1>1 DEF ClearLeft, Settling
<1>3. ui = <<>> => ~ClearLeft
  <2>1. ui = <<>> => Len(ui) = 0
    BY FewIn
  <2> QED  BY <2>1 DEF ClearLeft
<1>4. CASE Top \/ Park \/ Load \/ WaitFlush \/ ReadStart \/ ReadEnd \/ CheckSeek
  <2>1. in_flight' = in_flight /\ (Cleared' <=> Cleared)
    BY <1>2, <1>4 DEF Top, Park, Load, WaitFlush, ReadStart, ReadEnd, CheckSeek, shared, Cleared
  <2>2. CASE Top \/ Park
    <3>1. \/ pc = "top" /\ pc' = "pausedSeek"
          \/ pc = "park" /\ pc' = "top"
      BY <1>2, <2>2 DEF Top, Park, Goto
    <3> QED  BY <1>1, <2>1, <3>1, SettlingBy DEF Settling, Reading, Holding
  <2>3. CASE Load
    <3>1. pc = "load" /\ pc' \in {"park", "seek"}
      BY <2>3 DEF Load, Goto
    <3>2. seek_request # None /\ Cleared
      BY <3>1 DEF Settling
    <3> QED  BY <1>1, <2>1, <3>1, <3>2, SettlingBy
  <2>4. CASE WaitFlush
    <3>1. pc = "waitFlush" /\ pc' = "room" /\ ~drain_flag
      BY <2>4 DEF WaitFlush, Goto
    <3> QED  BY <1>1, <2>1, <3>1, SettlingBy DEF Settling, Reading, Holding
  <2>5. CASE ReadStart
    <3>1. pc = "readStart" /\ pc' = "readEnd" /\ ui = <<>>
      BY <2>5 DEF ReadStart, Goto
    <3> QED  BY <1>1, <2>1, <3>1, SettlingBy DEF Settling, Reading, Holding
  <2>6. CASE ReadEnd
    <3>1. pc = "readEnd" /\ pc' = "readBlock"
      BY <2>6 DEF ReadEnd, Goto
    <3> QED  BY <1>1, <2>1, <3>1, SettlingBy DEF Settling, Reading, Holding
  <2>7. CASE CheckSeek
    <3>1. pc = "checkSeek" /\ (pc' = IF seek_request = None THEN "publish" ELSE "push")
      BY <2>7 DEF CheckSeek, Goto
    <3> QED  BY <1>1, <2>1, <3>1, SettlingBy DEF Settling, Reading, Holding
  <2> QED  BY <1>4, <2>2, <2>3, <2>4, <2>5, <2>6, <2>7
<1>5. CASE Room
  <2> DEFINE free == RingLen - Len(ring)
             ended == proc_pos >= Length[current]
  <2>1. /\ pc = "room" /\ pc' = (IF free < BackPressure \/ ended THEN "top" ELSE "readStart")
        /\ in_flight' = IF free >= BackPressure /\ ended THEN Len(ring) ELSE in_flight
    BY <1>5 DEF Room, Goto
  <2>2. BackPressure \in Nat /\ RingLen \in Nat /\ BackPressure <= RingLen
    BY ConstantsAre
  <2>3. CASE seek_request # None
    BY <1>1, <2>1, <2>3, SettlingBy
  <2>4. CASE seek_request = None
    <3>1. epoch = Len(seeks) /\ proc_pos = Target /\ position = Target /\ Cleared /\ ring = <<>>
      BY <2>1, <2>4 DEF Settling
    <3>2. Len(ring) = 0
      BY <3>1, FewIn
    <3>3. free >= BackPressure
      BY <2>2, <3>2
    <3>4. Len(seeks) \in Nat /\ Len(seeks) > 0 /\ seeks \in Seq(Nat)
      BY LenProperties DEF TypeInv, UiType, Settling
    <3>5. Target \in Nat
      BY <3>4, ElementOfSeq DEF Target
    <3>6. ~(free < BackPressure)
      BY <2>2, <3>2
    <3> HIDE DEF free, ended
    <3>7. CASE ended
      <4>1. pc' = "top" /\ in_flight' = 0
        BY <2>1, <3>2, <3>3, <3>7
      <4> QED  BY <1>1, <3>1, <3>5, <4>1, SettlingBy DEF Reading, Holding
    <3>8. CASE ~ended
      <4>1. pc' = "readStart" /\ in_flight' = in_flight
        BY <2>1, <3>6, <3>8
      <4>2. Cleared'
        BY <1>2, <3>1, <4>1 DEF Cleared
      <4> QED  BY <1>1, <3>1, <4>1, <4>2, SettlingBy DEF Reading, Holding
    <3> QED  BY <3>7, <3>8
  <2> QED  BY <2>3, <2>4
<1> QED  BY <1>4, <1>5

\* The callback only empties the ring.
LEMMA SettleCb ==
  ASSUME TypeInv, Settling, Callback
  PROVE  Settling'
<1>1. UNCHANGED <<playing, ui, seeks, seek_request, position, in_flight, pc, proc_pos, src_block, epoch>>
      /\ (drain_flag' = drain_flag \/ ring' = <<>>)
      /\ (ring = <<>> => ring' = <<>>)
  BY CallbackIs DEF uivars, procvars
<1>2. (Cleared' <=> Cleared) /\ (ClearLeft' <=> ClearLeft)
  BY <1>1 DEF Cleared, ClearLeft
<1> QED  BY <1>1, <1>2, SettlingBy DEF Settling

\* SettleInv holds at the start.
LEMMA SettleStart == Init => SettleInv
<1> SUFFICES ASSUME Init PROVE SettleInv
  OBVIOUS
<1>1. loop_active = FALSE /\ last = "none"
  BY DEF Init
<1>2. ui \in Seq(Loopless)
  BY FewIn DEF Init
<1> QED  BY <1>1, <1>2 DEF SettleInv

\* The UI's steps keep it.
LEMMA SettleUi ==
  ASSUME Loops = {}, TypeInv, SettleInv, UI
  PROVE  SettleInv'
<1>1. loop_active' = FALSE /\ ui' \in Seq(Loopless)
  BY LooplessUi DEF SettleInv
<1>2. CASE UiEvent \/ FrameAtEnd
  BY <1>1, <1>2, SettleSent DEF SettleInv
<1>3. CASE UiStore
  <2>1. last' = last
    BY <1>3, UiStoreIs
  <2>2. Sought => Sought'
    BY <1>3, SoughtNext
  <2> QED  BY <1>1, <1>3, <2>1, <2>2, ReturnStep, LoadStep, SoughtStep DEF SettleInv
<1> QED  BY <1>2, <1>3 DEF UI

\* A return or a load that has begun goes on, whatever the other threads do.
LEMMA BegunStays ==
  ASSUME TypeInv, Processor \/ Callback
  PROVE  /\ ReturnBegins => ReturnBegins'
         /\ LoadBegins => LoadBegins'
         /\ Sought => Sought'
<1>1. UNCHANGED <<playing, ui, seeks, last>>
  BY CallbackIs DEF Processor, Top, PausedSeek, PausedPublish, Park, Load, Seek, PublishSeek,
        WaitFlush, Room, ReadStart, ReadEnd, ReadBlock, CheckSeek, Publish, Push, shared, uivars
<1>2. pc' \in {"load", "seek"} /\ ~playing => pc \in {"load", "seek"} /\ in_flight' = in_flight
  <2>1. CASE Callback
    BY <2>1, CallbackIs DEF procvars
  <2>2. CASE Processor
    BY <2>2 DEF Processor, Top, PausedSeek, PausedPublish, Park, Load, Seek, PublishSeek,
        WaitFlush, Room, ReadStart, ReadEnd, ReadBlock, CheckSeek, Publish, Push, Goto, shared
  <2> QED  BY <2>1, <2>2
<1>3. ReturnBegins => ReturnBegins'
  BY <1>1 DEF ReturnBegins, Left
<1>4. Sought => Sought'
  BY <1>1 DEF Sought, Left, Target
<1>5. ASSUME LoadBegins PROVE LoadBegins'
  <2>1. PICK t \in Tracks, cue \in {0, 1} :
          /\ Left(LoadStores(t, cue)) /\ Len(ui) > (IF cue > 0 THEN 3 ELSE 0)
          /\ Len(ui) < Len(LoadStores(t, cue)) => ~playing
          /\ Len(ui) + 3 <= Len(LoadStores(t, cue)) /\ pc \in {"load", "seek"} => in_flight = 0
    BY <1>5 DEF LoadBegins
  <2> DEFINE stores == LoadStores(t, cue)
             n == Len(stores)
  <2>2. n \in Nat /\ Len(ui) \in Nat
    BY LoadStoresAre, LenProperties DEF TypeInv, UiType
  <2>3. Left(stores)'
    BY <1>1, <2>1 DEF Left
  <2>4. Len(ui') + 3 <= n => ~playing
    BY <1>1, <2>1, <2>2
  <2>5. Len(ui') + 3 <= n /\ pc' \in {"load", "seek"} => in_flight' = 0
    BY <1>1, <1>2, <2>1, <2>4
  <2> QED  BY <1>1, <2>1, <2>3, <2>5 DEF LoadBegins
<1> QED  BY <1>3, <1>4, <1>5

\* The processor's and the callback's steps keep SettleInv.
LEMMA SettleOther ==
  ASSUME Prompt = TRUE, RingDefault = RingLen, RingLen < Word, TypeInv, SettleInv,
         Processor \/ Callback
  PROVE  SettleInv'
<1>1. UNCHANGED <<ui, last, loop_active>>
  BY CallbackIs DEF Processor, Top, PausedSeek, PausedPublish, Park, Load, Seek, PublishSeek,
        WaitFlush, Room, ReadStart, ReadEnd, ReadBlock, CheckSeek, Publish, Push, shared, uivars
<1>2. Settling => Settling'
  BY SettleTake, SettlePublish, SettleRead, SettlePush, SettleQuiet, SettleCb DEF Processor, SettleInv
<1> QED  BY <1>1, <1>2, BegunStays DEF SettleInv

\* "What made a released CUE sometimes stick on screen" (audio.rs:180) is over: a CUE
\* return or a load that is over has brought the head that is shown, and the next block,
\* to the place sought.  The ring is the one in_flight is computed from and a word can
\* count it, the event's stores are over before a block is begun, and no loop is set
\* (a block read at the target may then end back at the loop's start).
THEOREM ReturnsSettle ==
  ASSUME Prompt = TRUE, RingDefault = RingLen, RingLen < Word, Loops = {}
  PROVE  Spec => []ReturnSettles
<1>1. TypeInv /\ SettleInv /\ [Next]_vars => SettleInv'
  <2> SUFFICES ASSUME TypeInv, SettleInv, [Next]_vars PROVE SettleInv'
    OBVIOUS
  <2>1. CASE UNCHANGED vars
    BY ZenonT(40), <2>1 DEF vars, shared, uivars, procvars, SettleInv, ReturnBegins, LoadBegins, Sought,
                Settling, Left, Target, Cleared, ClearLeft
  <2> QED  BY <2>1, SettleUi, SettleOther DEF Next
<1>2. SettleInv => ReturnSettles
  <2> SUFFICES ASSUME SettleInv, Quiescent, last \in {"return", "load"}
               PROVE  position - in_flight = Target /\ proc_pos = position
    BY DEF ReturnSettles, Target
  <2>1. Len(ui) = 0
    BY FewIn DEF Quiescent
  <2>2. ~ReturnBegins /\ ~LoadBegins
    BY <2>1 DEF ReturnBegins, LoadBegins
  <2> QED  BY <2>1, <2>2 DEF SettleInv, Settling, Quiescent, ClearLeft
<1> QED  BY <1>1, <1>2, SettleStart, TypesHold, PTL DEF Spec

\* A step of the processor takes a seek to a new epoch, or stays in its own; and then
\* it asks for no other flush.
LEMMA EpochIs ==
  ASSUME TypeInv, Processor
  PROVE  /\ UNCHANGED <<out, ui, published, seeks, loop_start, loop_end>>
         /\ \/ epoch < epoch' /\ epoch \in Nat /\ epoch' \in Nat
            \/ /\ epoch' = epoch
               /\ drain_flag' \/ pc' \in {"publishSeek", "pausedPublish"} =>
                    drain_flag \/ pc \in {"publishSeek", "pausedPublish"}
<1>1. UNCHANGED <<out, ui, published, seeks, loop_start, loop_end>>
  BY DEF Processor, Top, PausedSeek, PausedPublish, Park, Load, Seek, PublishSeek,
        WaitFlush, Room, ReadStart, ReadEnd, ReadBlock, CheckSeek, Publish, Push, shared, uivars, cbvars
<1>2. CASE PausedSeek \/ Seek
  <2>1. CASE seek_request = None
    BY <1>1, <1>2, <2>1 DEF PausedSeek, Seek, Goto
  <2>2. CASE seek_request # None
    <3>1. epoch' = Len(seeks) /\ epoch < Len(seeks) /\ epoch \in Nat /\ Len(seeks) \in Nat
      BY <1>2, <2>2, LenProperties DEF PausedSeek, Seek, TakeSeek, TypeInv, UiType, ProcType
    <3> QED  BY <1>1, <3>1
  <2> QED  BY <2>1, <2>2
<1>3. CASE ~(PausedSeek \/ Seek)
  BY <1>1, <1>3 DEF Processor, Top, PausedPublish, Park, Load, PublishSeek,
        WaitFlush, Room, ReadStart, ReadEnd, ReadBlock, CheckSeek, Publish, Push, Goto, shared
<1> QED  BY <1>2, <1>3

\* The epochs of the frames on their way are numbers.
LEMMA EpochsAre ==
  ASSUME TypeInv
  PROVE  /\ \A i \in 1 .. Len(ring) : ring[i] \in Frames /\ ring[i].epoch \in Nat /\ ring[i].pos \in Nat
         /\ out # None => out \in Frames /\ out.epoch \in Nat /\ out.pos \in Nat
         /\ epoch \in Nat /\ Len(ring) \in Nat
<1>1. \A i \in 1 .. Len(ring) : ring[i] \in Frames
  BY ElementOfSeq DEF TypeInv, SharedType
<1>2. out # None => out \in Frames
  BY DEF TypeInv, CbType
<1>3. epoch \in Nat /\ Len(ring) \in Nat
  BY LenProperties DEF TypeInv, SharedType, ProcType
<1> QED  BY <1>1, <1>2, <1>3 DEF Frames

\* The steps keep OutInv.
LEMMA OutStep ==
  ASSUME TypeInv, FreshInv, OutInv, [Next]_vars
  PROVE  OutInv'
<1>1. CASE UNCHANGED vars
  BY <1>1 DEF vars, shared, procvars, cbvars, OutInv
<1>2. CASE UI
  <2>1. UNCHANGED <<out, epoch, drain_flag, pc>>
    BY <1>2, SentIs, UiStoreIs DEF UI, shared, procvars, cbvars
  <2> QED  BY <2>1 DEF OutInv
<1>3. CASE Callback
  <2>1. UNCHANGED <<epoch, pc>> /\ (drain_flag' => drain_flag)
        /\ (out' = out \/ (ring # <<>> /\ out' = Head(ring)))
    BY <1>3, CallbackIs DEF procvars
  <2>2. ring # <<>> => Head(ring) = ring[1] /\ 1 \in 1 .. Len(ring)
    <3>1. ring \in Seq(Frames)
      BY DEF TypeInv, SharedType
    <3>2. ring # <<>> => Head(ring) = ring[1]
      BY <3>1, HeadTailProperties
    <3>3. ring # <<>> => Len(ring) > 0 /\ Len(ring) \in Nat
      BY <3>1, EmptySeq, LenProperties
    <3> QED  BY <3>2, <3>3
  <2>3. ring # <<>> =>
          /\ ring[1].epoch <= epoch
          /\ drain_flag \/ pc \in {"publishSeek", "pausedPublish"} => ring[1].epoch < epoch
    BY <2>2 DEF FreshInv
  <2> QED  BY <2>1, <2>2, <2>3 DEF OutInv
<1>4. CASE Processor
  <2>1. out' = out /\ (out # None => out.epoch \in Nat)
    BY <1>4, EpochIs, EpochsAre
  <2>2. CASE epoch < epoch' /\ epoch \in Nat /\ epoch' \in Nat
    BY <2>1, <2>2 DEF OutInv
  <2>3. CASE epoch' = epoch
             /\ (drain_flag' \/ pc' \in {"publishSeek", "pausedPublish"} =>
                   drain_flag \/ pc \in {"publishSeek", "pausedPublish"})
    BY <2>1, <2>3 DEF OutInv
  <2> QED  BY <1>4, <2>2, <2>3, EpochIs
<1> QED  BY <1>1, <1>2, <1>3, <1>4 DEF Next

\* The steps keep LoopInv.
LEMMA LoopStep ==
  ASSUME \A lp \in Loops : lp[1] = 0, TypeInv, LoopInv, [Next]_vars
  PROVE  LoopInv' /\ published \subseteq published'
<1>1. CASE UNCHANGED vars
  BY <1>1 DEF vars, shared, uivars, procvars, LoopInv, LoopStore, Ends
<1>2. CASE UiEvent \/ FrameAtEnd
  <2>1. /\ UNCHANGED <<loop_start, loop_end, ls, le>>
        /\ published' = published \/ \E lp \in Loops : published' = published \cup {lp}
    BY <1>2, SentIs DEF shared, procvars
  <2>2. published \subseteq published' /\ published' \subseteq Loops
    BY <2>1 DEF LoopInv
  <2>3. Ends \subseteq Ends'
    BY <2>2 DEF Ends
  <2> DEFINE S == LoopStore'
  <2>4. /\ \A where \in SeekPlaces, p \in Nat : Store(where, p) \in S
        /\ \A t \in Tracks : Store("samples", t) \in S
        /\ Store("playing", FALSE) \in S /\ Store("playing", TRUE) \in S /\ Unpark \in S
        /\ Store("loop_active", FALSE) \in S /\ Store("loop_active", TRUE) \in S
    BY StoresAre DEF LoopStore, Store, Unpark, Places, SeekPlaces
  <2>5. ASSUME NEW lp \in Loops \cap published'
        PROVE  Store("loop_start", lp[1]) \in S /\ Store("loop_end", lp[2]) \in S
    <3>1. Store("loop_start", lp[1]) \in Stores /\ Store("loop_end", lp[2]) \in Stores
      BY StoresAre, ConstantsAre DEF Places
    <3>2. lp[1] = 0 /\ lp[2] \in Ends'
      BY DEF Ends
    <3> QED  BY <3>1, <3>2 DEF LoopStore, Store
  <2> HIDE DEF S
  <2>6. ui' \in Seq(S)
    BY <1>2, <2>4, <2>5, SentIn
  <2> QED  BY <2>1, <2>2, <2>3, <2>6 DEF LoopInv, S
<1>3. CASE UiStore
  <2>1. /\ ui # <<>> /\ ui' = Tail(ui) /\ UNCHANGED <<published, ls, le>>
        /\ loop_start' = (IF ui[1].where = "loop_start" THEN ui[1].what ELSE loop_start)
        /\ loop_end' = (IF ui[1].where = "loop_end" THEN ui[1].what ELSE loop_end)
    BY <1>3, UiStoreIs
  <2>2. ui \in Seq(LoopStore)
    BY DEF LoopInv
  <2>3. Tail(ui) \in Seq(LoopStore) /\ Head(ui) = ui[1] /\ Head(ui) \in LoopStore
    BY <2>1, <2>2, HeadTailProperties
  <2>4. LoopStore' = LoopStore /\ Ends' = Ends
    BY <2>1 DEF LoopStore, Ends
  <2>5. loop_start' = 0 /\ loop_end' \in Ends
    BY <2>1, <2>3 DEF LoopStore, LoopInv
  <2> QED  BY <2>1, <2>3, <2>4, <2>5 DEF LoopInv
<1>4. CASE Processor \/ Callback
  <2>1. UNCHANGED <<published, ui, loop_start, loop_end>>
    BY <1>4, EpochIs, CallbackIs DEF uivars
  <2>2. ls' \in {ls, loop_start} /\ le' \in {le, loop_end}
    BY <1>4, CallbackIs DEF procvars, Processor, Top, PausedSeek, PausedPublish, Park, Load, Seek,
        PublishSeek, WaitFlush, Room, ReadStart, ReadEnd, ReadBlock, CheckSeek, Publish, Push
  <2>3. LoopStore' = LoopStore /\ Ends' = Ends
    BY <2>1 DEF LoopStore, Ends
  <2> QED  BY <2>1, <2>2, <2>3 DEF LoopInv
<1> QED  BY <1>1, <1>2, <1>3, <1>4 DEF Next, UI

\* What may be heard after a frame may be so when more loops are set and more seeks made.
LEMMA LinkedStays ==
  ASSUME NEW pub, NEW more, pub \subseteq more, NEW sk, NEW sj, NEW a, NEW b,
         Linked(pub, sk, a, b), SeekOf(sj, b.epoch) = SeekOf(sk, b.epoch)
  PROVE  Linked(more, sj, a, b)
  BY DEF Linked, Reads

\* The ends of the ring.
LEMMA RingEnds ==
  ASSUME TypeInv
  PROVE  /\ ring = <<>> => Len(ring) = 0 /\ LastOut = out
         /\ ring # <<>> => /\ Len(ring) \in Nat /\ Len(ring) > 0
                           /\ 1 \in 1 .. Len(ring) /\ Len(ring) \in 1 .. Len(ring)
                           /\ Head(ring) = ring[1] /\ LastOut = ring[Len(ring)]
                           /\ Tail(ring) \in Seq(Frames) /\ Len(Tail(ring)) = Len(ring) - 1
                           /\ \A i \in 1 .. Len(Tail(ring)) : Tail(ring)[i] = ring[i + 1]
                           /\ Tail(ring) = <<>> => Len(ring) = 1
<1>1. ring \in Seq(Frames)
  BY DEF TypeInv, SharedType
<1>2. CASE ring = <<>>
  BY <1>2, FewIn DEF LastOut
<1>3. CASE ring # <<>>
  <2>1. Len(ring) \in Nat /\ Len(ring) > 0
    BY <1>1, <1>3, EmptySeq, LenProperties
  <2>2. /\ Head(ring) = ring[1] /\ Tail(ring) \in Seq(Frames) /\ Len(Tail(ring)) = Len(ring) - 1
        /\ \A i \in 1 .. Len(Tail(ring)) : Tail(ring)[i] = ring[i + 1]
    BY <1>1, <1>3, HeadTailProperties
  <2>3. Tail(ring) = <<>> => Len(Tail(ring)) = 0
    BY <2>2, EmptySeq
  <2>4. Tail(ring) = <<>> => Len(ring) = 1
    BY <2>1, <2>2, <2>3
  <2>5. 1 \in 1 .. Len(ring) /\ Len(ring) \in 1 .. Len(ring)
    BY <2>1
  <2> QED  BY <1>3, <2>1, <2>2, <2>4, <2>5 DEF LastOut
<1> QED  BY <1>2, <1>3

\* The UI's steps keep HeardInv: they only add loops and seeks.
LEMMA HeardUi ==
  ASSUME TypeInv, FreshInv, HeardInv, UI, published \subseteq published'
  PROVE  HeardInv'
<1>1. UNCHANGED <<ring, out, pc, proc_pos, src_block, epoch>>
      /\ (seeks' = seeks \/ \E p \in Nat : seeks' = Append(seeks, p))
  <2>1. CASE UiEvent \/ FrameAtEnd
    BY <2>1, SentIs DEF shared, procvars, cbvars
  <2>2. CASE UiStore
    <3>1. /\ seeks' = (IF ui[1].where = "seek" THEN Append(seeks, ui[1].what) ELSE seeks)
          /\ UNCHANGED <<ring, cbvars, pc, proc_pos, src_block, epoch>> /\ ui[1] \in Stores
      BY <2>2, UiStoreIs
    <3>2. ui[1].where = "seek" => ui[1].what \in Nat
      BY <3>1, StoredIs DEF Places, SeekPlaces
    <3> QED  BY <3>1, <3>2 DEF cbvars
  <2> QED  BY <2>1, <2>2 DEF UI
<1>2. ASSUME NEW e \in Nat, e <= epoch PROVE SeekOf(seeks', e) = SeekOf(seeks, e)
  <2>1. epoch \in Nat /\ epoch <= Len(seeks) /\ seeks \in Seq(Nat) /\ Len(seeks) \in Nat
    BY LenProperties DEF TypeInv, ProcType, UiType
  <2>2. e # 0 => e \in 1 .. Len(seeks)
    BY <1>2, <2>1
  <2>3. e # 0 => seeks'[e] = seeks[e]
    BY SMTT(20), <1>1, <2>1, <2>2, OneMoreSeek
  <2> QED  BY <2>3 DEF SeekOf
<1>3. \A i \in 1 .. Len(ring) : SeekOf(seeks', ring[i].epoch) = SeekOf(seeks, ring[i].epoch)
  BY <1>2, EpochsAre DEF FreshInv
<1>4. ring # <<>> => Linked(published', seeks', out, ring[1])
  <2>1. ring # <<>> => 1 \in 1 .. Len(ring)
    BY RingEnds
  <2> QED  BY <1>3, <2>1, LinkedStays DEF HeardInv
<1>5. ASSUME NEW i \in 1 .. Len(ring), NEW j \in 1 .. Len(ring), j = i + 1
      PROVE  Linked(published', seeks', ring[i], ring[j])
  <2>1. Linked(published, seeks, ring[i], ring[j])
    BY <1>5 DEF HeardInv
  <2> QED  BY <1>3, <2>1, LinkedStays
<1>6. Expected' = Expected
  <2>1. SeekOf(seeks', epoch) = SeekOf(seeks, epoch)
    BY <1>2, EpochsAre
  <2> QED  BY <1>1, <2>1 DEF Expected, UnderWay, LastOut
<1>7. \A p, q : Reads(published, p, q) => Reads(published', p, q)
  BY DEF Reads
<1> QED  BY <1>1, <1>4, <1>5, <1>6, <1>7 DEF HeardInv

\* The callback's steps keep it: it takes the next frame, or throws away what was behind
\* a seek.
LEMMA HeardCb ==
  ASSUME TypeInv, FreshInv, OutInv, HeardInv, Callback
  PROVE  HeardInv'
<1>1. /\ \/ ring' = ring /\ out' = out
         \/ ring' = <<>> /\ out' = out /\ drain_flag
         \/ ring # <<>> /\ ring' = Tail(ring) /\ out' = Head(ring)
         \/ ring # <<>> /\ ring' = <<>> /\ out' = Head(ring) /\ drain_flag
      /\ UNCHANGED <<published, seeks, pc, proc_pos, src_block, epoch>>
  BY CallbackIs DEF uivars, procvars
<1>2. CASE ring' = ring /\ out' = out
  BY <1>1, <1>2 DEF HeardInv, Expected, UnderWay, LastOut
<1>3. CASE ring' = <<>> /\ drain_flag /\ (out' = out \/ (ring # <<>> /\ out' = ring[1]))
  <2>1. pc \notin Holding
    BY <1>3 DEF FreshInv, Holding
  <2>2. ~UnderWay
    <3>1. CASE ring = <<>>
      BY <1>3, <3>1, RingEnds, EpochsAre DEF OutInv, UnderWay
    <3>2. CASE ring # <<>>
      <4>1. LastOut = ring[Len(ring)] /\ ring[Len(ring)].epoch < epoch
            /\ ring[Len(ring)].epoch \in Nat /\ epoch \in Nat
        BY <1>3, <3>2, RingEnds, EpochsAre DEF FreshInv
      <4> QED  BY <4>1 DEF UnderWay
    <3> QED  BY <3>1, <3>2
  <2>3. LastOut' = out' /\ epoch' = epoch
    BY <1>1, <1>3 DEF LastOut
  <2>4. out' # None => out'.epoch < epoch /\ out'.epoch \in Nat /\ epoch \in Nat
    <3>1. CASE out' = out
      BY <1>3, <3>1, EpochsAre DEF OutInv
    <3>2. CASE ring # <<>> /\ out' = ring[1]
      BY <1>3, <3>2, RingEnds, EpochsAre DEF FreshInv
    <3> QED  BY <1>3, <3>1, <3>2
  <2>5. ~UnderWay'
    BY <2>3, <2>4 DEF UnderWay
  <2>6. Expected' = Expected
    BY <1>1, <2>2, <2>5 DEF Expected
  <2>7. Len(ring') = 0
    BY <1>3, FewIn
  <2> QED  BY <1>1, <1>3, <2>1, <2>6, <2>7 DEF HeardInv
<1>4. CASE ring # <<>> /\ ring' = Tail(ring) /\ out' = ring[1]
  <2>1. /\ Len(ring) \in Nat /\ Len(ring) > 0 /\ Len(ring') = Len(ring) - 1
        /\ \A i \in 1 .. Len(ring') : ring'[i] = ring[i + 1]
        /\ LastOut = ring[Len(ring)] /\ (ring' = <<>> => Len(ring) = 1)
    BY <1>4, RingEnds
  <2>2. ring' # <<>> => Len(ring') > 0 /\ Len(ring') \in Nat
    <3>1. ring' \in Seq(Frames)
      BY <1>4, RingEnds
    <3> QED  BY <3>1, EmptySeq, LenProperties
  <2>3. LastOut' = LastOut
    <3>1. CASE ring' = <<>>
      BY <1>4, <2>1, <3>1 DEF LastOut
    <3>2. CASE ring' # <<>>
      <4>1. Len(ring') \in 1 .. Len(ring') /\ Len(ring') + 1 = Len(ring)
        BY <2>1, <2>2, <3>2
      <4>2. ring'[Len(ring')] = ring[Len(ring)]
        BY <2>1, <4>1
      <4> QED  BY <2>1, <3>2, <4>2 DEF LastOut
    <3> QED  BY <3>1, <3>2
  <2>4. Expected' = Expected
    BY <1>1, <2>3 DEF Expected, UnderWay
  <2>5. ring' # <<>> => Linked(published', seeks', out', ring'[1])
    <3> SUFFICES ASSUME ring' # <<>> PROVE Linked(published', seeks', out', ring'[1])
      OBVIOUS
    <3>1. ring'[1] = ring[2] /\ 1 \in 1 .. Len(ring) /\ 2 \in 1 .. Len(ring) /\ 2 = 1 + 1
      BY <2>1, <2>2
    <3>2. Linked(published, seeks, ring[1], ring[2])
      BY <3>1 DEF HeardInv
    <3> QED  BY <1>1, <1>4, <3>1, <3>2
  <2>6. ASSUME NEW i \in 1 .. Len(ring'), NEW j \in 1 .. Len(ring'), j = i + 1
        PROVE  Linked(published', seeks', ring'[i], ring'[j])
    <3> DEFINE k == i + 1
               l == j + 1
    <3>1. k \in 1 .. Len(ring) /\ l \in 1 .. Len(ring) /\ l = k + 1
      BY <2>1, <2>6
    <3>2. ring'[i] = ring[k] /\ ring'[j] = ring[l]
      BY <2>1
    <3> HIDE DEF k, l
    <3>3. Linked(published, seeks, ring[k], ring[l])
      BY <3>1 DEF HeardInv
    <3> QED  BY <1>1, <3>2, <3>3
  <2> QED  BY <1>1, <2>4, <2>5, <2>6 DEF HeardInv
<1>5. ring # <<>> => Head(ring) = ring[1]
  BY RingEnds
<1> QED  BY <1>1, <1>2, <1>3, <1>4, <1>5

\* The processor's steps that neither read nor push keep it: taking a seek, the cursor is
\* where the next epoch begins.
LEMMA HeardQuiet ==
  ASSUME TypeInv, FreshInv, OutInv, HeardInv, Quiet
  PROVE  HeardInv'
<1>1. UNCHANGED <<out, published, seeks, ring>>
  BY EpochIs, QuietIs DEF Processor, Quiet
<1>2. CASE PausedSeek \/ Seek
  <2>1. CASE seek_request = None
    <3>1. UNCHANGED <<proc_pos, epoch, src_block>> /\ pc \notin Holding /\ pc' \notin Holding
      BY <1>2, <2>1 DEF PausedSeek, Seek, Goto, Holding
    <3> QED  BY <1>1, <3>1 DEF HeardInv, Expected, UnderWay, LastOut
  <2>2. CASE seek_request # None
    <3>1. epoch' = Len(seeks) /\ proc_pos' = seek_request /\ pc' \notin Holding
      BY <1>2, <2>2 DEF PausedSeek, Seek, TakeSeek, Goto, Holding
    <3>2. epoch < Len(seeks) /\ seek_request = seeks[Len(seeks)] /\ epoch \in Nat /\ Len(seeks) \in Nat
      BY <2>2, LenProperties DEF TypeInv, UiType, ProcType
    <3>3. LastOut # None => LastOut.epoch <= epoch /\ LastOut.epoch \in Nat
      <4>1. CASE ring = <<>>
        BY <4>1, RingEnds, EpochsAre DEF OutInv
      <4>2. CASE ring # <<>>
        BY <4>2, RingEnds, EpochsAre DEF FreshInv
      <4> QED  BY <4>1, <4>2
    <3>4. LastOut' = LastOut
      BY <1>1 DEF LastOut
    <3>5. ~UnderWay'
      BY <3>1, <3>2, <3>3, <3>4 DEF UnderWay
    <3>6. Expected' = proc_pos'
      BY <1>1, <3>1, <3>2, <3>5 DEF Expected, SeekOf
    <3> QED  BY <1>1, <3>1, <3>6 DEF HeardInv
  <2> QED  BY <2>1, <2>2
<1>3. CASE ~(PausedSeek \/ Seek)
  <2>1. \/ UNCHANGED <<proc_pos, epoch, src_block>> /\ (pc \in Holding <=> pc' \in Holding)
        \/ UNCHANGED <<proc_pos, epoch, src_block>> /\ pc = "publish" /\ pc' = "push"
    BY <1>3 DEF Quiet, Top, PausedPublish, Park, Load, PublishSeek, WaitFlush,
        Room, ReadStart, ReadEnd, CheckSeek, Publish, Goto, Holding
  <2>2. Expected' = Expected
    BY <1>1, <2>1 DEF Expected, UnderWay, LastOut
  <2> QED  BY <1>1, <2>1, <2>2 DEF HeardInv, Holding
<1> QED  BY <1>2, <1>3

\* A block read where the cursor is may be heard next, and its frames one after another.
LEMMA HeardRead ==
  ASSUME \A lp \in Loops : lp[1] = 0, TypeInv, LoopInv, HeardInv, ReadBlock
  PROVE  HeardInv'
<1> DEFINE n == Length[current]
           looping == LoopHonoured(loop_active, ls, le, n)
           f == src_block'
<1>1. /\ pc = "readBlock" /\ pc' = "checkSeek" /\ proc_pos < n
      /\ Chain(f, n, looping, ls, le) /\ proc_pos' \in Nat
      /\ f[1] = proc_pos \/ (looping /\ proc_pos >= le /\ f[1] = ls)
      /\ proc_pos' = f[Len(f)] + 1
      /\ UNCHANGED <<shared, uivars, cbvars, current, ls, le, token, epoch>>
  BY ReadBlockIs
<1>2. looping => \E lp \in published : ls = lp[1] /\ le = lp[2]
  <2>1. ls = 0 /\ le \in Ends /\ published \subseteq Loops
    BY DEF LoopInv
  <2>2. looping => le > ls
    BY DEF LoopHonoured
  <2>3. looping => le # 0
    BY <2>1, <2>2
  <2> QED  BY <2>1, <2>3 DEF Ends
<1> HIDE DEF looping, n, f
<1>3. proc_pos = Expected
  BY <1>1 DEF HeardInv, Holding
<1>4. UNCHANGED <<out, published, seeks, ring, epoch>>
  BY <1>1 DEF shared, uivars, cbvars
<1>5. Expected' = Expected
  BY <1>4 DEF Expected, UnderWay, LastOut
<1>6. Len(f) > 0 /\ Len(f) \in Nat
  BY <1>1, ConstantsAre DEF Chain
<1>7. Reads(published, proc_pos, f[1])
  BY <1>1, <1>2 DEF Reads
<1>8. ASSUME NEW i \in 1 .. Len(f), NEW j \in 1 .. Len(f), j = i + 1
      PROVE  Reads(published, f[i] + 1, f[j])
  <2>1. f[j] = f[i] + 1 \/ (looping /\ f[i] + 1 = le /\ f[j] = ls)
    BY <1>1, <1>8 DEF Chain
  <2>2. f[i] \in Nat /\ le \in Nat
    BY <1>1, ElementOfSeq DEF Chain, TypeInv, ProcType
  <2>3. CASE f[j] = f[i] + 1
    BY <2>3 DEF Reads
  <2>4. CASE looping /\ f[i] + 1 = le /\ f[j] = ls
    <3>1. PICK lp \in published : ls = lp[1] /\ le = lp[2]
      BY <1>2, <2>4
    <3>2. f[j] = lp[1] /\ f[i] + 1 >= lp[2]
      BY <2>2, <2>4, <3>1
    <3> QED  BY <3>2 DEF Reads
  <2> QED  BY <2>1, <2>3, <2>4
<1> QED  BY <1>1, <1>3, <1>4, <1>5, <1>6, <1>7, <1>8 DEF HeardInv, Holding, f

\* A block that is pushed goes on from the last frame on its way.
LEMMA HeardPush ==
  ASSUME TypeInv, HeardInv, Push
  PROVE  HeardInv'
<1>1. PICK times \in Repeats :
        LET m == Stretched(src_block, times) IN
        /\ times \in Nat /\ times > 0 /\ pc = "push" /\ pc' = "top"
        /\ m \in Seq(Frames) /\ Len(ring) \in Nat
        /\ Len(ring') = Len(ring) + Len(m) /\ ring' \in Seq(Frames)
        /\ \A i \in 1 .. Len(ring) : ring'[i] = ring[i]
        /\ \A i \in 1 .. Len(m) : ring'[Len(ring) + i] = m[i]
        /\ UNCHANGED <<uivars, cbvars, proc_pos, epoch>>
  BY PushIs
<1> DEFINE m == Stretched(src_block, times)
           f == src_block
           r == Len(ring)
<1>2. f \in Seq(Nat) /\ epoch \in Nat /\ current \in Tracks /\ Len(f) \in Nat
  BY LenProperties DEF TypeInv, ProcType
<1>3. /\ Len(f) > 0 /\ Reads(published, Expected, f[1])
      /\ \A i, j \in 1 .. Len(f) : j = i + 1 => Reads(published, f[i] + 1, f[j])
      /\ proc_pos = f[Len(f)] + 1
  BY <1>1 DEF HeardInv, Holding
<1>4. /\ \A i \in 1 .. Len(m) : m[i].epoch = epoch
      /\ \A i, j \in 1 .. Len(m) : j = i + 1 =>
           m[j] = m[i] \/ \E k, l \in 1 .. Len(f) : l = k + 1 /\ m[i].pos = f[k] /\ m[j].pos = f[l]
      /\ Len(m) > 0 /\ m[1].pos = f[1] /\ m[Len(m)].pos = f[Len(f)]
  BY <1>1, <1>2, <1>3, StretchedIs
<1>5. m \in Seq(Frames) /\ Len(m) \in Nat /\ r \in Nat /\ Len(ring') = r + Len(m)
  BY <1>1, LenProperties
<1>6. \A i \in 1 .. r : ring'[i] = ring[i]
  BY <1>1
<1>7. \A i \in 1 .. Len(m) : ring'[r + i] = m[i]
  BY <1>1
<1>8. UNCHANGED <<out, published, seeks, proc_pos, epoch>> /\ pc' = "top"
  BY <1>1 DEF uivars, cbvars
<1> HIDE DEF m, f, r
<1>9. \A i \in 1 .. Len(m) : m[i] # None
  BY <1>5, ElementOfSeq, ConstantsAre
<1>10. Linked(published, seeks, LastOut, m[1])
  <2>1. 1 \in 1 .. Len(m)
    BY <1>4, <1>5
  <2>2. m[1].epoch = epoch /\ m[1].pos = f[1]
    BY <1>4, <2>1
  <2> QED  BY <1>3, <2>2 DEF Linked, Expected, UnderWay
<1>11. ASSUME NEW i \in 1 .. Len(m), NEW j \in 1 .. Len(m), j = i + 1
       PROVE  Linked(published, seeks, m[i], m[j])
  <2>1. m[i] # None /\ m[j].epoch = m[i].epoch
    BY <1>4, <1>9
  <2>2. m[j] = m[i] \/ Reads(published, m[i].pos + 1, m[j].pos)
    BY <1>3, <1>4, <1>11
  <2> QED  BY <2>1, <2>2 DEF Linked
<1>12. (r = 0 <=> ring = <<>>) /\ (ring = <<>> => LastOut = out) /\ (ring # <<>> => LastOut = ring[r])
  <2>1. ring \in Seq(Frames)
    BY DEF TypeInv, SharedType
  <2> QED  BY <2>1, EmptySeq DEF LastOut, r
<1>13. ASSUME NEW i \in 1 .. Len(ring'), i > r
       PROVE  i - r \in 1 .. Len(m) /\ ring'[i] = m[i - r]
  <2> DEFINE k == i - r
  <2>1. k \in 1 .. Len(m) /\ r + k = i
    BY <1>5, <1>13
  <2> HIDE DEF k
  <2>2. ring'[i] = m[k]
    BY <1>7, <2>1
  <2> QED  BY <2>1, <2>2 DEF k
<1>14. Linked(published', seeks', out', ring'[1])
  <2>1. 1 \in 1 .. Len(ring')
    BY <1>4, <1>5
  <2>2. CASE r = 0
    <3>1. ring'[1] = m[1]
      BY <1>13, <2>1, <2>2
    <3> QED  BY <1>8, <1>10, <1>12, <2>2, <3>1
  <2>3. CASE r > 0
    <3>1. ring'[1] = ring[1] /\ ring # <<>>
      BY <1>5, <1>6, <1>12, <2>3
    <3> QED  BY <1>8, <3>1 DEF HeardInv
  <2> QED  BY <1>5, <2>2, <2>3
<1>15. ASSUME NEW i \in 1 .. Len(ring'), NEW j \in 1 .. Len(ring'), j = i + 1
       PROVE  Linked(published', seeks', ring'[i], ring'[j])
  <2>1. CASE j <= r
    <3>1. i \in 1 .. r /\ j \in 1 .. r
      BY <1>5, <1>15, <2>1
    <3>2. Linked(published, seeks, ring[i], ring[j])
      BY <1>15, <3>1 DEF HeardInv, r
    <3> QED  BY <1>6, <1>8, <3>1, <3>2
  <2>2. CASE i = r
    <3>1. i \in 1 .. r /\ j > r /\ j - r = 1 /\ r # 0
      BY <1>5, <1>15, <2>2
    <3>2. ring'[i] = ring[r] /\ ring'[j] = m[1] /\ LastOut = ring[r]
      BY <1>6, <1>12, <1>13, <2>2, <3>1
    <3> QED  BY <1>8, <1>10, <3>2
  <2>3. CASE i > r
    <3> DEFINE k == i - r
               l == j - r
    <3>1. j > r
      BY <1>5, <1>15, <2>3
    <3>2. k \in 1 .. Len(m) /\ l \in 1 .. Len(m) /\ ring'[i] = m[k] /\ ring'[j] = m[l]
      BY <1>13, <2>3, <3>1
    <3>3. l = k + 1
      BY <1>5, <1>15
    <3> HIDE DEF k, l
    <3>4. Linked(published, seeks, m[k], m[l])
      BY <1>11, <3>2, <3>3
    <3> QED  BY <1>8, <3>2, <3>4
  <2>4. j <= r \/ i = r \/ i > r
    BY <1>5, <1>15
  <2> QED  BY <2>1, <2>2, <2>3, <2>4
<1>16. proc_pos' = Expected'
  <2>1. Len(ring') > 0 /\ Len(ring') \in 1 .. Len(ring') /\ Len(ring') > r /\ Len(ring') - r = Len(m)
    BY <1>4, <1>5
  <2>2. ring'[Len(ring')] = m[Len(m)] /\ Len(m) \in 1 .. Len(m)
    BY <1>4, <1>5, <1>13, <2>1
  <2>3. ring' # <<>>
    <3>1. ring' \in Seq(Frames)
      BY <1>1
    <3> QED  BY <2>1, <3>1, EmptySeq
  <2>4. LastOut' = m[Len(m)]
    BY <2>2, <2>3 DEF LastOut
  <2>5. LastOut' # None /\ LastOut'.epoch = epoch' /\ LastOut'.pos = f[Len(f)]
    BY <1>4, <1>8, <1>9, <2>2, <2>4
  <2>6. Expected' = f[Len(f)] + 1
    BY <2>5 DEF Expected, UnderWay
  <2> QED  BY <1>3, <1>8, <2>6
<1> QED  BY <1>8, <1>14, <1>15, <1>16 DEF HeardInv, Holding

\* What is heard is the track, in order, from the place last sought: each frame once or,
\* at a slow speed, again; or a loop's start where the loop or the seek is past its end.
\* The deck is not started again (a late flush may then drop a frame: the run
\* DocPausedSeek), and the loops begin at one place, the start of the track: the bounds
\* are three separate loads (audio.rs:782), so that of two loops elsewhere the
\* processor could see the one's start with the other's end.
THEOREM TrackIsHeard ==
  ASSUME Panel \cap {"play", "preview"} = {}, \A lp \in Loops : lp[1] = 0
  PROVE  Spec => HeardFollowsTheSource
<1>1. Init => OutInv /\ LoopInv /\ HeardInv
  <2> SUFFICES ASSUME Init PROVE OutInv /\ LoopInv /\ HeardInv
    OBVIOUS
  <2>1. ring = <<>> /\ Len(ring) = 0 /\ ui \in Seq(LoopStore)
    BY FewIn DEF Init
  <2>2. out = None /\ drain_flag = FALSE /\ pc = "top" /\ proc_pos = 0 /\ epoch = 0 /\ published = {}
        /\ loop_start = 0 /\ ls = 0 /\ loop_end = 0 /\ le = 0
    BY DEF Init
  <2>3. Expected = 0
    BY <2>1, <2>2 DEF Expected, UnderWay, LastOut, SeekOf
  <2>4. OutInv /\ LoopInv
    BY <2>1, <2>2 DEF OutInv, LoopInv, Ends
  <2> QED  BY <2>1, <2>2, <2>3, <2>4 DEF HeardInv, Holding
<1>2. TypeInv /\ FreshInv /\ [Next]_vars => FreshInv'
  <2>1. TypeInv /\ FreshInv /\ UNCHANGED vars => FreshInv'
    BY DEF vars, shared, uivars, procvars, FreshInv, StaysPaused
  <2> QED  BY <2>1, FreshUi, FreshCb, FreshProc DEF Next
<1>3. TypeInv /\ FreshInv /\ OutInv /\ LoopInv /\ HeardInv /\ [Next]_vars =>
        OutInv' /\ LoopInv' /\ HeardInv'
  <2> SUFFICES ASSUME TypeInv, FreshInv, OutInv, LoopInv, HeardInv, [Next]_vars
               PROVE  OutInv' /\ LoopInv' /\ HeardInv'
    OBVIOUS
  <2>1. OutInv' /\ LoopInv' /\ published \subseteq published'
    BY OutStep, LoopStep
  <2>2. CASE UNCHANGED vars
    BY <2>1, <2>2 DEF vars, shared, uivars, procvars, cbvars, HeardInv, Expected, UnderWay, LastOut
  <2>3. CASE UI
    BY <2>1, <2>3, HeardUi
  <2>4. CASE Callback
    BY <2>1, <2>4, HeardCb
  <2>5. CASE Processor
    BY <2>1, <2>5, HeardQuiet, HeardRead, HeardPush DEF Processor, Quiet
  <2> QED  BY <2>2, <2>3, <2>4, <2>5 DEF Next
<1>4. TypeInv /\ HeardInv /\ [Next]_vars =>
        [out' # out =>
           IF out # None /\ out'.epoch = out.epoch THEN Follows(out, out')
           ELSE StartsAt(out', IF out'.epoch = 0 THEN 0 ELSE seeks[out'.epoch])]_vars
  <2> SUFFICES ASSUME TypeInv, HeardInv, [Next]_vars, out' # out
               PROVE  IF out # None /\ out'.epoch = out.epoch THEN Follows(out, out')
                      ELSE StartsAt(out', IF out'.epoch = 0 THEN 0 ELSE seeks[out'.epoch])
    OBVIOUS
  <2>1. Callback
    BY EpochIs, SentIs, UiStoreIs DEF Next, UI, vars, cbvars
  <2>2. ring # <<>> /\ out' = ring[1]
    BY <2>1, CallbackIs, RingEnds
  <2>3. Linked(published, seeks, out, out')
    BY <2>2 DEF HeardInv
  <2> QED  BY <2>3 DEF Linked, Reads, SeekOf, Follows, StartsAt
<1> QED  BY <1>1, <1>2, <1>3, <1>4, FreshStart, TypesHold, PTL DEF Spec, HeardFollowsTheSource
=============================================================================
