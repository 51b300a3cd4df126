----------------------------- MODULE AudioEngine -----------------------------
(***************************************************************************)
(* The deck's three audio threads and the atomics between them.            *)
(*                                                                         *)
(*   UI         carries control events out as sequences of atomic stores   *)
(*   processor  reads source blocks, stretches them, fills the ring        *)
(*   callback   the device's real-time thread: empties the ring            *)
(*                                                                         *)
(* Each store of the UI and each group of shared accesses of the processor *)
(* is a step of its own, so the threads interleave as they do in the code. *)
(* A callback is one step: it never blocks, and its flush is over in far   *)
(* less time than the processor needs to stretch a block.                  *)
(*                                                                         *)
(* The ring holds source frames, each with the seek ("epoch") it was read  *)
(* under, which is history the properties speak about.                     *)
(***************************************************************************)
EXTENDS Integers, Sequences, FiniteSets

CONSTANTS
  None,
  Tracks, Length,   \* the tracks, and their frames: [Tracks -> Nat]
  Block,            \* BLOCK_FRAMES
  RingLen,          \* ring_len: the ring's capacity
  RingDefault,      \* RING_BUFFER_SAMPLES, which in_flight is computed from
  BackPressure,     \* BACK_PRESSURE_SLOTS: free slots a block needs
  Repeats,          \* how often a source frame may come out of the stretcher
  Word,             \* usize and u64 arithmetic is modulo this
  Loops,            \* the loops the deck may set, as <<start, end>>
  Panel,            \* the kinds of events the UI sends
  MaxEvents,        \* bound on the number of UI events
  ParkTimeout,      \* whether a parked processor also wakes by timeout
  Prompt            \* whether an event's few stores are over before the processor
                    \* begins its next block (the UI thread may be preempted)

\* A block's output fits into the slots it waits for at every speed (audio.rs:80),
\* and these into the ring (audio.rs:55).
ASSUME AudioAssumption ==
  /\ (\A t \in Tracks : Length[t] \in Nat)
  /\ None \notin Nat \cup [pos : Nat, epoch : Nat, track : Tracks]
  /\ Block \in Nat \ {0} /\ {RingLen, RingDefault, BackPressure, MaxEvents} \subseteq Nat
  /\ Word \in Nat \ {0} /\ Repeats \subseteq Nat \ {0} /\ Loops \subseteq Nat \X Nat
  /\ BackPressure <= RingLen /\ \A times \in Repeats : times * Block <= BackPressure

VARIABLES
  \* shared between the threads
  playing, samples, position, in_flight, seek_request,
  loop_start, loop_end, loop_active, drain_flag, ring,
  \* the UI: stores still to be made, events sent, the last one's kind
  ui, events, last,
  \* the processor: its place, its locals, its unpark token
  pc, proc_pos, current, src_block, ls, le, token,
  \* the callback: whether it still sounds (gain > 0)
  sounding,
  \* history: the last frame taken for output, the epoch of the processor's
  \* cursor, the seeks made, and the loops published
  out, epoch, seeks, published

shared    == <<playing, samples, position, in_flight, seek_request,
               loop_start, loop_end, loop_active, drain_flag, ring>>
uivars    == <<ui, events, last, seeks, published>>
procvars  == <<pc, proc_pos, current, src_block, ls, le, token, epoch>>
cbvars    == <<sounding, out>>
vars      == <<shared, uivars, procvars, cbvars>>

-----------------------------------------------------------------------------
(* The UI.  An event is the sequence of stores it makes.                    *)

Store(where, what) == [where |-> where, what |-> what]

Unpark == Store("token", TRUE)

\* AudioHandle::set_playing
SetPlaying(on) == IF on THEN <<Store("playing", TRUE), Unpark>> ELSE <<Store("playing", FALSE)>>

\* AudioHandle::seek
SeekStores(p) == <<Store("seek", p), Store("position", p), Store("in_flight", 0), Unpark>>

\* DeckApp::seek_to: a seek out of the running loop leaves it first.
SeekTo(p) ==
  (IF loop_active /\ ~(loop_start <= p /\ p < loop_end) THEN <<Store("loop_active", FALSE)>> ELSE <<>>)
    \o SeekStores(p)

\* AudioHandle::load_samples, and the deck parking at a cue past the start.
LoadStores(t, cue) ==
  <<Store("playing", FALSE), Store("samples", t), Store("in_flight", 0),
    Store("position", 0), Store("seek", 0)>> \o (IF cue > 0 THEN SeekStores(cue) ELSE <<>>)

\* DeckApp::set_loop
LoopStores(lp) ==
  <<Store("loop_start", lp[1]), Store("loop_end", lp[2]), Store("loop_active", TRUE)>>

Send(kind, stores) ==
  /\ kind \in Panel
  /\ ui = <<>> /\ events < MaxEvents
  /\ events' = events + 1 /\ last' = kind
  /\ ui' = stores
  /\ UNCHANGED <<shared, procvars, cbvars, seeks>>

\* Any legal event may come next: PLAY, pause, a seek (needle, jump), CUE
\* previewing (seek, then play), CUE returning (pause, then seek), a load, a
\* loop armed or left.
UiEvent ==
  \/ Send("play", SetPlaying(TRUE)) /\ UNCHANGED published
  \/ Send("pause", SetPlaying(FALSE)) /\ UNCHANGED published
  \/ \E p \in 0 .. Length[samples] :
       /\ \/ playing /\ Send("seek", SeekTo(p))
          \/ Send("preview", SeekTo(p) \o SetPlaying(TRUE))
          \/ Send("return", SetPlaying(FALSE) \o SeekTo(p))
       /\ UNCHANGED published
  \/ \E t \in Tracks : \E cue \in 0 .. 1 : Send("load", LoadStores(t, cue)) /\ UNCHANGED published
  \/ \E lp \in Loops :
       /\ lp[2] <= Length[samples]
       /\ Send("loop", LoopStores(lp))
       /\ published' = published \cup {lp}
  \/ loop_active /\ Send("loop", <<Store("loop_active", FALSE)>>) /\ UNCHANGED published

\* The end of the track, seen by a frame: the cursor and what is heard are both
\* at the end, so the deck stops with a plain store.
FrameAtEnd ==
  /\ ui = <<>> /\ playing
  /\ position >= Length[samples] /\ position - in_flight >= Length[samples]
  /\ ui' = <<Store("playing", FALSE)>>
  /\ UNCHANGED <<shared, procvars, cbvars, events, last, seeks, published>>

\* The UI makes its next store.
UiStore ==
  /\ ui # <<>>
  /\ ui' = Tail(ui)
  /\ LET s == Head(ui)
         New(where, old) == IF s.where = where THEN s.what ELSE old
     IN  /\ playing' = New("playing", playing)
         /\ samples' = New("samples", samples)
         /\ position' = New("position", position)
         /\ in_flight' = New("in_flight", in_flight)
         /\ loop_start' = New("loop_start", loop_start)
         /\ loop_end' = New("loop_end", loop_end)
         /\ loop_active' = New("loop_active", loop_active)
         /\ token' = New("token", token)
         /\ IF s.where = "seek"
            THEN seek_request' = s.what /\ seeks' = Append(seeks, s.what)
            ELSE UNCHANGED <<seek_request, seeks>>
  /\ UNCHANGED <<drain_flag, ring, events, last, published, cbvars,
                 pc, proc_pos, current, src_block, ls, le, epoch>>

-----------------------------------------------------------------------------
(* The processor.                                                           *)

Goto(label) == pc' = label

\* Taking the seek request: the cursor moves, and belongs to the last seek made.
TakeSeek ==
  /\ seek_request' = None
  /\ proc_pos' = seek_request
  /\ epoch' = Len(seeks)

Top ==
  /\ pc = "top"
  /\ Goto(IF playing THEN "load" ELSE "pausedSeek")
  /\ UNCHANGED <<shared, uivars, cbvars, proc_pos, current, src_block, ls, le, token, epoch>>

\* Mutant of PausedSeek: a seek while paused waits for the next PLAY.
PausedSeekPending ==
  /\ pc = "pausedSeek"
  /\ Goto("park")
  /\ UNCHANGED <<shared, uivars, cbvars, proc_pos, current, src_block, ls, le, token, epoch>>

\* A seek while paused is honoured at once.
PausedSeek ==
  /\ pc = "pausedSeek"
  /\ IF seek_request = None
     THEN Goto("park") /\ UNCHANGED <<seek_request, proc_pos, epoch>>
     ELSE Goto("pausedPublish") /\ TakeSeek
  /\ UNCHANGED <<playing, samples, position, in_flight, loop_start, loop_end, loop_active,
                 drain_flag, ring, uivars, cbvars, current, src_block, ls, le, token>>

\* Mutant of PausedPublish: the position the UI stored is trusted to have stayed.
PausedPublishSilent ==
  /\ pc = "pausedPublish"
  /\ in_flight' = 0 /\ drain_flag' = TRUE
  /\ Goto("park")
  /\ UNCHANGED <<playing, samples, position, seek_request, loop_start, loop_end, loop_active, ring,
                 uivars, cbvars, proc_pos, current, src_block, ls, le, token, epoch>>

PausedPublish ==
  /\ pc = "pausedPublish"
  /\ position' = proc_pos /\ in_flight' = 0 /\ drain_flag' = TRUE
  /\ Goto("park")
  /\ UNCHANGED <<playing, samples, seek_request, loop_start, loop_end, loop_active, ring,
                 uivars, cbvars, proc_pos, current, src_block, ls, le, token, epoch>>

\* park_timeout: an unpark since the last park returns at once.
Park ==
  /\ pc = "park"
  /\ token \/ ParkTimeout
  /\ token' = FALSE
  /\ Goto("top")
  /\ UNCHANGED <<shared, uivars, cbvars, proc_pos, current, src_block, ls, le, epoch>>

\* The track is taken once per block; an empty deck idles like a paused one.
Load ==
  /\ pc = "load"
  /\ current' = samples
  /\ Goto(IF Length[samples] = 0 THEN "park" ELSE "seek")
  /\ UNCHANGED <<shared, uivars, cbvars, proc_pos, src_block, ls, le, token, epoch>>

Seek ==
  /\ pc = "seek"
  /\ IF seek_request = None
     THEN Goto("room") /\ UNCHANGED <<seek_request, proc_pos, epoch>>
     ELSE Goto("publishSeek") /\ TakeSeek
  /\ UNCHANGED <<playing, samples, position, in_flight, loop_start, loop_end, loop_active,
                 drain_flag, ring, uivars, cbvars, current, src_block, ls, le, token>>

\* Mutant of PublishSeek: the callback is not told to flush.
PublishSeekUnflushed ==
  /\ pc = "publishSeek"
  /\ position' = proc_pos
  /\ Goto("waitFlush")
  /\ UNCHANGED <<playing, samples, in_flight, seek_request, loop_start, loop_end, loop_active,
                 drain_flag, ring, uivars, cbvars, proc_pos, current, src_block, ls, le, token, epoch>>

PublishSeek ==
  /\ pc = "publishSeek"
  /\ position' = proc_pos /\ drain_flag' = TRUE
  /\ Goto("waitFlush")
  /\ UNCHANGED <<playing, samples, in_flight, seek_request, loop_start, loop_end, loop_active,
                 ring, uivars, cbvars, proc_pos, current, src_block, ls, le, token, epoch>>

\* Mutant of WaitFlush: the processor does not wait.
WaitFlushNever ==
  /\ pc = "waitFlush"
  /\ Goto("room")
  /\ UNCHANGED <<shared, uivars, cbvars, proc_pos, current, src_block, ls, le, token, epoch>>

\* The wait for the callback to have flushed (50 ms at most in the code, many
\* times a callback's period).
WaitFlush ==
  /\ pc = "waitFlush"
  /\ ~drain_flag
  /\ Goto("room")
  /\ UNCHANGED <<shared, uivars, cbvars, proc_pos, current, src_block, ls, le, token, epoch>>

\* Mutant of Room: at the end of the track in_flight freezes.
RoomFreezes ==
  /\ pc = "room"
  /\ Goto(IF RingLen - Len(ring) < BackPressure \/ proc_pos >= Length[current]
          THEN "top" ELSE "readStart")
  /\ UNCHANGED <<shared, uivars, cbvars, proc_pos, current, src_block, ls, le, token, epoch>>

\* Back-pressure, then the end of the track: no block is read, and at the end
\* what is left in the ring is published so that the UI can see it drain.
Room ==
  /\ pc = "room"
  /\ LET free == RingLen - Len(ring)
         ended == proc_pos >= Length[current]
     IN  /\ Goto(IF free < BackPressure \/ ended THEN "top" ELSE "readStart")
         /\ in_flight' = IF free >= BackPressure /\ ended THEN Len(ring) ELSE in_flight
  /\ UNCHANGED <<playing, samples, position, seek_request, loop_start, loop_end, loop_active,
                 drain_flag, ring, uivars, cbvars, proc_pos, current, src_block, ls, le, token, epoch>>

\* The loop's bounds are three separate loads.
ReadStart ==
  /\ pc = "readStart" /\ (Prompt => ui = <<>>)
  /\ ls' = loop_start
  /\ Goto("readEnd")
  /\ UNCHANGED <<shared, uivars, cbvars, proc_pos, current, src_block, le, token, epoch>>

ReadEnd ==
  /\ pc = "readEnd"
  /\ le' = loop_end
  /\ Goto("readBlock")
  /\ UNCHANGED <<shared, uivars, cbvars, proc_pos, current, src_block, ls, token, epoch>>

Span(from, to) == [i \in 1 .. to - from |-> from + i - 1]

\* Mutant of NextBlock: a wrapping block lacks the loop's head.
NextBlockHeadless(p, want, n, wraps, start, end) ==
  IF ~wraps
  THEN LET stop == IF p + want <= n THEN p + want ELSE n
       IN  [frames |-> Span(p, stop), next |-> stop]
  ELSE LET from == IF p >= end THEN start ELSE p
           over == from + want - end
           head == IF over <= end - start THEN over ELSE end - start
       IN  IF over > 0
           THEN [frames |-> Span(from, end), next |-> start + head]
           ELSE [frames |-> Span(from, from + want), next |-> from + want]

\* read_block: the frames of the next block, and the cursor after it.
NextBlock(p, want, n, wraps, start, end) ==
  IF ~wraps
  THEN LET stop == IF p + want <= n THEN p + want ELSE n
       IN  [frames |-> Span(p, stop), next |-> stop]
  ELSE LET from == IF p >= end THEN start ELSE p
           over == from + want - end
           head == IF over <= end - start THEN over ELSE end - start
       IN  IF over > 0
           THEN [frames |-> Span(from, end) \o Span(start, start + head), next |-> start + head]
           ELSE [frames |-> Span(from, from + want), next |-> from + want]

LoopHonoured(active, start, end, n) == active /\ end > start /\ end <= n

ReadBlock ==
  /\ pc = "readBlock"
  /\ LET looping == LoopHonoured(loop_active, ls, le, Length[current])
         block == NextBlock(proc_pos, Block, Length[current], looping, ls, le)
     IN  src_block' = block.frames /\ proc_pos' = block.next
  /\ Goto("checkSeek")
  /\ UNCHANGED <<shared, uivars, cbvars, current, ls, le, token, epoch>>

\* The progress store, unless a seek arrived during the block; the check and
\* the store are two accesses.
CheckSeek ==
  /\ pc = "checkSeek"
  /\ Goto(IF seek_request = None THEN "publish" ELSE "push")
  /\ UNCHANGED <<shared, uivars, cbvars, proc_pos, current, src_block, ls, le, token, epoch>>

Publish ==
  /\ pc = "publish"
  /\ position' = proc_pos
  /\ Goto("push")
  /\ UNCHANGED <<playing, samples, in_flight, seek_request, loop_start, loop_end, loop_active,
                 drain_flag, ring, uivars, cbvars, proc_pos, current, src_block, ls, le, token, epoch>>

\* The stretcher's output: at a slower speed a source frame lasts longer.
Stretched(frames, times) ==
  [i \in 1 .. times * Len(frames) |->
     [pos |-> frames[1 + (i - 1) \div times], epoch |-> epoch, track |-> current]]

\* Push what fits, then publish the decode-ahead distance.
Push ==
  /\ pc = "push"
  /\ \E times \in Repeats :
       LET made == Stretched(src_block, times)
           free == RingLen - Len(ring)
           fit  == IF Len(made) <= free THEN Len(made) ELSE free
       IN  /\ ring' = ring \o SubSeq(made, 1, fit)
           /\ in_flight' = ((RingDefault - (RingLen - Len(ring'))) % Word) \div times
  /\ src_block' = <<>>
  /\ Goto("top")
  /\ UNCHANGED <<playing, samples, position, seek_request, loop_start, loop_end, loop_active,
                 drain_flag, uivars, cbvars, proc_pos, current, ls, le, token, epoch>>

Processor ==
  \/ Top \/ PausedSeek \/ PausedPublish \/ Park \/ Load \/ Seek \/ PublishSeek \/ WaitFlush
  \/ Room \/ ReadStart \/ ReadEnd \/ ReadBlock \/ CheckSeek \/ Publish \/ Push

-----------------------------------------------------------------------------
(* The callback.  A buffer is one frame.                                    *)

Popped == /\ ring' = Tail(ring) /\ out' = Head(ring)

Flushed == ring' = <<>> /\ drain_flag' = FALSE

\* Playing: honour a flush, then take a frame, or be silent.
CallbackPlaying ==
  /\ playing
  /\ sounding' = TRUE
  /\ IF drain_flag
     THEN Flushed /\ out' = out
     ELSE UNCHANGED drain_flag /\ IF ring = <<>> THEN UNCHANGED <<ring, out>> ELSE Popped

\* Stopped, and the gain still falling: the ring is played down until the fade
\* is over, in this buffer or a later one; a flush waits for that.
CallbackFading ==
  /\ ~playing /\ sounding
  /\ out' = IF ring = <<>> THEN out ELSE Head(ring)
  /\ \E over \in BOOLEAN :
       /\ sounding' = ~over
       /\ IF over /\ drain_flag THEN Flushed
          ELSE ring' = (IF ring = <<>> THEN ring ELSE Tail(ring)) /\ UNCHANGED drain_flag

CallbackSilent ==
  /\ ~playing /\ ~sounding
  /\ drain_flag /\ Flushed
  /\ UNCHANGED <<sounding, out>>

Callback ==
  /\ CallbackPlaying \/ CallbackFading \/ CallbackSilent
  /\ UNCHANGED <<playing, samples, position, in_flight, seek_request,
                 loop_start, loop_end, loop_active, uivars, procvars>>

-----------------------------------------------------------------------------

\* A deck opened on a file plays, or has been parked by the start-up.
Init ==
  /\ samples \in Tracks /\ playing \in {FALSE, Length[samples] > 0}
  /\ position = 0 /\ in_flight = 0 /\ seek_request = None
  /\ loop_start = 0 /\ loop_end = 0 /\ loop_active = FALSE
  /\ drain_flag = FALSE /\ ring = <<>>
  /\ ui = <<>> /\ events = 0 /\ last = "none" /\ seeks = <<>> /\ published = {}
  /\ pc = "top" /\ proc_pos = 0 /\ current = samples /\ src_block = <<>>
  /\ ls = 0 /\ le = 0 /\ token = FALSE /\ epoch = 0
  /\ sounding = TRUE /\ out = None

UI == UiEvent \/ FrameAtEnd \/ UiStore

Next == UI \/ Processor \/ Callback

Spec == Init /\ [][Next]_vars

\* The operating system runs all three threads: the event loop finishes what it
\* has begun and draws frames, the processor never stops, the device keeps
\* asking for buffers.  Nobody has to press anything.
Fairness ==
  /\ WF_vars(UiStore) /\ WF_vars(FrameAtEnd)
  /\ WF_vars(Processor) /\ WF_vars(Callback)

FairSpec == Spec /\ Fairness

-----------------------------------------------------------------------------
(* Properties.                                                              *)

Frames == [pos : Nat, epoch : Nat, track : Tracks]

TypeOK ==
  /\ playing \in BOOLEAN /\ loop_active \in BOOLEAN /\ drain_flag \in BOOLEAN
  /\ token \in BOOLEAN /\ sounding \in BOOLEAN
  /\ samples \in Tracks /\ current \in Tracks
  /\ {position, in_flight, loop_start, loop_end, proc_pos, ls, le, epoch, events} \subseteq Nat
  /\ seek_request \in Nat \cup {None}
  /\ ring \in Seq(Frames) /\ Len(ring) <= RingLen
  /\ \A i \in 1 .. Len(ring) : ring[i].pos < Length[ring[i].track]
  /\ out \in Frames \cup {None}
  /\ epoch <= Len(seeks)

\* Audio from before a seek the processor has taken stays in the ring only while
\* a flush of it is owed: the listener never hears the old place again once the
\* callback has honoured the flag.
StaleAudioIsFlushed ==
  ~drain_flag /\ pc \notin {"publishSeek", "pausedPublish"} =>
    \A i \in 1 .. Len(ring) : ring[i].epoch = epoch

\* "WAIT for it to actually flush before pushing the first post-seek block.
\* Otherwise ... the transient is lost": a flush never throws away audio of the
\* place the deck has moved to.
NothingFreshIsFlushed ==
  [][drain_flag /\ ~drain_flag' => \A i \in 1 .. Len(ring) : ring[i].epoch < epoch]_vars

\* What is heard is the track: each frame again (a slow speed), the next one, or
\* the start of a loop the deck has published; or the first frame of a seek,
\* at its target or at the start of a loop that lies behind the target.
Follows(a, b) ==
  \/ b = a
  \/ b.pos = a.pos + 1
  \/ \E lp \in published : b.pos = lp[1] /\ a.pos + 1 >= lp[2]
StartsAt(b, target) ==
  \/ b.pos = target
  \/ \E lp \in published : b.pos = lp[1] /\ target >= lp[2]
HeardFollowsTheSource ==
  [][out' # out =>
       IF out # None /\ out'.epoch = out.epoch THEN Follows(out, out')
       ELSE StartsAt(out', IF out'.epoch = 0 THEN 0 ELSE seeks[out'.epoch])]_vars

\* Once a CUE return or a load has been carried out and the processor is parked
\* again, the audible position computed on screen is the one sought, and what is
\* in the ring starts there: the released CUE does not "stick on screen where the
\* preview stopped".
Quiescent == ui = <<>> /\ ~playing /\ pc = "park" /\ ~token /\ seek_request = None
ReturnSettles ==
  Quiescent /\ last \in {"return", "load"} =>
    position - in_flight = seeks[Len(seeks)] /\ proc_pos = position

\* No seek is lost: whatever the DJ does meanwhile, the processor's cursor comes
\* again and again to belong to the last seek made.
NoSeekIsLost == []<>(epoch = Len(seeks))

\* A deck nobody touches any more stops at the end of its track, unless a loop is
\* active.
StopsAtTheEnd == []<>(~playing \/ loop_active)
=============================================================================
