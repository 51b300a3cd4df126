# A verification project for freedj-3000

freedj-3000 is a DJ deck in Rust (`crates/`, 23 500 lines): a CDJ-style player
with CUE / PLAY keys, loops, slip, hot cues, a time-stretching audio engine, and
a Pro DJ Link stack that lets it follow or lead the tempo of other players, play
their tracks and be driven by a CDJ's own keys. This directory holds TLA+ modules
of the parts that keep state and have to get an order right, TLC configurations
that check them on small instances, and theorems that TLAPS proves for every
value of the constants.

Paths below are relative to `src/crates/` (`lib.rs` is `app/src/lib.rs`).
`PROJECT.json` maps every definition to the lines it translates, and lists the
runs, the mutants that show each property can fail, the findings, the hazards and
the theorems.

## 1. The system

One process. The **UI thread** (`app/src/lib.rs`, winit or SDL) turns keys,
touches, MIDI, I2C and LAN HID messages into control events, applies each one
whole in `DeckApp::apply`, and draws frames in `render`. It owns the deck's
state. It talks to everything else through atomics and channels:

```
 surface threads ──▶ event_rx ─┐
 (I2C, MIDI, LAN HID)          ▼
 keys, touch ─────▶ DeckApp (UI thread) ──atomics──▶ processor thread ──ring──▶ device callback
                       │   ▲   ▲                     (decode, stretch)          (real time)
           track-load  │   │   │ LinkState (atomics)                                ▲
             threads ◀─┘   │   ▼                                        audio-dev (supervisor)
     mediaserver's    prodj-tx (sender)   prodj-rx-50000/50001/50002 ◀─UDP─▶ other decks
     analysis thread  dbserver / NFS clients and servers ◀─TCP/UDP─▶ other decks
```

| Component | State it keeps | Operations | What makes it correct |
|---|---|---|---|
| CUE / PLAY rules, `transport` | cue point, `cued`, `preview` | play, play_pause, cue down / up, searched, arrived_at_cue | `cued` is never a lie; a preview ends when its key is released or PLAY latches it |
| Deck controller, `DeckApp` | transport, memory and hot cues, loop, slip anchor, platter and waveform holds, modes | one arm of `apply` per control event, loads, the end of the track | implements the rules on every path that moves the playhead; slip lands where the track would be |
| Touch console, `screen.rs` | page, screen, fingers, the pointer's drag | landing, dragging, lifting, swiping, keys | nothing is held by nobody |
| Frame loop, `lib.rs` | redraw requested, timer, rate, background | events, redraws, `about_to_wait` | every event gets its frame; the background rests |
| Startup and settings | settings.json, player number | launch, park, MENU | the deck comes up as asked |
| Audio engine, `audio.rs` | position, in_flight, seek request, flush flag, loop bounds, ring, gain | UI: set_playing, seek, load; processor: one block per pass; callback: one buffer; supervisor: a new stream | what is heard is the track; no seek is lost; nothing stale is heard and nothing fresh is thrown away; silence when stopped |
| Tempo, `lib.rs` and `prodj.rs` | speed and fader_speed, the bend, SYNC's nudge | fader, jog, SYNC | a bend that ends leaves no bend; the deck runs at its fader's tempo unless loads and stores crossed |
| Beat grids, `grids.rs` | anchor, number of its beat, grids.json | nudge, snap, shift, reset | the numbering moves with the grid |
| Link master role, `prodj.rs` | master, want, handoff_to, yielded_from, master_player, counters, peers, the sender's timers | announces, requests, agreements, status, timeouts | one master at a time, never none; a press is answered |
| Link beats and interfaces, `prodj.rs` | the row, last beat per player, the interface, the sockets | beat packets, twin filter, announces | a beat counts once and goes out where the players are |
| Background loads | name and channel of the load in flight, play-on-load | start_fetch, poll_fetch, apply_prepared | the latest load wins, whole |
| Remote database, NFS, media server | connections, transactions, pending rows, the analysis cache | queries, rendering, windowed reads, analysis | a list is one menu; a file is whole; the cache is of the file |
| Surfaces: MIDI, I2C | debounce, SHIFT, holds, lamp | edges to events, plugging | every hold has its release; the lamp follows |
| LAN HID | handshake, previous report, jog carry | announce, exchange, reports | the unit comes in; no key, turn or fader position is lost |
| Browser, tag list | stack, rows, selection, export, tags | navigation, media scan, add / remove | nothing of a stick that is gone |
| Analysis, decode, time-stretch, drawing | buffers | signal processing, pixels | not modelled (section 7) |

What is hard here: three threads over plain atomics without a lock (a seek is
two stores, a loop three, a load five); flags that are checked in one place and
acted on in another; keys with two edges whose release may belong to a different
mode, page or connection than the press; caches (`cued`, `slip_anchor`,
`in_flight`, `yielded_from`, `handoff_to`, the analysis records, the lamp) of
facts that change elsewhere; UDP with timers that every deck counts for itself;
files written in place. `PROJECT.json` lists each hazard at the line where it
bites, with the properties that would catch it.

## 2. Plan

Done: the rules and the controller (`Transport`, `CuePlay`, `Deck`), the audio
threads (`AudioEngine`), the tempo master (`LinkMaster`), loads and what they read
from (`TrackLoad`, `RemoteDb`, `NfsRead`), tempo and beats (`TempoFollow`,
`BeatRow`, `LinkRoute`), what hands reach (`Console`, `Surface`, `LanHid`,
`GridAdjust`, `Browser`), and what carries it all (`FrameLoop`, `DeviceStream`,
`Startup`).

Left to model: `Deck` driving `AudioEngine` (a drag starts from the decoder's
cursor); the answers to media queries; the sample-rate conversion of a load.

Proved: every safety invariant and action property the passing runs check (section 6).
Left to prove: safety cores of `Surface` and `DeviceStream`, whose properties are
temporal (a hold on the deck is of a pressed key, a flag of a dead stream is
cleared), and of the tempo master among decks that come and go more than once, where
section 6 says what is false.

Composition: `Deck` uses `Transport` and implements `CuePlay`; `Console` uses
`Transport`; `AudioEngine` takes the shapes of its store sequences from the arms of
`apply`; `TrackLoad` composes the loader threads with the media server's analysis
over one cache; `RemoteDb`, `NfsRead` and `LanHid` compose both ends of their
connection; `TempoFollow` composes the UI thread and the Link sender over their
two atomics.

## 3. Modules

A run per module would be a run without a question of its own. Modules that share
no state are checked together: `MCHands`, `MCPanel` and `MCRemote` extend several
of them, `part` says which one a behaviour is about, and the others stay in one
fixed initial state. The state space is the sum of the parts' and not their
product, and a property of one part holds trivially of the others.

### Transport, CuePlay, CuePlay_proof

`Transport` is `transport/src/lib.rs` function by function: an operator
takes what the transport remembers and what it is told, and returns a
`Result` (next state, outcome for the deck).

`CuePlay` is the deck of `transport/tests/specs.rs`: the rules over an
ideal playhead, with both edges of CUE, PLAY, a needle search, a placement on a
cue (memory point, load), AUTO CUE and playback. It is the abstract
specification of the keys. `held` is history: it remembers whether the press of
CUE being held started a preview. The positions are `0 .. Length`, one frame per
step of playback.

### Deck

`DeckApp::apply`, one action per control event, whole: what a helper it calls
does (`seek_to` cancels slip and leaves a loop the target is outside of,
`lock_in_play` latches, `apply_transport` pauses, seeks, plays) is part of the
action. `Advance` is a frame of playback (`render` follows the audio clock; the
loop wraps), `EndOfTrack` the stop at the end. Inputs that only matter by where
they land (jog ticks, waveform drags, needle positions) choose any position of
the track. `Panel` names the controls a run uses. `unlooped` is history: where
the track would be had no slip action run; it is what `slip_shadow` must equal.
`KeepsThePromise` is the refinement: with the keys, the strip, memory points,
AUTO CUE and loads, `Deck` implements `CuePlay` (`held <- cue_key`). `Deck_proof`
holds the proofs of its types and safety, `DeckPromise_proof` that of the
refinement (section 6).

### Console

The phone's two pages under two fingers: `screen.rs`'s hit tests reduced to
which widget a finger landed on. The first finger is egui's pointer and drags;
the others reach PLAY and CUE only, by `second_touches`. `Lift`, `Land`, `Swipe`
and the keys of the preview window end with what the frame does: a drag whose
widget is no longer drawn is dropped (`KeptDrag`), and `release_held_controls`
(`LetGo`) runs where the code calls it. The deck underneath is `Transport` with
the platter's and the waveform's holds.

### Browser

The stack of places and the rows `rebuild` gives for the last one, over mount
points that hold nothing or an insertion (a number, so that a swapped stick is
another stick). `PollMedia` is the scan a second; `export` is the one rekordbox
export kept in memory with the insertion it was read from (history). Names are
left out: a row is where it leads. The tag list is here for its bound and its
relaunch.

### FrameLoop

`about_to_wait`, `RedrawRequested`, `Occluded` and the SDL loop, for every
combination of idle pacing, hybrid pacing, platform and a compositor that may
hold its callbacks back (`Hosts`). `due` is an event another thread sent, which
waits for a frame; `late` that the frame period has passed.

### Startup

Launches on one device: `run` stage by stage up to the parked deck, `Settings`
with its `seed` generation, the MENU that saves, and a power cut in a save. The
player number stands for the settings. `choice` is history: what the user chose
and the file still says.

### AudioEngine

Three threads, one step per store of the UI and per group of accesses of the
processor between which another thread can be seen:

| Label (`pc`) | Code (`processor_loop`) |
|---|---|
| top, pausedSeek, pausedPublish, park | the paused branch: take a seek, publish, flag a flush, park |
| load | `samples.load` |
| seek, publishSeek, waitFlush | take a seek, publish, flag a flush, wait for it |
| room | back-pressure; the end of the track |
| readStart, readEnd, readBlock | the loop's bounds, one load each; `read_block` |
| checkSeek, publish | the test for a new seek; the progress store |
| push | the stretcher's output into the ring, `in_flight` |

The ring holds source frames tagged with the seek ("epoch") they were read
under, history from which the properties speak. The stretcher is its ratio
(`Repeats`). `in_flight` is computed modulo `Word` as the code's unsigned
arithmetic does.

Assumptions, each a constant or a comment in the module: a callback is one
step (its `try_lock` never fails, its flush is over before the processor has
stretched a block) and hands out one frame; a parked processor wakes by token
or, with `ParkTimeout`, by its 50 ms timeout; the wait for a flush outlasts a
callback period (the stream is alive). With `Prompt` the few stores of one UI
event are over before the processor begins its next block; runs that need it say
so below, and section 5 says what happens without.

### DeviceStream

The other side of the ring, without `AudioEngine`'s assumption that the stream
is alive: the callback's fade and flush with buffers of any size of `Buffers`
(`gain` in steps of the fade), the processor's flush wait that gives up, the
supervisor thread that polls a failure flag and builds the stream again, refused
or not, and the end of the handle. Blocks are counted, not told apart. This is
the Linux build; elsewhere nothing builds a failed stream again.

### TempoFollow, BeatRow, LinkRoute

`TempoFollow`: the two atomics `fader_speed` and `speed` and everybody who stores
them. A thread computes what it stores from what it has loaded, and the other's loads
and stores fall anywhere in between: the UI's event from its load to its last store,
the sender's pass from its load of the fader (`LoadFader`, at the top of the pass) and
of SYNC and the master's tempo (`LoadSync`) to its stores. `crossed` is history: whether
the last to compute did so while the other still had to store; section 5 says what the
deck does then (`RunsAtItsFader`).

`BeatRow`: one peer's sender, copies of a beat under way for up to `Held` ticks,
`beat_is_twin`, and the row drawn from four atomics. Time is ticks of 50 ms.

`LinkRoute`: `link_interface`'s score over interfaces that get, lose and fall back
on addresses, players that move, and sockets that a suspension kills.

### LinkMaster

Decks on one network, all running this code. `link[p]` is the shared
`LinkState`, `timer[p]` what the sender counts from. A section of the sender's
pass (silent master, handoff, status, announce) is an action, as is each
packet a listener hears (`HearAnnounce`, `HearRequest`, `HearAgree`,
`HearStatus`). Packets: a set for the beat port, a queue per pair of decks for
the status port; `LosePacket` drops any of them.

Time is a `Tick` of one status period (200 ms). The sender passes at least every
100 ms, so a tick waits until nothing is due and nothing is on its way
(`Settled`): a packet arrives within the tick or is lost. `RequestEvery`,
`AnnounceEvery`, `WantWait`, `MasterGone` are the code's 1 s, 1.5 s, 2 s, 5 s
shrunk with their order kept (`AnnounceEvery + 1 < WantWait < MasterGone`: an
announce, a status in answer to it, and both before MASTER gives up waiting).
The loads and stores inside one section are taken together; they are
microseconds apart on a state other threads write every 200 ms.
An announce changes nothing at a deck that knows the sender, so only the others
get one.

### TrackLoad, RemoteDb, NfsRead

`TrackLoad`: loads numbered in the order they were asked for, each a thread that
fetches or decodes, looks the analysis cache up, analyses and stores; the frame
loop that takes the result of the newest; the media server's thread over the same
cache; files that are replaced; restarts that leave records half written. A
track's content is its path and version, and everything derived from it is
tagged with that.

`RemoteDb`: the browser's pane, the client's request (`menu`, then `render`), the
stream, the server's pending rows, and its library changing under it.

`NfsRead`: the calls that lead to a file handle, then `read_file`'s window. The
network loses, delays and reorders. Sessions follow each other with the same
transaction ids, as `Nfs::connect_with` starts them; `SamePort` would let the
datagrams of one reach the next. A window is a hash map in the code, so what is due
again is sent in any order.

### GridAdjust, Surface, LanHid

`GridAdjust`: `shift` and `snap_to` in whole frames, with the store and the
sender's copy.

`Surface`: an I2C board (sampled and debounced) or a MIDI controller, the mapper
with SHIFT and what each press fired (`held`), the lamp, the cable. `Valid` is the
file's validation: the run starts from the files it accepts. What can fail: a transfer
on a board's bus, after which the board is opened again (`BusFails`); the LED output of
a MIDI port, which is not asked for again while the port is there (`OpenPort`); a MIDI
send, which is recorded as written (`Refresh`). `missed` is history: the lamp's last
write was refused or lost. `LampFollowsTheDeck` is about the other times.

`LanHid`: a session over the stream socket. The unit is external and written from
what the code expects of it: it announces, answers stages 0x12 and 0x14, reports
its controls. `JogScaler` is exact integer arithmetic over a counter that wraps. Keys
are told on both edges (`Momentary`) or when pressed (`PressOnly`); of the latter
TEMPO RESET moves the deck's tempo off the fader, to the middle, so the deck's tempo is
the fader's only since the fader moved last (`recentred`, history). What a key does that
was down in a session's first report is left open by `DeckFollowsTheUnit` (`early`,
history): the doc and the code disagree about it (section 5).

### The proof modules

| Module | Proves about |
|---|---|
| CuePlay_proof | `CuePlay`, over `Transport` |
| Deck_proof, DeckPromise_proof | `Deck`; that it implements `CuePlay` |
| AudioEngine_proof | `AudioEngine` |
| Hands_proof | `Console`, `Startup`, `Browser` |
| Panel_proof | `TempoFollow`, `BeatRow`, `LanHid`, `GridAdjust` |
| Remote_proof | `NfsRead`, `RemoteDb`, `LinkMaster` |
| TrackLoad_proof | `TrackLoad` |

Components that share no state share a module there as they share a run.

## 4. Runs

Every property has at least one mutant in `PROJECT.json`: a small bug in a mapped
definition under which the same run fails.

| Run | Instance | Shows |
|---|---|---|
| MCHands | keys: a track of 4 frames; console: two fingers; browser: two sticks, one with an export, one peer; frame loop: every host; startup: two launches, two saves | `CuedIsHonest`, `ReleaseReturnsOrNothing`; `HeldHasAFinger`; `NothingOfAGoneStick`; `DrawnWhileInFront`, `BackgroundRests`; `StartsAsAsked` |
| MCDeckPromise | one track; keys, strip, memory, AUTO CUE, load | `Deck` implements `CuePlay` (`KeepsThePromise`); `PreviewReturns` |
| MCDeckTouch | two tracks; platter, waveform, phone page, SLIP, hot cue, PAUSE, load, QUANTIZE | `CuedIsHonest` through holds and lifts |
| MCDeckLoops | loops, reloop, slip, beat jump, hot cue | `RunningLoopHoldsPlayhead`, `SlipExitLandsOnTheTrack` |
| MCAudioSeeks | track of 4, block 2, ring 5, two speeds; seeks, a loop halved and doubled, pause, load | `StaleAudioIsFlushed`, `NothingFreshIsFlushed`, `HeardFollowsTheSource` |
| MCAudioEnd | track of 3, ring 3, all transport events (previews, returns, loads), fair, `Prompt` | `ReturnSettles`, `NoSeekIsLost`, `StopsAtTheEnd` |
| MCLink | a deck switched on beside a settled master; 2 presses of MASTER, SYNC or a control from another device, 1 packet lost, 2 power switches, fair | `OneMaster`, `NeverMasterless`, `NewestCounter`, `MasterIsAnswered`, `MasterBecomesKnown`, `GroupKeepsAReference` |
| MCRemote | files of 2 blocks read in two sessions; a library of 3 tracks browsed over 4 lists; one local and two linked tracks loaded; two interfaces, two players | `FileIsWhole`, `LossIsRepaired`; `ListIsOneMenu`; `OneTrackOnDeck`, `NewestLoadWins`, `LoadingEnds`, `CacheIsOfTheFile`; `BeatsReachThePeer` |
| MCPanel | grid of 4 frames a beat; two tempos, one bend, one nudge; one peer for 16 ticks; three surface files, two keys, four presses, one fault; a fade of 12 frames, buffers of 3, 5 and 20; a CDJ with CUE, TEMPO RESET and a fader of three places | `NumberingMovesAlong`; `BendsComeBack`; `BeatCountsOnce`; `HoldsEndWithTheirKeys`, `LampFollowsTheDeck`; `DeviceFollowsTheDeck`; `DeckFollowsTheUnit`, `UnitComesIn` |

**Bounds.** The tracks are a few frames: enough for a cue past the start, a loop
strictly inside the track, a beat on and off the grid, a block that wraps, one
that ends at the end and a ring that fills. Two UI events reach every pair of
overlapping operations (a seek during a seek, a pause during a loop, a load
during a preview); the threads are otherwise unbounded. In `LinkMaster` two decks
(three in DocTwoGrants) and a bounded number of presses, power switches and lost
packets; time is unbounded. Two loads are a load and the one that supersedes it; a
file replaced once has two versions and a restart leaves one record torn; two
blocks in a window of two are answered in either order, and one lost datagram is
less than either number of sends. Four lists are an artist menu, its artist and the
way back while analysis renames twice. In `BeatRow` a beat is 6 ticks and a twin 2
(300 ms and 100 ms at 50 ms a tick). The fade of 12 frames ends inside a buffer of
20, between buffers of 3 and inside the third of 5. The platter's counter of 16
wraps at the third turn of 7, and 3/8 leaves a carry. Debounce 2 with one misread
sample is a bounce shorter than the debounce. The first finger is the pointer and a
second is any other, so two fingers do. The fader's three places are its ends and the
middle, where TEMPO RESET puts the tempo. One fault is a refused LED output, a lost send
or a failed transfer, each with an unplugging before or after it.

`CHECK_DEADLOCK FALSE` where the modelled world may stop: in `MCAudioSeeks` and
`MCAudioEnd` a paused deck with all events spent may rest; in the three sums a
part may have used up what its bounds allow (files read, lists visited, ticks,
presses, launches).

**Fairness**, each no more than threads that run and timers that fire:
`AudioEngine`: the event loop finishes the stores it has begun and draws frames,
the processor thread runs, the device asks for buffers. `LinkMaster`: threads and
time do not stop (weak fairness of `Runs`); a tick waits for all that is due, so
no sender starves. `TrackLoad`: the loader threads run, and the frame loop polls.
`LinkRoute`: listener and sender threads run, and players announce themselves.
`Surface`: its thread polls, notices, opens and refreshes. `DeviceStream`: a live
device asks for buffers, a dead one reports, the processor and the supervisor run.
`LanHid`: the session and the unit answer and report; strong fairness only for the
unit's own announcing, which goes on for as long as it is not in. `FrameLoop`: the
event loop runs its handlers and timers, and a compositor that is not held back
calls. Nobody ever has to press a key, plug a cable or restart anything.

## 5. Findings and observations

Three runs check a property that quotes the repository and find it violated:

| Run | What the code does |
|---|---|
| DocBeatJump | a beat jump never calls `searched`: a paused, cued deck stays cued away from its cue (`lib.rs:752`) |
| DocPausedSeek | the paused seek does not wait for its flush: a preview's first block can be flushed (`audio.rs:688`) |
| DocTwoGrants | two requests within a status period are both granted and both taken: two masters (`prodj.rs:535`) |

Other behaviours met while modelling, that a team may want to look at. The
modules have the steps they take; where a constant keeps a run clear of one, it is
named, and setting it the other way shows the behaviour.

**Deck and console**

- RELOOP on a paused, cued deck leaves it cued away from its cue, as a beat jump
  does (`lib.rs:934`). So does a desktop deck that boots playing (`Boot =
  "autoplay"`): `cued` is true, PAUSE keeps it, CUE previews the load cue.
- Touching and lifting the platter in VINYL during a preview latches it:
  releasing CUE keeps playing (`lib.rs:569`).
- LOOP IN ends a slip loop without ending its shadow (`lib.rs:918`); a load keeps
  the old track's loop and slip anchor (`lib.rs:1471`).
- Tab flips the page without `release_held_controls` (`lib.rs:1526`), Enter's
  release is delivered only on the playback screen (`lib.rs:1514`), and B or LOAD
  changes the screen under a grabbed waveform: each leaves something held by nobody
  (`StrayKeys`).
- A track that arrives while the platter stops the old one keeps
  `jog_hold_resume`: lifting the platter starts the new track. PLAY pressed twice by
  a second finger under a held platter is undone by the lift.
  `release_held_controls` lets go of no pad, and `HotCueRelease` has no arm in
  `apply`.
- Fingers lifted while the app is in the background keep a preview until it is
  drawn again.
- SHIFT GRID numbers the nearest beat by where the anchor was before the move; when
  the move wraps the anchor the cue does not become beat 1 (`CueBecomesBeatOne`,
  `grids.rs:39`). `CueIsBeatOneUnlessWrapped` proves that nothing else keeps it from
  that. `grids.json` is keyed by path alone: another stick with the same
  path gets the first one's grid.

**Audio**

- `in_flight` is computed from the default ring length whatever the ring's
  (`audio.rs:845`; `RingLen # RingDefault` in `AudioEngine`).
- The loop's bounds are loaded separately: a block read while `set_loop` moves
  both may wrap between two loops, or to 0 as the first loop is set (`audio.rs:782`;
  `Loops <- Elsewhere`).
- A loop that ends at the end of the track stops looping when a block ends
  exactly there (`audio.rs:773`; `Loops <- OddLength`).
- The progress store can overwrite the position of a seek made since its check
  (`audio.rs:794`), and a seek's late position store can hide the end of the track
  for good (`audio.rs:182`); `Prompt` excludes both.
- The buffer in which the fade ends is silenced from its start (`audio.rs:491`).
- A stream rebuilt while paused sounds what the ring held for the length of a fade;
  on other platforms than Linux a failed stream is never rebuilt; the wait for a
  flush gives up after 50 ms, so a dead stream's flag empties blocks pushed since
  when a new stream comes up (`audio.rs:737`).

**Tempo, Link**

- SYNC switched off loads the fader's speed (`lib.rs:802`) and may store it after a pass
  of the sender, with SYNC loaded before, has moved fader and speed to the master's
  tempo (`prodj.rs:990-991`): the deck runs on off its fader, against "keep the tempo we
  ended on" (`lib.rs:801`). So it does when the fader's two stores (`lib.rs:776`) or the
  load and store of the jog's snap-back (`lib.rs:1982`) or of a nudge's end
  (`prodj.rs:1017`) fall around the other thread's; until the next store of either.
  `RunsAtItsFader` is the claim that it never does; TLC refutes it on `TempoSpec`. No bend
  stays in the speed: it is a tempo the fader had for one of the two (`BendsComeBack`).
- A copy of a beat held back longer than `TWIN_MS` counts as a second beat
  (`Held = 4`; `prodj.rs:280`).
- Two decks without a master, both pressed, become two masters for good
  (`prodj.rs:944`); two synced decks both promote themselves when their master
  vanishes (`prodj.rs:931`); a requester whose grant was overwritten never asks
  again (`prodj.rs:963`); a deck granted the role, switched off and on again takes
  it without a press (`prodj.rs:662`); BECOME_MASTER to a deck that is master leaves
  a wish that asks for the role back when next it is lost (`prodj.rs:559`).
- With three decks one lost packet can leave the network without a master for
  `WantWait` (`prodj.rs:662`, `NeverMasterless` with `Players = {A, B, C}`,
  `Panel = {"master"}`, three presses, `MaxLosses = 1`; 27 steps): the status in which
  the next master learns that it is named is lost, an older claim of a deck that has
  just been granted the role is still under way and is taken for its claim on the new
  grant, so the old master drops the role before anyone has it.
- A deck that joins and loses both of its first announces takes the role after
  two seconds: the master sends its status only to decks it has heard of.
- `link.peers` is never pruned: a player that left holds the beats on its interface
  while another is elsewhere (`Leaving`); two link-local interfaces are one subnet
  to `link_interface`, which takes the first (`Locals`).

**Loads, browser, startup**

- A file replaced while it is analysed is cached under its new key with the old
  one's analysis (`ReplaceInUse`; `mediaserver/src/lib.rs:221`).
- Transaction ids start at the same number in each NFS session, and a reply's source
  is not checked: with the same local port a late block of the last file would be
  taken (`SamePort`; `nfs/src/lib.rs:243`).
- The browser keeps its dbserver session per slot: one that broke, or that late
  answers left out of step, is taken again when the slot is entered and answers
  nothing, until another slot's session replaces it (`EnteredShowsMenu`;
  `browser.rs:399` against `docs/reference/prodj-link-media.md:103`).
- A stick swapped between two scans keeps the first one's export (`FastSwap`); one
  inserted above shifts the rows under the selection; the root folder of a stick
  stays when the stick goes.
- The re-seeding of player 3 also changes the number of a user who chose it
  (`settings.rs:79`). Settings, tags and grids are written in place: cut short, they
  are defaults at the next launch. A deck whose cue is at 0 is not parked: it stays
  some blocks into the track (`lib.rs:2678`).

**Frame loop, surfaces**

- With idle pacing on, as it is on iOS, the hybrid pacer's net is never armed at the
  idle rate: a compositor that stops calling stops the UI (`lib.rs:2377`; `Hosts`
  excludes late with idle).
- A key let go while its surface is unplugged stays pressed on the deck (`gone`); a
  controller back before the thread noticed is dark until its lamp changes
  (`FastReplug`; `midi.rs:8`).
- A MIDI controller that was refused its LED output is connected without one, and it
  is not tried again: its lamp stays dark until the port goes away and comes back
  (`midi.rs:86-98`). A send that fails is only logged and the lamp taken for written:
  it stays wrong until the indicator changes again and that send gets through, or the
  port goes away (`midi.rs:116-117`). `missed` holds in both cases.
- A key that is down in a session's first report is pressed on the deck
  (`link/src/lanhid.rs:279` suppresses only releases), so CUE held while the unit connects
  previews or sets the cue; the doc says that "the first report after construction only
  seeds state (no spurious press edges)" (`link/src/lanhid.rs:263-265`).
  `FirstReportSeeds` is that claim, and TLC refutes it on `HidSpec`.
- After TEMPO RESET on a CDJ the deck's tempo and the unit's fader differ until the
  fader moves (`surface/lanhid.rs:116`). `lanhid_auth.rs` restarts the exchange at any
  reset, but the session drops handshake frames once established (`UnitRestarts`). Keys held when a
  session ends stay held (`orphans`).

The passing runs exclude what these need: MCDeckPromise and MCDeckTouch have no
beat jump and no loop, MCDeckTouch checks no `PreviewReturns`, MCDeckLoops has no
load, the loops of MCAudioSeeks share their start and end before the track, a
deck that plays is sought only while it plays, MCLink has two decks and one lost
packet, and the constants named above are set to leave the rest out.

## 6. Proofs

Each theorem is for every value of the constants that meets the assumptions and the
hypotheses: every track length, number of loads, sticks, fingers, blocks, library,
clock, and every bound on presses, losses and faults, so for unbounded behaviours.

| Module | Theorem | Statement | Hypotheses |
|---|---|---|---|
| CuePlay_proof | `TypeCorrect` | `Spec => []TypeOK` | |
| | `CuedHonest` | `Spec => []CuedIsHonest` | |
| | `PreviewHeld` | `Spec => []PreviewIsHeld` | |
| | `ReleaseReturns` | `Spec => ReleaseReturnsOrNothing` | |
| | `CueMoves` | `Spec => CueMovesOnlyAtRest` | |
| Deck_proof | `TypeCorrect` | `Spec => []TypeOK` | |
| | `CuedHonest` | `Spec => []CuedIsHonest` | no loop keys, no beat jump; the deck does not boot playing |
| | `PreviewComesBack` | `Spec => PreviewReturns` | no platter, no waveform |
| | `RunningLoopHolds` | `Spec => RunningLoopHoldsPlayhead` | no loads |
| | `SlipExitLands` | `Spec => SlipExitLandsOnTheTrack` | no loads |
| DeckPromise_proof | `DeckKeepsThePromise` | `Spec => KeepsThePromise` | the ideal deck's controls; tracks of one length, their points on them; the deck does not boot playing |
| AudioEngine_proof | `StaleIsFlushed` | `Spec => []StaleAudioIsFlushed` | |
| | `FreshIsKept` | `Spec => NothingFreshIsFlushed` | no PLAY, no preview |
| | `TrackIsHeard` | `Spec => HeardFollowsTheSource` | no PLAY, no preview; loops begin at 0 |
| | `ReturnsSettle` | `Spec => []ReturnSettles` | `Prompt`; `RingDefault = RingLen < Word`; no loops |
| TrackLoad_proof | `LoadOrder` | `LoadSpec => []OrderInv` (types, and loads numbered as asked) | |
| | `NewestWins` | `LoadSpec => NewestLoadWins` | |
| | `OneTrack` | `LoadSpec => []OneTrackOnDeck` | no `ReplaceInUse` |
| | `CacheIsTrue` | `LoadSpec => []CacheIsOfTheFile` | no `ReplaceInUse` |
| Hands_proof | `NothingHeldByNobody` | `ConsoleSpec => []HeldHasAFinger` | no `StrayKeys` |
| | `ComesUpAsAsked` | `StartSpec => []StartsAsAsked` | |
| | `NothingOfTheGone` | `BrowserSpec => []NothingOfAGoneStick` | no `FastSwap` |
| Remote_proof | `FileWhole` | `NfsSpec => []FileIsWhole` | no `SamePort` |
| | `OnlyLossesFail` | `NfsSpec => []LossIsRepaired` | no `SamePort` |
| | `ListsAreOneMenu` | `DbSpec => []ListIsOneMenu` | |
| | `LinkTypeCorrect` | `Spec => []LinkType` | |
| | `OneMasterOfTwo` | `Spec => []OneMaster` | `TwoDecks` |
| | `NeverMasterlessOfTwo` | `Spec => []NeverMasterless` | `TwoDecks` |
| | `NewestCounterOfTwo` | `Spec => NewestCounter` | `TwoDecks` |
| Panel_proof | `SpeedComesBack` | `TempoSpec => []BendsComeBack` | |
| | `CountedOnce` | `BeatSpec => []BeatCountsOnce` | `Held < Twin` |
| | `FollowsTheUnit` | `HidSpec => []DeckFollowsTheUnit` | |
| | `WrapIsSeen` | the difference of two counters is the turn between them | a turn of less than half the counter |
| | `NumbersMoveAlong` | `GridSpec => NumberingMovesAlong` | |
| | `CueIsBeatOneUnlessWrapped` | SHIFT GRID makes the cue beat 1 | the move does not wrap the anchor |

**What the hypotheses leave out** is what breaks the property, and section 5 names it.
On the panel of a `Deck_proof` theorem it is the controls with a handler that breaks
it; of `DeckKeepsThePromise`, every control the ideal deck does not have.
`ReplaceInUse`, `StrayKeys`, `FastSwap`, `SamePort` and `Held` are the
constants of section 5 that let in a file replaced under its reader, keys that turn a
page under a finger, a stick swapped between two scans, a socket that gets another's
port, a datagram late by more than `TWIN_MS`.
`TwoDecks`: two decks, one of them master. The other is on too, or is switched on once;
when one is switched off they do not meet again. Fewer packets are lost than ticks to
forget a master and, if a deck joins, than announce periods in the wait of a deck that
wants the role and knows of no master. `MCLink` checks an instance of it: one deck
joins, two switches, one loss. With a third deck `OneMaster` is false (`DocTwoGrants`)
and so is `NeverMasterless`; two decks that part and meet again can stand without a
master and both take the role.

The audio hypotheses are those of the runs `MCAudioSeeks` and `MCAudioEnd`. A loop
that begins past 0 breaks `HeardFollowsTheSource`: its bounds are loaded one by one, and
a block read with the start from before `set_loop` wraps to that (section 5). A deck
that plays may be paused, sought, looped, loaded; started again, its first block can be
flushed (`DocPausedSeek`). `ReturnSettles` is about a deck whose loop is off.

**Assumptions on the constants**, each evaluated by TLC in the runs of its module. Most
say that a constant is a number, a set or a Boolean; those that say more:
`NoneAssumption` and the like (None is no number, no finger, no report, no player: it
stands for `Option::None`), `TrackAssumption` (every track has a length, a beat period,
points), `LongestAssumption` (one of the tracks is the longest; it holds of any finite
set of them that is not empty), `BeatAssumption` of `Deck` (pads and jumps are whole
half beats and beats), `AudioAssumption` (a stretched block fits in the ring's back
pressure), `DbAssumption` (the analysis adds no track to the library),
`BrowserAssumption` (a mount point is named like no other place), `LanHidAssumption` (a
platter turns less than half its counter between two reports; TEMPO RESET is a key that
acts when pressed), `TempoAssumption` (a
bend of 0 is none), `LinkAssumption` (who is absent or synced at the start is not the
master), `GridAssumption` (a detent is no longer than a beat).

### The arguments

**`CuedIsHonest`** is not inductive: PAUSE keeps `cued`, so from a state where the
deck plays, is cued and is away from its cue, one step breaks it. The inductive
invariant adds `CuedStandsStill` (a cued deck outside a preview stands still),
which every start of playback keeps because PLAY clears `cued` and a preview is
not "outside a preview". In `CuePlay_proof` it is `IInv`, with `PreviewIsHeld`,
which the release needs; in `Deck_proof` it is `Honest`, over the type invariant
(the clamp of `seek_to` makes sense of positions only on a well-typed deck).

**`PreviewReturns`** follows from `PreviewHeld`, one direction of `PreviewIsHeld`:
while the CUE key is held from a press that began a preview no control has
latched, the transport knows of the preview. The lift of the platter breaks it.

**`RunningLoopHoldsPlayhead`** needs no invariant but the types: `LoopStep` shows
of each handler that it ends the loop, moves its bounds, or leaves the playhead
inside. `seek_to` is the crux (`SeekHolds`): it lands inside or disarms the loop.

**`SlipExitLandsOnTheTrack`**: `ShadowInv` says that while an anchor is set its shadow,
cut at the track's end, is where the track would be without the loop. Every handler
that moves the playhead for good either clears the anchor or moves both.

**`KeepsThePromise`** is by the inductive invariant `Faithful`: `TypeOK`, `Honest`,
`PreviewIsHeld` both ways, and `Plain` (no loop runs, QUANTIZE is off, all points
are on the track, which is what `Panel` and the tracks' points keep). `SameRules`
says the rules are the same functions on both decks, `CarryMaps` that
`apply_transport` does what the ideal deck's `apply` does; then `StepMaps` has one
step per handler. PLAY pressed on a deck that plays is a stutter of the ideal
deck: that is where `CuedStandsStill` is needed, for such a press clears `cued`.

**The audio threads.** `TypeInv` types what each thread holds at each of its labels.
`FreshInv` says when a flush is owed, and that the ring is older than it. `SettleInv`
follows a return through its stores: while they are under way the position is the
target or the stores left will make it so, and once they are over the processor has a
seek to take, a flush to wait for, or a ring that ends at the target. `OutInv`,
`LoopInv` and `HeardInv` say that the ring continues what was heard last: neighbours
in it are of one seek and one frame apart or a loop apart, and what the processor holds
continues its end.

**Loads.** `OrderInv` numbers the loads; `IInv` adds what each thread holds at each
stage: its content is the file's, a record it stores is of the version it is named by,
a result is one track with its own grid. A restart that tears a record makes it not
whole, and the lookup takes no such record.

**Hands.** `ConsoleInv`: the pointer's drag has its finger down and its widget on the
page that is shown, each hold of the deck has its grab. `StartInv`: the settings in
memory are as chosen from the stage that reads them on. `BrowserInv`: every row shown
and every place stood in is on a medium that is mounted or was at the last scan, the
export kept is of an insertion that is still there.

**Files and lists.** `WholeInv`: a datagram under way is of this session and, if it
answers a read in flight, about that read's block. `LossInv` counts: what was sent and
is neither under way nor answered was lost. `DbInv`: the answers in a session's queue,
from the present transaction on, are those of one menu, in the order the client takes
them; what is older is told apart by its transaction.

**The tempo master.** Two decks p and q are `Solo(p, q)` (p holds the role and q knows)
or `Giving(p, q)` (p has offered it, q has taken it, p has not heard so). That is not
inductive, for what is heard was sent earlier. So `Roles` also says what the queues of
status packets tell: from p under its present counter, in the order offered or not
(`Told`); from q no claim in the first case, and in the second, from its first claim
on, the role under its own counter. p gives up only on a claim of q, which holds then,
and what is still under way from q becomes what `Solo(q, p)` asks. `Steady` counts
silence in packets lost: a master is not forgotten while fewer are lost than ticks it
takes. A deck that joins makes two stages before these: `Alone` (the other is off) and
`Meeting` (both are on, and the newcomer has not heard who holds the role). There
`Waited` bounds how long it has wanted the role: it announces itself every
`AnnounceEvery` ticks, the master's status is a tick away once it has heard an
announce, and each packet lost costs an announce period at most. So it hears the master
before its wait is over. When one is switched off they are `Parted`, and who is off has
no role and a counter of 0. `NewestCounter` follows as the one who takes the role does so from the packet
that names it, which carries the other's counter. `LinkType` alone holds for any
decks.

**Tempo, beats, grids, the unit.** `TempoInv` says what each thread may have left to
store: tempos, or a bend of its own that has not ended (`StoresType`). So when nobody
bends, the speed is a tempo or one thread has still to store one (`NoBendStays`); and
as long as no two computations have crossed only one thread has anything to store, and
the speed is the fader's or that thread will make it so (`Uncrossed`). `BeatInv`: a copy of a beat that was
taken is within `Held` of its sending, and so within `Twin` of when it was taken.
`HidInv`: ticks told times the denominator, and the carry, are what was turned
(`CountInv`), and while a session runs the deck has followed its last report: its keys,
and its fader unless TEMPO RESET came since (`FollowInv`). `NumberingMovesAlong` needs no invariant but the types; it is
arithmetic of `%` with a variable modulus, which the solver gets as the uniqueness of
quotient and remainder.

The lemmas are in layers: what an operator returns, what a step that uses it does, what
each action does to each part of the invariant. An invariant's step has one case per
action. That the browser's recursive list of mount points (`Those`) is a sequence would
be an induction over data; it is by a least number instead (`LeastNumber`): the first
place where it would not be has a predecessor where it is.

**Only model-checked:** liveness, which fairness and ENABLED put outside the prover's
reach: `DrawnWhileInFront`, `BackgroundRests`, `NoSeekIsLost`, `StopsAtTheEnd`,
`MasterIsAnswered`, `MasterBecomesKnown`, `GroupKeepsAReference`, `LoadingEnds`,
`BeatsReachThePeer`, `HoldsEndWithTheirKeys`, `LampFollowsTheDeck`,
`DeviceFollowsTheDeck`, `UnitComesIn`. `FrameLoop`, `DeviceStream`, `Surface` and
`LinkRoute` have no other properties and so no theorems. The instances of the safety
runs lie within the hypotheses of the theorems about them or are the violations of
section 5.

## 7. Not modelled

- **Signal processing** (decode, analysis, timestretch, the sample-rate conversion):
  floating point samples, beyond a model checker. `AudioEngine` knows the stretcher
  by how often it repeats a frame, `TrackLoad` an analysis by what it was made from.
- **Drawing** (renderer, waveforms, chrome, layout of `screen.rs`): functions of the
  deck's state that nothing reads back. What is drawn where matters only in that a
  widget is there to be held, which `Console` has.
- **Layouts** (packets, XDR, dbserver fields, rekordbox export, SQL, TOML, JSON):
  parsers without state. The models' messages are the fields the handlers use; a
  file that does not parse is one value (`Torn`, a record that is not whole).
- **Numbers that only scale** (tempo ranges, pitch in 2^20ths, fader and knob values,
  zoom): replaced by small integers where a property needs them (`TempoFollow`).
- **Media queries**: asked every 5 s and answered from one lookup, a table with an
  expiry of its own; planned.
- **`crates/engine`, `timecode`, `protocol`, `ui`**: the first design of the deck, not
  linked into the application.
- **Memory ordering**: atomics are sequentially consistent in the models. The code's
  relaxed loads could show another thread's stores later or in another order still,
  on Arm.
- **Hardware, firmware, packaging, vendored libraries**.
