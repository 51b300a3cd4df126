------------------------------ MODULE Surface ------------------------------
(***************************************************************************)
(* A control surface (app/src/surface): a PCF8574 board that is polled and *)
(* debounced, or a MIDI controller, whose keys go through the mapper with  *)
(* its SHIFT layer to the deck, and whose lamp follows the deck.  Either   *)
(* may be unplugged at any time.  Values, scaling and the encoders are     *)
(* left out: what matters here is which hold is begun and ended.           *)
(***************************************************************************)
EXTENDS Integers, Sequences, FiniteSets, SequencesExt

CONSTANTS
  Keys,         \* the surface's buttons (pins or notes), in the order they are polled
  LampPin,      \* the key whose wire the lamp would share, or a name that is no key
  Files,        \* controllers.toml: candidates, each [kind, binds]
  Debounce,     \* samples a level must last (debounce_runs)
  MaxPresses,     \* presses and lifts in a behaviour (a bound)
  MaxBounces,   \* samples that misread a key (a bound)
  MaxUnplugs,   \* times the surface is unplugged (a bound)
  MaxFaults,    \* LED outputs refused, sends and bus transfers that fail (a bound)
  FastReplug    \* whether it is back before the thread has noticed

ASSUME SurfaceAssumption ==
  /\ Debounce \in Nat \ {0} /\ {MaxPresses, MaxBounces, MaxUnplugs, MaxFaults} \subseteq Nat
  /\ FastReplug \in BOOLEAN

VARIABLES
  surface,      \* the file's surface
  fingers,      \* keys a finger is on
  board,        \* per key: the debounced level, the candidate and its run
  mapper,       \* SHIFT, per key the bindings its press fired, and the holds begun on the deck
  plug,         \* the cable, the connection, the one the thread believes in, its LED output
  lamp,         \* the lamp, what was last written ({} if unknown), what the deck wants, and
                \* (history) whether a write of it was refused or lost since one got through
  gone,         \* history: keys let go while nobody read them
  left          \* what is left of the bounds

surfaceVars == <<surface, fingers, board, mapper, plug, lamp, gone, left>>

KeySet == ToSet(Keys)
IsI2c  == surface.kind = "i2c"

---------------------------------------------------------------------------
(* The file. *)

\* Action::allowed_on: what may sit on a button.
OnButton(action) == action \notin {"jog", "browse", "tempo", "needle"}

\* validate: one transport, sources of that transport, button actions, and no pin
\* with two roles.  (The same pin twice is how the SHIFT layer is written.)
Valid(s) ==
  /\ s.kind \in {"i2c", "midi"}
  /\ \A b \in s.binds : OnButton(b.action) /\ (b.noteOff => s.kind = "midi")
  /\ s.kind = "i2c" => \A b \in s.binds : b.key # LampPin

\* press_events: what a press begins on the deck; the other actions are over at once.
Begins(b) == {b.action} \cap {"cue", "hot_cue", "jog_touch", "beat_loop"}

\* release_events: what its release ends.
Ends(b) == {b.action} \cap {"cue", "hot_cue", "jog_touch", "beat_loop"}

---------------------------------------------------------------------------
(* The mapper. *)

\* layer: under SHIFT the shifted bindings shadow the plain ones of the same key.
Layer(binds, shift) ==
  LET shifted == {b \in binds : b.shift} IN
  IF shift /\ shifted # {} THEN shifted ELSE binds \ shifted

\* Mapper::press.
Pressed(m, key, noteOff) ==
  LET fired == Layer({b \in surface.binds : b.key = key /\ b.noteOff = noteOff}, m.shift) IN
  [shift |-> m.shift \/ \E b \in fired : b.action = "shift",
   held  |-> IF fired = {} \/ noteOff THEN m.held ELSE [m.held EXCEPT ![key] = fired],
   holds |-> m.holds \cup UNION {Begins(b) : b \in fired}]

\* Mutant of Fired: the release goes to the layer of the moment.
FiredNow(m, key) == Layer({b \in surface.binds : b.key = key /\ ~b.noteOff}, m.shift)

\* The bindings a key's press fired, whatever SHIFT is now.
Fired(m, key) == m.held[key]

\* Mapper::release.
Released(m, key) ==
  [shift |-> m.shift /\ \A b \in Fired(m, key) : b.action # "shift",
   held  |-> [m.held EXCEPT ![key] = {}],
   holds |-> m.holds \ UNION {Ends(b) : b \in Fired(m, key)}]

---------------------------------------------------------------------------
(* The surface's own thread. *)

Live == plug.opened /\ plug.live

\* Board::sample, one button: the candidate, how long it has lasted.
Debounced(key, down) ==
  LET b == board[key] IN
  IF down = b.stable THEN [b EXCEPT !.cand = down, !.run = 0]
  ELSE [b EXCEPT !.cand = down, !.run = IF down = b.cand THEN @ + 1 ELSE 1]

Settled(b) == IF b.run >= Debounce THEN [stable |-> b.cand, cand |-> b.cand, run |-> 0] ELSE b

\* One poll: every button in turn; a level that has lasted fires.
Sample(misread) ==
  /\ IsI2c /\ Live
  /\ LET reads == [key \in KeySet |-> Debounced(key, (key \in fingers) # (key \in misread))]
         fires(m, key) ==
           IF Settled(reads[key]).stable = board[key].stable THEN m
           ELSE IF reads[key].cand THEN Pressed(m, key, FALSE) ELSE Released(m, key) IN
     /\ board' = [key \in KeySet |-> Settled(reads[key])]
     /\ mapper' = FoldLeft(fires, mapper, Keys)
  /\ left' = [left EXCEPT !.bounces = @ - Cardinality(misread)]
  /\ UNCHANGED <<surface, fingers, plug, lamp, gone>>

Poll   == Sample({})
Bounce == left.bounces > 0 /\ \E key \in KeySet : Sample({key})

\* Mutant of Forgotten: the lamp is taken to be as it was written before.
ForgottenNot == lamp

\* What was written to a lamp that may have lost its power is unknown.
Forgotten == [lamp EXCEPT !.written = {}, !.missed = FALSE]

Fault == left.faults > 0 /\ left' = [left EXCEPT !.faults = @ - 1]

Disconnected ==
  /\ plug' = [plug EXCEPT !.opened = FALSE, !.live = FALSE, !.output = FALSE]
  /\ lamp' = Forgotten
  /\ UNCHANGED <<surface, fingers, board, mapper, gone>>

\* The board's thread finds the bus gone at a read, the supervisor the port at a scan.
Notice == plug.opened /\ ~plug.up /\ Disconnected /\ UNCHANGED left

\* A read or a write fails on a bus that is there: the board is opened again.
BusFails == plug.opened /\ plug.up /\ IsI2c /\ Fault /\ Disconnected

\* Board::prime: the pins as they are.
Primed == [key \in KeySet |-> [stable |-> key \in fingers, cand |-> key \in fingers, run |-> 0]]

\* run: a board's lamp is written dark and its pins are primed.
OpenBoard ==
  /\ plug.up /\ ~plug.opened /\ IsI2c
  /\ plug' = [plug EXCEPT !.opened = TRUE, !.live = TRUE, !.output = TRUE]
  /\ board' = Primed
  /\ lamp' = [lamp EXCEPT !.lit = FALSE, !.written = {FALSE}]
  /\ gone' = gone \cup {key \in KeySet \ fingers : mapper.held[key] # {}}
  /\ UNCHANGED <<surface, fingers, mapper, left>>

\* reconcile: connected once the input is; the LED output may be refused, and is not
\* asked for again while the port is there.
OpenPort ==
  /\ plug.up /\ ~plug.opened /\ ~IsI2c
  /\ \E granted \in BOOLEAN :
       /\ plug' = [plug EXCEPT !.opened = TRUE, !.live = TRUE, !.output = granted]
       /\ lamp' = [lamp EXCEPT !.missed = ~granted]
       /\ IF granted THEN UNCHANGED left ELSE Fault
  /\ UNCHANGED <<surface, fingers, board, mapper, gone>>

Open == OpenBoard \/ OpenPort

\* refresh_leds, output_byte: written when it differs from what was written last, and
\* taken for written also when a MIDI send failed.
Refresh ==
  /\ plug.opened /\ plug.output /\ lamp.written # {lamp.wanted}
  /\ IsI2c => plug.live
  /\ \E sent \in BOOLEAN :
       /\ lamp' = [lamp EXCEPT !.written = {lamp.wanted}, !.missed = ~sent,
                               !.lit = IF plug.live /\ sent THEN lamp.wanted ELSE @]
       /\ IF sent THEN UNCHANGED left ELSE ~IsI2c /\ Fault
  /\ UNCHANGED <<surface, fingers, board, mapper, plug, gone>>

---------------------------------------------------------------------------
(* The DJ, the deck and the cable. *)

\* A finger on a key: a Note On (or a CC of 64 and more) at once, or a level to be polled.
PressKey ==
  /\ left.moves > 0 /\ left' = [left EXCEPT !.moves = @ - 1]
  /\ \E key \in KeySet \ fingers :
       /\ fingers' = fingers \cup {key}
       /\ mapper' = IF IsI2c \/ ~Live THEN mapper ELSE Pressed(mapper, key, FALSE)
  /\ UNCHANGED <<surface, board, plug, lamp, gone>>

\* note_off: the release of a note, and the press of a key that only has Note Offs.
LiftKey ==
  /\ \E key \in fingers :
       /\ fingers' = fingers \ {key}
       /\ mapper' = IF IsI2c \/ ~Live THEN mapper
                    ELSE Pressed(Released(mapper, key), key, TRUE)
       /\ gone' = IF ~IsI2c /\ ~Live /\ mapper.held[key] # {} THEN gone \cup {key} ELSE gone
  /\ UNCHANGED <<surface, board, plug, lamp, left>>

\* DeckApp stores other indicator bits.
DeckChanges ==
  /\ left.moves > 0 /\ left' = [left EXCEPT !.moves = @ - 1]
  /\ lamp' = [lamp EXCEPT !.wanted = ~@]
  /\ UNCHANGED <<surface, fingers, board, mapper, plug, gone>>

Unplug ==
  /\ plug.up /\ left.unplugs > 0 /\ left' = [left EXCEPT !.unplugs = @ - 1]
  /\ plug' = [plug EXCEPT !.up = FALSE, !.live = FALSE]
  /\ lamp' = [lamp EXCEPT !.lit = FALSE]
  /\ UNCHANGED <<surface, fingers, board, mapper, gone>>

Plug ==
  /\ ~plug.up /\ (FastReplug \/ ~plug.opened)
  /\ plug' = [plug EXCEPT !.up = TRUE]
  /\ UNCHANGED <<surface, fingers, board, mapper, lamp, gone, left>>

SurfaceInit ==
  /\ surface \in {s \in Files : Valid(s)}
  /\ fingers = {} /\ gone = {}
  /\ board = Primed
  /\ mapper = [shift |-> FALSE, held |-> [key \in KeySet |-> {}], holds |-> {}]
  /\ plug = [up |-> TRUE, opened |-> FALSE, live |-> FALSE, output |-> FALSE]
  /\ lamp = [lit |-> FALSE, written |-> {}, wanted |-> FALSE, missed |-> FALSE]
  /\ left = [moves |-> MaxPresses, bounces |-> MaxBounces, unplugs |-> MaxUnplugs,
             faults |-> MaxFaults]

SurfaceNext ==
  \/ Poll \/ Bounce \/ Notice \/ BusFails \/ Open \/ Refresh
  \/ PressKey \/ LiftKey \/ DeckChanges \/ Unplug \/ Plug

\* The threads run; nobody has to press or plug anything.
SurfaceFairness ==
  /\ WF_surfaceVars(Poll) /\ WF_surfaceVars(Notice) /\ WF_surfaceVars(Open)
  /\ WF_surfaceVars(Refresh)

SurfaceSpec == SurfaceInit /\ [][SurfaceNext]_surfaceVars

---------------------------------------------------------------------------
(* What a surface promises. *)

\* When the fingers are off, no hold is left on the deck and SHIFT is off, in
\* whatever order SHIFT and the keys went up and however the contacts bounced
\* (Mapper::held), unless a key was let go while the surface was unplugged.
HoldsEndWithTheirKeys ==
  <>[](fingers = {} /\ gone = {} /\ Live => mapper.holds = {} /\ ~mapper.shift)

\* While the surface is plugged in its lamp comes to show the deck, also after it was
\* unplugged or its bus failed, unless this connection was refused its LED output or
\* the last write was lost, which lasts until the deck's next indicator gets through
\* (reconcile forgets what was written; refresh_leds, run).
LampFollowsTheDeck == <>[](plug.up /\ ~lamp.missed => lamp.lit = lamp.wanted)
=============================================================================
