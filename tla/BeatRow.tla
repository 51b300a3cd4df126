------------------------------ MODULE BeatRow ------------------------------
(***************************************************************************)
(* Another deck's beats (app/src/prodj.rs): the sender that broadcasts     *)
(* each beat of the audible grid and repeats it by unicast, the network    *)
(* that holds, loses or swaps the copies, the listener that drops the      *)
(* second one, the beat row on the screen and the frame that drops the row *)
(* of a deck that fell silent.  Time is in ticks of 50 ms.                 *)
(***************************************************************************)
EXTENDS Integers, FiniteSets

CONSTANTS
  Beat,         \* ticks between two beats (300 ms at the least)
  Twin,         \* TWIN_MS
  Held,         \* the longest a datagram is under way
  PeerGone,     \* PEER_GONE_MS (a bound: 3 s in the code)
  StatusEvery,  \* ticks between two statuses of a deck (200 ms)
  LastTick      \* how long a behaviour lasts (a bound)

ASSUME BeatAssumption == {Beat, Twin, Held, PeerGone, StatusEvery, LastTick} \subseteq Nat

VARIABLES
  tick,         \* the clock
  player,       \* the peer: on, playing, its position in ticks, the last beat it sent
  air,          \* datagrams under way
  heard,        \* the listener: when it last took a beat, and which beats it took
  row,          \* the atomics of the row: player, tempo, beat and seen times, playing
  frame         \* the UI thread between its loads and its stores

rowVars == <<tick, player, air, heard, row, frame>>

Peer     == 2
NoBeat   == -1
EmptyRow == [player |-> 0, bpm |-> 0, bib |-> 0, beatAt |-> 0, seenAt |-> 0, playing |-> FALSE]
Due(at)  == {p \in air : p.due = at}

---------------------------------------------------------------------------
(* The peer's sender. *)

AtBeat == player.position \div Beat

\* A new beat is sent once; a seek far back or ahead starts again.
BeatIsNew ==
  \/ player.sent = NoBeat \/ AtBeat > player.sent
  \/ AtBeat < player.sent - 2 \/ AtBeat > player.sent + 8

\* Its broadcast, and the copy to its own kind, each lost or under way for a while.
SendBeat ==
  /\ player.on /\ player.playing /\ BeatIsNew
  /\ player' = [player EXCEPT !.sent = AtBeat]
  /\ \E copies \in SUBSET {"broadcast", "unicast"}, delays \in [{"broadcast", "unicast"} -> 0 .. Held] :
       air' = air \cup {[kind |-> "beat", at |-> tick, copy |-> c, due |-> tick + delays[c],
                         bib |-> (AtBeat % 4) + 1, playing |-> TRUE] : c \in copies}
  /\ UNCHANGED <<tick, heard, row, frame>>

SendStatus ==
  /\ player.on /\ tick % StatusEvery = 0 /\ player.statusAt # tick
  /\ player' = [player EXCEPT !.statusAt = tick]
  /\ air' = air \cup {[kind |-> "status", at |-> tick, copy |-> "unicast", due |-> tick, bib |-> 0,
                       playing |-> player.playing]}
  /\ UNCHANGED <<tick, heard, row, frame>>

\* PLAY / PAUSE, and the power switch of the peer.
PlayerKey ==
  /\ player.keys > 0
  /\ \/ player' = [player EXCEPT !.playing = ~@, !.sent = NoBeat, !.keys = @ - 1]
     \/ player' = [player EXCEPT !.on = ~@, !.sent = NoBeat, !.keys = @ - 1]
  /\ UNCHANGED <<tick, air, heard, row, frame>>

---------------------------------------------------------------------------
(* Our listeners. *)

\* Mutant of IsTwin: only the copy that comes in the same tick is the twin.
IsTwinSameTick == heard.at # NoBeat /\ tick - heard.at < 1

\* beat_is_twin: within TWIN_MS of the last beat taken from this player.
IsTwin == heard.at # NoBeat /\ tick - heard.at < Twin

\* listen_beat: the row, the phase reference of SYNC.
HearBeat(p) ==
  /\ p.kind = "beat" /\ p \in Due(tick) /\ air' = air \ {p}
  /\ IF IsTwin THEN UNCHANGED <<heard, row>>
     ELSE /\ heard' = [heard EXCEPT !.at = tick, !.twice = @ \/ p.at \in heard.taken,
                                    !.taken = @ \cup {p.at}]
          /\ row' = [row EXCEPT !.player = Peer, !.bpm = Beat, !.bib = p.bib,
                                !.beatAt = tick, !.seenAt = tick]
  /\ UNCHANGED <<tick, player, frame>>

\* listen_status: any deck when there is none; the row's deck is still there.
HearStatus(p) ==
  /\ p.kind = "status" /\ p \in Due(tick) /\ air' = air \ {p}
  /\ row' = IF row.player \in {0, Peer}
            THEN [row EXCEPT !.player = Peer, !.seenAt = tick, !.playing = p.playing]
            ELSE row
  /\ UNCHANGED <<tick, player, heard, frame>>

---------------------------------------------------------------------------
(* A frame: the row is loaded; a silent deck's row is dropped. *)

LoadRow ==
  /\ frame.todo = "load"
  /\ frame' = [frame EXCEPT
       !.todo = IF row.player > 0 /\ row.seenAt > 0 /\ tick - row.seenAt > PeerGone
                THEN "drop" ELSE "drawn",
       !.drew = row.player]
  /\ UNCHANGED <<tick, player, air, heard, row>>

\* The stores; what the listeners stored in between is lost.
DroppedRow == [row EXCEPT !.player = 0, !.bpm = 0, !.bib = 0, !.beatAt = 0]

DropRow ==
  /\ frame.todo = "drop"
  /\ row' = DroppedRow /\ frame' = [frame EXCEPT !.todo = "drawn", !.drew = row'.player]
  /\ UNCHANGED <<tick, player, air, heard>>

\* Time passes once everything due is done: frames and listeners are faster than a tick.
Tick ==
  /\ tick < LastTick /\ Due(tick) = {} /\ frame.todo = "drawn"
  /\ ~(player.on /\ player.playing /\ BeatIsNew)
  /\ ~(player.on /\ tick % StatusEvery = 0 /\ player.statusAt # tick)
  /\ tick' = tick + 1 /\ frame' = [frame EXCEPT !.todo = "load"]
  /\ player' = [player EXCEPT !.position = IF player.on /\ player.playing THEN @ + 1 ELSE @]
  /\ UNCHANGED <<air, heard, row>>

BeatInit ==
  /\ tick = 1 /\ air = {} /\ row = EmptyRow
  /\ player = [on |-> TRUE, playing |-> TRUE, position |-> 0, sent |-> NoBeat,
               statusAt |-> NoBeat, keys |-> 1]
  /\ heard = [at |-> NoBeat, taken |-> {}, twice |-> FALSE]
  /\ frame = [todo |-> "load", drew |-> 0]

BeatNext ==
  \/ SendBeat \/ SendStatus \/ PlayerKey
  \/ \E p \in air : HearBeat(p) \/ HearStatus(p)
  \/ LoadRow \/ DropRow \/ Tick

BeatSpec == BeatInit /\ [][BeatNext]_rowVars

---------------------------------------------------------------------------
(* What the row and SYNC rely on. *)

\* A beat counts once however its two copies are delayed, as long as they come
\* within TWIN_MS of each other: SYNC corrects the phase on every count.
BeatCountsOnce == ~heard.twice
=============================================================================
