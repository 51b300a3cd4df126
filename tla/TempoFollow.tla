---------------------------- MODULE TempoFollow ----------------------------
(***************************************************************************)
(* Who writes the deck's speed.  The tempo fader, the jog wheel's bend and *)
(* SYNC's switch on the UI thread (app/src/lib.rs), SYNC's tempo and phase *)
(* correction on the Link sender's (app/src/prodj.rs), all through two     *)
(* atomics without a lock: fader_speed, where the speed comes back to, and *)
(* speed, what the stretcher runs at.  A thread computes what it stores    *)
(* from what it has loaded, and the other runs at any point in between.    *)
(* Tempos are small integers.                                              *)
(***************************************************************************)
EXTENDS Integers, Sequences

CONSTANTS
  Tempos,       \* the fader's settings and the master's tempos, as speeds
  Bends,        \* offsets of a jog bend (up to 0.5 in the code)
  Nudges,       \* offsets of SYNC's phase correction (up to 0.03 in the code)
  MaxMoves      \* controls moved in a behaviour (a bound)

ASSUME TempoAssumption ==
  Tempos \subseteq Int /\ 0 \notin Bends \cup Nudges /\ MaxMoves \in Nat

VARIABLES
  speeds,       \* the two atomics, by name
  bend,         \* DeckApp::jog_offset while jog_until is set, else 0
  nudge,        \* the sender's nudge, 0 for none
  sync,         \* LinkState::sync
  masterTempo,  \* what the master's tempo asks of our fader, its seq and the last one seen
  pass,         \* what the sender's pass has loaded: the fader, then SYNC (FALSE until then)
                \* and what the master's tempo asks
  stores,       \* what the UI thread and the sender have computed and not stored
  crossed,      \* history: the last to compute did so while the other still had to store
  moves         \* controls moved so far

tempoVars == <<speeds, bend, nudge, sync, masterTempo, pass, stores, crossed, moves>>

Threads == {"ui", "tx"}
Free(thread) == stores[thread] = <<>>
Alone(thread) == \A other \in Threads \ {thread} : stores[other] = <<>>

\* A thread has loaded what it needs and knows what it will store.
Computed(thread, sequence) ==
  /\ stores' = [stores EXCEPT ![thread] = sequence]
  /\ crossed' = IF sequence = <<>> THEN crossed ELSE ~Alone(thread)
To(atomic, value) == [to |-> atomic, value |-> value]

Store(thread) ==
  /\ stores[thread] # <<>>
  /\ LET s == Head(stores[thread]) IN speeds' = [speeds EXCEPT ![s.to] = s.value]
  /\ stores' = [stores EXCEPT ![thread] = Tail(@)]
  /\ UNCHANGED <<bend, nudge, sync, masterTempo, pass, crossed, moves>>

Moved == moves < MaxMoves /\ moves' = moves + 1

---------------------------------------------------------------------------
(* The UI thread. *)

TempoFader(t) ==
  /\ Free("ui") /\ Moved
  /\ Computed("ui", <<To("fader", t), To("speed", t)>>)
  /\ UNCHANGED <<speeds, bend, nudge, sync, masterTempo, pass>>

\* JogDelta of a playing deck in CDJ mode.
JogBend(offset) ==
  /\ Free("ui") /\ Moved /\ bend' = offset
  /\ Computed("ui", <<To("speed", speeds["fader"] + offset)>>)
  /\ UNCHANGED <<speeds, nudge, sync, masterTempo, pass>>

\* The frame loop, 150 ms after the last tick.
JogSnapBack ==
  /\ Free("ui") /\ bend # 0 /\ bend' = 0
  /\ Computed("ui", <<To("speed", speeds["fader"])>>)
  /\ UNCHANGED <<speeds, nudge, sync, masterTempo, pass, moves>>

\* Leaving SYNC keeps the tempo it ended on.
SyncToggleSpeed == IF sync THEN <<To("speed", speeds["fader"])>> ELSE <<>>

SyncToggle ==
  /\ Free("ui") /\ Moved /\ sync' = ~sync
  /\ Computed("ui", SyncToggleSpeed)
  /\ UNCHANGED <<speeds, bend, nudge, masterTempo, pass>>

---------------------------------------------------------------------------
(* The sender's pass. *)

\* A pass of the sender goes by the fader, by SYNC and by the master's tempo as they were
\* when it loaded them.
LoadFader ==
  /\ Free("tx") /\ (pass.sync \/ pass.fader # speeds["fader"])
  /\ pass' = [pass EXCEPT !.fader = speeds["fader"], !.sync = FALSE]
  /\ UNCHANGED <<speeds, bend, nudge, sync, masterTempo, stores, crossed, moves>>
LoadSync ==
  /\ Free("tx") /\ sync /\ ~pass.sync
  /\ pass' = [pass EXCEPT !.sync = TRUE, !.want = masterTempo.speed]
  /\ UNCHANGED <<speeds, bend, nudge, sync, masterTempo, stores, crossed, moves>>

\* Tempo: the fader goes to the master's, and the speed with it unless it is nudged.
FollowTempo ==
  /\ Free("tx") /\ pass.sync /\ pass.want # pass.fader
  /\ Computed("tx", IF nudge = 0 THEN <<To("fader", pass.want), To("speed", pass.want)>>
                    ELSE <<To("fader", pass.want)>>)
  /\ pass' = [pass EXCEPT !.fader = pass.want]
  /\ UNCHANGED <<speeds, bend, nudge, sync, masterTempo, moves>>

\* Phase: on each beat of the master, out of phase, run fast or slow for a beat.
NudgePhase ==
  /\ Free("tx") /\ pass.sync /\ masterTempo.seq # masterTempo.seen
  /\ masterTempo' = [masterTempo EXCEPT !.seen = masterTempo.seq]
  /\ \/ \E offset \in Nudges :
          nudge' = offset /\ Computed("tx", <<To("speed", pass.want + offset)>>)
     \/ UNCHANGED <<nudge, stores, crossed>>
  /\ UNCHANGED <<speeds, bend, sync, pass, moves>>

\* Mutant of EndNudge: the nudge is dropped and the speed left.
EndNudgeOnly ==
  /\ Free("tx") /\ nudge # 0 /\ nudge' = 0
  /\ UNCHANGED <<speeds, bend, sync, masterTempo, pass, stores, crossed, moves>>

EndNudge ==
  /\ Free("tx") /\ nudge # 0 /\ nudge' = 0
  /\ Computed("tx", <<To("speed", speeds["fader"])>>)
  /\ UNCHANGED <<speeds, bend, sync, masterTempo, pass, moves>>

\* The listeners: a beat of the master, a status with another tempo of it.
MasterBeat ==
  /\ masterTempo.seq = masterTempo.seen /\ Moved
  /\ masterTempo' = [masterTempo EXCEPT !.seq = 1 - @]
  /\ UNCHANGED <<speeds, bend, nudge, sync, pass, stores, crossed>>
MasterPitch(t) ==
  /\ Moved /\ masterTempo' = [masterTempo EXCEPT !.speed = t]
  /\ UNCHANGED <<speeds, bend, nudge, sync, pass, stores, crossed>>

TempoInit ==
  /\ \E t, u \in Tempos : /\ speeds = [fader |-> t, speed |-> t]
                          /\ masterTempo = [speed |-> u, seq |-> 0, seen |-> 0]
                          /\ pass = [fader |-> t, sync |-> FALSE, want |-> u]
  /\ bend = 0 /\ nudge = 0 /\ sync = FALSE
  /\ stores = [thread \in Threads |-> <<>>] /\ crossed = FALSE /\ moves = 0

TempoNext ==
  \/ \E t \in Tempos : TempoFader(t) \/ MasterPitch(t)
  \/ \E offset \in Bends : JogBend(offset)
  \/ JogSnapBack \/ SyncToggle \/ MasterBeat
  \/ LoadFader \/ LoadSync \/ FollowTempo \/ NudgePhase \/ EndNudge
  \/ \E thread \in Threads : Store(thread)

TempoSpec == TempoInit /\ [][TempoNext]_tempoVars

---------------------------------------------------------------------------

AtRest == bend = 0 /\ nudge = 0 /\ \A thread \in Threads : stores[thread] = <<>>

\* When nothing bends the deck's speed no bend or nudge is left in it, however the two
\* threads' loads and stores fall between each other; and it is the fader's, unless the
\* last of them to touch the tempo did so while the other still had to store (lib.rs:1976,
\* prodj.rs:1014).
BendsComeBack ==
  AtRest => speeds["speed"] \in Tempos /\ (~crossed => speeds["speed"] = speeds["fader"])

\* A deck that nothing bends runs at its fader's tempo, as lib.rs:801 ("Leaving SYNC: keep
\* the tempo we ended on, drop any nudge.") and lib.rs:1976-1977 ("return to the
\* pitch-fader speed") say.  It may not once the two threads have crossed, so no run checks
\* this.
RunsAtItsFader == AtRest => speeds["speed"] = speeds["fader"]
=============================================================================
