-------------------------------- MODULE LanHid --------------------------------
(***************************************************************************)
(* A CDJ in CONTROL MODE as a control surface (app/src/surface/lanhid.rs,  *)
(* link/src/lanhid.rs, lanhid_auth.rs, lanhid_status.rs): the session over *)
(* a stream socket, the handshake 0x11 .. 0x15, the decoder of its input   *)
(* reports and the mapping of its controls onto deck events.  The unit is  *)
(* external, modelled from what the code expects of it.                    *)
(***************************************************************************)
EXTENDS Integers, Sequences, FiniteSets

CONSTANTS
  NoReport,     \* no report yet (a model value)
  Momentary,    \* keys whose two edges the deck is told: CUE, the pads, the platter
  PressOnly,    \* keys that act when pressed: PLAY, the loops, the jumps
  TempoReset,   \* one of them: TEMPO RESET
  Wrap,         \* values of the platter's counter (65536 in the code)
  Turns,        \* native ticks the platter turns between two reports
  Num, Den,     \* canonical ticks to native ticks (90 to 9728 in the code)
  Early,        \* announcements of the unit while an exchange is on its way (a bound)
  MaxTouches,   \* times a key, the fader or the platter is moved (a bound)
  MaxDrops,     \* times the socket ends (a bound)
  UnitRestarts  \* whether the unit may ask for the handshake again on an open socket

ASSUME LanHidAssumption ==
  /\ {Wrap, Num, Den} \subseteq Nat \ {0} /\ {Early, MaxTouches, MaxDrops} \subseteq Nat
  /\ UnitRestarts \in BOOLEAN
  /\ TempoReset \in PressOnly \ Momentary
  /\ Turns \subseteq Nat /\ \A t \in Turns : 2 * t < Wrap
  /\ NoReport \notin [kind : {"input"}, keys : SUBSET (Momentary \cup PressOnly),
                      fader : 0 .. 2, pos : 0 .. Wrap - 1]

VARIABLES
  session,    \* whether a session runs (session)
  hs,         \* Handshake::state
  established,
  prev,       \* InputDecoder::prev
  carry,      \* JogScaler::carry, in 1/Den of a tick
  toHost, toUnit,  \* the two directions of the socket
  unit,       \* the CDJ: its side of the handshake and its controls
  deck,       \* what its events have told the deck
  budget,     \* announcements, moves and drops so far
  orphans,    \* keys held when a session ended, until they are used again
  early,      \* history: keys down in the decoder's first report and ever since
  recentred,  \* history: TEMPO RESET told since the fader last was
  turned      \* native ticks turned since the decoder's first report

hidVars == <<session, hs, established, prev, carry, toHost, toUnit, unit, deck, budget,
             orphans, early, recentred, turned>>

\* The fader's places: its two ends and the middle, where TEMPO RESET puts the tempo.
Faders == 0 .. 2
Middle == 1

---------------------------------------------------------------------------
(* Frames.  A handshake frame is its stage and the fields the peer reads;  *)
(* the hash is what it is made from.                                       *)

Hash(seed, key)      == <<seed, key>>
Frame(stage, field)  == [kind |-> "auth", stage |-> stage, field |-> field]
Hello                == [kind |-> "hello"]
Status               == [kind |-> "status"]
ReportNow == [kind |-> "input", keys |-> unit.keys, fader |-> unit.fader, pos |-> unit.pos]

HostSeed == "A"
UnitSeed == "E"
Key(seed) == <<seed, "secret">>

---------------------------------------------------------------------------
(* The handshake (on_frame).  What it answers, and its next state.         *)

OnFrame(f) ==
  CASE f.stage = 0                            -> [state |-> "WaitHello", reply |-> <<>>]
    [] f.stage # 0 /\ hs = "Established"      -> [state |-> hs, reply |-> <<>>]
    [] f.stage = 17 /\ hs # "Established"     ->
         [state |-> "WaitProof", reply |-> <<Frame(18, HostSeed)>>]
    [] f.stage = 19 /\ hs = "WaitProof" /\ f.field = Hash(HostSeed, Key(UnitSeed)) ->
         [state |-> "WaitAck", reply |-> <<Frame(20, Hash(UnitSeed, Key(UnitSeed)))>>]
    [] f.stage = 21 /\ hs = "WaitAck"         -> [state |-> "Established", reply |-> <<>>]
    [] OTHER                                  -> [state |-> "WaitHello", reply |-> <<>>]

---------------------------------------------------------------------------
(* The decoder and the mapping. *)

UnitKeys == Momentary \cup PressOnly

\* Edges since the report before; before the first one every key is up.
Edges(keys) ==
  LET was == IF prev = NoReport THEN {} ELSE prev.keys IN
  [down |-> keys \ was, up |-> was \ keys]

\* A difference of the counter as a signed number of its width.
Delta(now) ==
  LET d == (now - prev.pos + Wrap) % Wrap IN
  IF prev = NoReport THEN 0 ELSE IF 2 * d >= Wrap THEN d - Wrap ELSE d

\* JogScaler::step: whole ticks toward zero, the remainder carried.
ScaledTicks(native) ==
  LET v == carry + native * Num
      whole == IF v < 0 THEN -((-v) \div Den) ELSE v \div Den IN
  [ticks |-> whole, carry |-> v - whole * Den]

\* The fader is told when it moved, and in the first report.
FaderTold(r) == prev = NoReport \/ r.fader # prev.fader

\* Mutant of Told: the fader is told when it moved.
ToldMoves(r) ==
  LET e == Edges(r.keys) IN
  [held  |-> (deck.held \cup (e.down \cap Momentary)) \ e.up,
   fader |-> IF prev # NoReport /\ r.fader # prev.fader THEN r.fader
             ELSE IF TempoReset \in e.down THEN Middle ELSE deck.fader,
   ticks |-> deck.ticks + ScaledTicks(Delta(r.pos)).ticks]

\* map, map_button: what the deck is told of one report, the fader after the buttons.
Told(r) ==
  LET e == Edges(r.keys) IN
  [held  |-> (deck.held \cup (e.down \cap Momentary)) \ e.up,
   fader |-> IF FaderTold(r) THEN r.fader
             ELSE IF TempoReset \in e.down THEN Middle ELSE deck.fader,
   ticks |-> deck.ticks + ScaledTicks(Delta(r.pos)).ticks]

---------------------------------------------------------------------------
(* The host's session. *)

\* Mutant of OpenSession: one Handshake for all sessions.
OpenSessionAgain ==
  /\ ~session /\ session' = TRUE
  /\ established' = FALSE
  /\ prev' = NoReport /\ carry' = 0 /\ turned' = 0 /\ early' = {}
  /\ toHost' = <<>> /\ toUnit' = <<>>
  /\ unit' = [unit EXCEPT !.stage = "announcing"]
  /\ deck' = [deck EXCEPT !.ticks = 0]
  /\ UNCHANGED <<hs, budget, orphans, recentred>>

\* A new socket: a Handshake, a decoder and a scaler of its own.
OpenSession ==
  /\ ~session /\ session' = TRUE
  /\ hs' = "WaitHello" /\ established' = FALSE
  /\ prev' = NoReport /\ carry' = 0 /\ turned' = 0 /\ early' = {}
  /\ toHost' = <<>> /\ toUnit' = <<>>
  /\ unit' = [unit EXCEPT !.stage = "announcing"]
  /\ deck' = [deck EXCEPT !.ticks = 0]
  /\ UNCHANGED <<budget, orphans, recentred>>

\* HELLO until established, then the status report as a keepalive, each 300 ms.
Prompt ==
  /\ session /\ toUnit = <<>>
  /\ toUnit' = <<IF established THEN Status ELSE Hello>>
  /\ UNCHANGED <<session, hs, established, prev, carry, toHost, unit, deck, budget,
                 orphans, early, recentred, turned>>

\* One frame of the stream: handshake frames until established, reports after.
HearAuth ==
  /\ session /\ toHost # <<>> /\ toHost' = Tail(toHost)
  /\ Head(toHost).kind = "auth"
  /\ IF established THEN UNCHANGED <<hs, established, toUnit>>
     ELSE LET s == OnFrame(Head(toHost)) IN
          /\ hs' = s.state /\ established' = (s.state = "Established")
          /\ toUnit' = toUnit \o s.reply
  /\ UNCHANGED <<session, prev, carry, unit, deck, budget, orphans, early, recentred,
                 turned>>

HearReport ==
  /\ session /\ toHost # <<>> /\ toHost' = Tail(toHost)
  /\ Head(toHost).kind = "input"
  /\ LET r == Head(toHost) IN
     IF ~established THEN UNCHANGED <<prev, carry, deck, orphans, early, recentred, turned>>
     ELSE /\ deck' = Told(r) /\ prev' = r
          /\ carry' = ScaledTicks(Delta(r.pos)).carry
          /\ turned' = turned + Delta(r.pos)
          /\ orphans' = orphans \ (Edges(r.keys).down \cup Edges(r.keys).up)
          /\ early' = IF prev = NoReport THEN r.keys ELSE early \cap r.keys
          /\ recentred' = (~FaderTold(r) /\ (recentred \/ TempoReset \in Edges(r.keys).down))
  /\ UNCHANGED <<session, hs, established, toUnit, unit, budget>>

\* The socket ends: the session returns and is tried again a second later.
EndSession ==
  /\ session /\ budget.drops < MaxDrops /\ budget' = [budget EXCEPT !.drops = @ + 1]
  /\ session' = FALSE /\ toHost' = <<>> /\ toUnit' = <<>>
  /\ orphans' = deck.held
  /\ UNCHANGED <<hs, established, prev, carry, unit, deck, early, recentred, turned>>

---------------------------------------------------------------------------
(* The unit. *)

UnitSends(messages) == toHost' = toHost \o messages
UnitOnly == UNCHANGED <<session, hs, established, prev, carry, deck, orphans, early,
                        recentred, turned>>

NoExchange == \A i \in DOMAIN toUnit : toUnit[i].kind # "auth"

\* It announces itself again and again, now and then across an exchange.
AnnounceUnit ==
  /\ session /\ UnitOnly
  /\ \/ toHost = <<>> /\ NoExchange /\ UNCHANGED budget
     \/ Len(toHost) < 2 /\ budget.early < Early /\ budget' = [budget EXCEPT !.early = @ + 1]
  /\ UnitSends(<<Frame(17, "none")>>)
  /\ UNCHANGED <<toUnit, unit>>

\* It answers a challenge with its proof and our proof with its acknowledgement.
AnswerHost ==
  /\ session /\ toUnit # <<>> /\ toUnit' = Tail(toUnit)
  /\ LET f == Head(toUnit) IN
     \/ f.kind # "auth" /\ UNCHANGED <<toHost, unit>>
     \/ /\ f.kind = "auth" /\ f.stage = 18
        /\ UnitSends(<<Frame(19, Hash(f.field, Key(UnitSeed)))>>)
        /\ unit' = [unit EXCEPT !.stage = "proving"]
     \/ /\ f.kind = "auth" /\ f.stage = 20
        /\ IF f.field = Hash(UnitSeed, Key(UnitSeed))
           THEN UnitSends(<<Frame(21, "none")>>) /\ unit' = [unit EXCEPT !.stage = "in"]
           ELSE UNCHANGED <<toHost, unit>>
  /\ UnitOnly /\ UNCHANGED budget

\* An exchange that has come to nothing is reset and begun again; one that did not,
\* when the unit is switched off and on behind a socket that stays open.
ResetExchange ==
  /\ session /\ toHost = <<>> /\ toUnit = <<>> /\ unit.stage # "announcing"
  /\ \/ ~established /\ UNCHANGED budget
     \/ UnitRestarts /\ budget.drops < MaxDrops /\ budget' = [budget EXCEPT !.drops = @ + 1]
  /\ UnitSends(<<Frame(0, "none")>>) /\ unit' = [unit EXCEPT !.stage = "announcing"]
  /\ UnitOnly /\ UNCHANGED toUnit

SendReport ==
  /\ session /\ unit.stage = "in" /\ toHost = <<>> /\ prev # ReportNow
  /\ UnitSends(<<ReportNow>>)
  /\ UnitOnly /\ UNCHANGED <<toUnit, unit, budget>>

\* Hands on the unit, at any time; a report follows each change.
TouchUnit ==
  /\ budget.moves < MaxTouches /\ budget' = [budget EXCEPT !.moves = @ + 1]
  /\ \/ \E k \in UnitKeys :
          unit' = [unit EXCEPT !.keys = IF k \in @ THEN @ \ {k} ELSE @ \cup {k}]
     \/ \E place \in Faders \ {unit.fader} : unit' = [unit EXCEPT !.fader = place]
     \/ \E t \in Turns, way \in {-1, 1} : unit' = [unit EXCEPT !.pos = (@ + way * t + Wrap) % Wrap]
  /\ IF session /\ unit.stage = "in"
     THEN UnitSends(<<[kind |-> "input", keys |-> unit'.keys, fader |-> unit'.fader,
                       pos |-> unit'.pos]>>)
     ELSE UNCHANGED toHost
  /\ UnitOnly /\ UNCHANGED toUnit

---------------------------------------------------------------------------

HidInit ==
  /\ session = FALSE /\ hs = "WaitHello" /\ established = FALSE
  /\ prev = NoReport /\ carry = 0 /\ turned = 0
  /\ toHost = <<>> /\ toUnit = <<>>
  /\ unit = [stage |-> "announcing", keys |-> {}, fader |-> 0, pos |-> 0]
  /\ deck = [held |-> {}, fader |-> Middle, ticks |-> 0]
  /\ budget = [early |-> 0, moves |-> 0, drops |-> 0]
  /\ orphans = {} /\ early = {} /\ recentred = FALSE

HidNext ==
  \/ OpenSession \/ Prompt \/ HearAuth \/ HearReport \/ EndSession
  \/ AnnounceUnit \/ AnswerHost \/ ResetExchange \/ SendReport \/ TouchUnit

HidFairness ==
  /\ WF_hidVars(OpenSession) /\ WF_hidVars(HearAuth) /\ WF_hidVars(HearReport)
  /\ WF_hidVars(AnswerHost) /\ WF_hidVars(SendReport)
  /\ SF_hidVars(AnnounceUnit) /\ SF_hidVars(ResetExchange)

HidSpec == HidInit /\ [][HidNext]_hidVars /\ HidFairness

---------------------------------------------------------------------------
(* What the surface promises. *)

\* No turn read off the platter's counter is lost or doubled by the scaling: the deck
\* is within one tick of them, however they were dealt out (JogScaler).
PlatterIsCounted ==
  LET off == turned * Num - deck.ticks * Den IN off < Den /\ off > -Den

\* With every report of a session read, the deck holds the keys that went down in it
\* and are held, and no other but those held on the unit or when an earlier session
\* ended; its tempo is where the fader stands, also if it was moved between two
\* sessions, or in the middle if TEMPO RESET came later; and the platter was counted
\* (decode, map, JogScaler).
DeckFollowsTheUnit ==
  /\ PlatterIsCounted
  /\ established /\ session /\ toHost = <<>> /\ prev = ReportNow =>
       /\ (unit.keys \cap Momentary) \ early \subseteq deck.held
       /\ deck.held \subseteq unit.keys \cup orphans
       /\ deck.fader = IF recentred THEN Middle ELSE unit.fader

\* The first report of a session presses no key on the deck: "The first report after
\* construction only seeds state (no spurious press edges), except analog values"
\* (link/src/lanhid.rs:263-265).  The code presses the keys that are down in it, so no run
\* checks this.
FirstReportSeeds ==
  [][prev = NoReport /\ prev' # NoReport => deck'.held \subseteq deck.held]_hidVars

\* A unit whose socket is there comes in and stays in, whenever it announces itself
\* and however often it does so while an exchange runs (on_frame, session).
UnitComesIn == []<>session => <>[](session /\ established /\ unit.stage = "in")
=============================================================================
