--------------------------- MODULE CuePlay_proof ---------------------------
(***************************************************************************)
(* The CUE / PLAY promises for a track of every length.  CuedIsHonest is   *)
(* not inductive: a pause keeps `cued`, so one has to know that a deck     *)
(* that plays outside a preview is never cued.                             *)
(***************************************************************************)
EXTENDS CuePlay, TLAPS

\* A deck that is cued outside a preview stands still.
CuedStandsStill == tr.cued /\ ~tr.preview => ~playing

IInv == TypeOK /\ CuedIsHonest /\ PreviewIsHeld /\ CuedStandsStill


USE NoneAssumption, LengthAssumption DEF NoneAssumption, LengthAssumption

-----------------------------------------------------------------------------
(* What carrying out each kind of outcome does to the deck.                 *)

\* Deck::apply of a pause with a seek.
LEMMA CarryPauseAt ==
  ASSUME NEW t, NEW p \in Nat, Carry(Result(t, PauseAt(p)))
  PROVE  tr' = t /\ playing' = FALSE /\ pos' = Landing(p)
  BY DEF Carry, Result, PauseAt

\* Deck::apply of a seek that plays.
LEMMA CarryPlayFrom ==
  ASSUME NEW t, NEW p \in Nat, Carry(Result(t, PlayFrom(p)))
  PROVE  tr' = t /\ playing' = TRUE /\ pos' = Landing(p)
  BY DEF Carry, Result, PlayFrom

\* Deck::apply of play or pause in place.
LEMMA CarrySetPlaying ==
  ASSUME NEW t, NEW on \in BOOLEAN, Carry(Result(t, SetPlaying(on)))
  PROVE  tr' = t /\ playing' = on /\ pos' = pos
  BY DEF Carry, Result, SetPlaying

\* Deck::apply of an outcome that asks for nothing.
LEMMA CarryLeaveAlone ==
  ASSUME NEW t, Carry(Result(t, LeaveAlone))
  PROVE  tr' = t /\ playing' = playing /\ pos' = pos
  BY DEF Carry, Result, LeaveAlone

\* A release of CUE returns from a preview, or does nothing.
LEMMA CueUpDoes ==
  ASSUME TypeOK, Carry(CueUp(tr))
  PROVE  /\ tr.preview => /\ tr' = [tr EXCEPT !.preview = FALSE, !.cued = TRUE]
                          /\ playing' = FALSE /\ pos' = tr.cue_point
         /\ ~tr.preview => tr' = tr /\ playing' = playing /\ pos' = pos
<1>1. CASE tr.preview
  <2>1. Carry(Result([tr EXCEPT !.preview = FALSE, !.cued = TRUE], PauseAt(tr.cue_point)))
    BY <1>1 DEF CueUp
  <2>2. tr.cue_point \in Nat /\ Landing(tr.cue_point) = tr.cue_point
    BY DEF TypeOK, Positions, Landing
  <2> QED
    BY <1>1, <2>1, <2>2, CarryPauseAt
<1>2. CASE ~tr.preview
  <2>1. Carry(Result(tr, LeaveAlone))
    BY <1>2 DEF CueUp
  <2> QED
    BY <1>2, <2>1, CarryLeaveAlone
<1> QED
  BY <1>1, <1>2

\* A press of CUE returns from playback, previews the cue, or sets and previews it.
LEMMA CueDownDoes ==
  ASSUME TypeOK, Carry(CueDown(tr, playing, pos))
  PROVE  /\ playing => /\ tr' = [tr EXCEPT !.cued = TRUE]
                       /\ playing' = FALSE /\ pos' = tr.cue_point
         /\ ~playing /\ tr.cued => /\ tr' = [tr EXCEPT !.preview = TRUE]
                                   /\ playing' = TRUE /\ pos' = tr.cue_point
         /\ ~playing /\ ~tr.cued =>
              /\ tr' = [cue_point |-> pos, cued |-> TRUE, preview |-> TRUE]
              /\ playing' = TRUE /\ pos' = pos
<1>0. tr.cue_point \in Nat /\ Landing(tr.cue_point) = tr.cue_point
  BY DEF TypeOK, Positions, Landing
<1>1. CASE playing
  <2>1. Carry(Result([tr EXCEPT !.cued = TRUE], PauseAt(tr.cue_point)))
    BY <1>1 DEF CueDown
  <2> QED
    BY <1>0, <1>1, <2>1, CarryPauseAt
<1>2. CASE ~playing /\ tr.cued
  <2>1. Carry(Result([tr EXCEPT !.preview = TRUE], PlayFrom(tr.cue_point)))
    BY <1>2 DEF CueDown
  <2> QED
    BY <1>0, <1>2, <2>1, CarryPlayFrom
<1>3. CASE ~playing /\ ~tr.cued
  <2>1. Carry(Result([cue_point |-> pos, cued |-> TRUE, preview |-> TRUE], SetPlaying(TRUE)))
    BY <1>3 DEF CueDown
  <2> QED
    BY <1>3, <2>1, CarrySetPlaying
<1> QED
  BY <1>1, <1>2, <1>3

\* A press of PLAY latches a preview, pauses, or plays.
LEMMA PlayOrPauseDoes ==
  ASSUME TypeOK, Carry(PlayOrPause(tr, playing))
  PROVE  /\ pos' = pos
         /\ tr.preview => /\ tr' = [tr EXCEPT !.preview = FALSE, !.cued = FALSE]
                          /\ playing' = TRUE
         /\ ~tr.preview /\ playing => tr' = tr /\ playing' = FALSE
         /\ ~tr.preview /\ ~playing => tr' = [tr EXCEPT !.cued = FALSE] /\ playing' = TRUE
<1>1. CASE tr.preview
  <2>1. Carry(Result([tr EXCEPT !.preview = FALSE, !.cued = FALSE], SetPlaying(TRUE)))
    BY <1>1 DEF PlayOrPause, Latch
  <2> QED
    BY <1>1, <2>1, CarrySetPlaying
<1>2. CASE ~tr.preview /\ playing
  <2>1. Carry(Result(tr, SetPlaying(FALSE)))
    BY <1>2 DEF PlayOrPause
  <2> QED
    BY <1>2, <2>1, CarrySetPlaying
<1>3. CASE ~tr.preview /\ ~playing
  <2>1. Carry(Result([tr EXCEPT !.cued = FALSE], SetPlaying(TRUE)))
    BY <1>3 DEF PlayOrPause
  <2> QED
    BY <1>3, <2>1, CarrySetPlaying
<1> QED
  BY <1>1, <1>2, <1>3

-----------------------------------------------------------------------------

\* A freshly loaded deck is parked on its cue with no key held (Deck::reset).
LEMMA InitIInv == Init => IInv
<1> SUFFICES ASSUME Init PROVE IInv
  OBVIOUS
<1>1. PICK cue \in Positions : pos = cue /\ tr = NewTransport(cue)
  BY DEF Init
<1>2. tr = [cue_point |-> cue, cued |-> TRUE, preview |-> FALSE]
  BY <1>1 DEF NewTransport
<1>3. TypeOK
  <2>1. cue \in Positions /\ tr \in [cue_point : Positions, cued : BOOLEAN, preview : BOOLEAN]
    BY <1>2
  <2> QED
    BY <1>1, <2>1 DEF Init, TypeOK
<1>4. tr.cue_point = pos /\ tr.preview = FALSE /\ playing = FALSE /\ held = "up"
  BY <1>1, <1>2 DEF Init
<1> QED
  BY <1>3, <1>4 DEF IInv, CuedIsHonest, PreviewIsHeld, CuedStandsStill

\* Every key, search, placement and moment of playback keeps the invariant.
LEMMA NextIInv == IInv /\ [Next]_vars => IInv'
<1> SUFFICES ASSUME IInv, [Next]_vars PROVE IInv'
  OBVIOUS
<1> USE DEF IInv, TypeOK, CuedIsHonest, PreviewIsHeld, CuedStandsStill, Positions
<1>1. CASE PressPlay
  <2>1. Carry(PlayOrPause(tr, playing)) /\ held' = IF held = "preview" THEN "locked" ELSE held
    BY <1>1 DEF PressPlay
  <2> QED
    BY <2>1, PlayOrPauseDoes
<1>2. CASE PressCue
  <2>1. Carry(CueDown(tr, playing, pos)) /\ held = "up"
        /\ held' = IF playing THEN "locked" ELSE "preview"
    BY <1>2 DEF PressCue
  <2>2. CASE playing
    <3>1. tr' = [tr EXCEPT !.cued = TRUE] /\ playing' = FALSE /\ pos' = tr.cue_point
          /\ held' = "locked"
      BY <2>1, <2>2, CueDownDoes
    <3> QED
      BY <2>1, <3>1
  <2>3. CASE ~playing /\ tr.cued
    <3>1. tr' = [tr EXCEPT !.preview = TRUE] /\ playing' = TRUE /\ pos' = tr.cue_point
          /\ held' = "preview"
      BY <2>1, <2>3, CueDownDoes
    <3> QED
      BY <3>1
  <2>4. CASE ~playing /\ ~tr.cued
    <3>1. tr' = [cue_point |-> pos, cued |-> TRUE, preview |-> TRUE]
          /\ playing' = TRUE /\ pos' = pos /\ held' = "preview"
      BY <2>1, <2>4, CueDownDoes
    <3> QED
      BY <3>1
  <2> QED
    BY <2>2, <2>3, <2>4
<1>3. CASE ReleaseCue
  <2>1. Carry(CueUp(tr)) /\ held' = "up"
    BY <1>3 DEF ReleaseCue
  <2> QED
    BY <2>1, CueUpDoes
<1>4. ASSUME NEW p \in Positions, Needle(p) PROVE IInv'
  BY <1>4 DEF Needle, Searched
<1>5. ASSUME NEW p \in Positions, PlaceOnCue(p) PROVE IInv'
  BY <1>5 DEF PlaceOnCue, ArrivedAtCue
<1>6. ASSUME NEW p \in Positions, Recue(p) PROVE IInv'
  BY <1>6 DEF Recue, ArrivedAtCue
<1>7. CASE EndOfTrack
  BY <1>7 DEF EndOfTrack
<1>8. CASE Advance
  BY <1>8 DEF Advance
<1>9. CASE UNCHANGED vars
  BY <1>9 DEF vars
<1> QED
  BY <1>1, <1>2, <1>3, <1>4, <1>5, <1>6, <1>7, <1>8, <1>9 DEF Next

\* The invariant holds always.
THEOREM Invariance == Spec => []IInv
  BY InitIInv, NextIInv, PTL DEF Spec

\* Type correctness: the playhead never leaves the track and the transport never
\* remembers a cue outside it.
THEOREM TypeCorrect == Spec => []TypeOK
  BY Invariance, PTL DEF IInv

\* A deck at rest outside a preview is cued only on its cue point.
THEOREM CuedHonest == Spec => []CuedIsHonest
  BY Invariance, PTL DEF IInv

\* The rules are in a preview exactly while the key that started it is held and
\* no PLAY has latched.
THEOREM PreviewHeld == Spec => []PreviewIsHeld
  BY Invariance, PTL DEF IInv

\* Releasing CUE returns to the cue and pauses after a preview, and otherwise
\* leaves the deck alone (cue-preview-returns, cue-play-locks-in).
THEOREM ReleaseReturns == Spec => ReleaseReturnsOrNothing
<1>1. IInv /\ [Next]_vars =>
        [held # "up" /\ held' = "up" =>
           IF held = "preview" THEN ~playing' /\ pos' = tr'.cue_point
                               ELSE playing' = playing /\ pos' = pos]_vars
  <2> SUFFICES ASSUME IInv, Next, held # "up", held' = "up"
               PROVE  IF held = "preview" THEN ~playing' /\ pos' = tr'.cue_point
                                          ELSE playing' = playing /\ pos' = pos
    OBVIOUS
  <2>1. ReleaseCue
    BY DEF IInv, TypeOK, Next, PressPlay, PressCue, Needle, PlaceOnCue, Recue, EndOfTrack, Advance
  <2> QED
    BY <2>1, CueUpDoes DEF IInv, TypeOK, PreviewIsHeld, ReleaseCue
<1> QED
  BY <1>1, Invariance, PTL DEF Spec, ReleaseReturnsOrNothing

\* The cue point moves only on a deck at rest before or after the step, and only
\* to where the playhead was or comes to be.
THEOREM CueMoves == Spec => CueMovesOnlyAtRest
<1>1. IInv /\ [Next]_vars =>
        [tr'.cue_point # tr.cue_point => (~playing \/ ~playing')
                                     /\ (tr'.cue_point = pos \/ tr'.cue_point = pos')]_vars
  <2> SUFFICES ASSUME IInv, Next, tr'.cue_point # tr.cue_point
               PROVE  (~playing \/ ~playing') /\ (tr'.cue_point = pos \/ tr'.cue_point = pos')
    OBVIOUS
  <2> USE DEF IInv, TypeOK
  <2>1. CASE PressPlay
    BY <2>1, PlayOrPauseDoes DEF PressPlay
  <2>2. CASE PressCue
    <3>1. Carry(CueDown(tr, playing, pos))
      BY <2>2 DEF PressCue
    <3>2. playing => tr'.cue_point = tr.cue_point
      BY <3>1, CueDownDoes
    <3>3. ~playing \/ tr'.cue_point = tr.cue_point
      BY <3>2
    <3>4. ~playing /\ tr.cued => tr'.cue_point = tr.cue_point
      BY <3>1, CueDownDoes
    <3>5. ASSUME ~playing, ~tr.cued PROVE tr'.cue_point = pos
      <4>1. tr' = [cue_point |-> pos, cued |-> TRUE, preview |-> TRUE]
        BY <3>1, <3>5, CueDownDoes
      <4> QED
        BY <4>1
    <3> QED
      BY <3>3, <3>4, <3>5
  <2>3. CASE ReleaseCue
    BY <2>3, CueUpDoes DEF ReleaseCue
  <2>4. ASSUME NEW p \in Positions, Needle(p) \/ PlaceOnCue(p) \/ Recue(p)
        PROVE  (~playing \/ ~playing') /\ (tr'.cue_point = pos \/ tr'.cue_point = pos')
    BY <2>4 DEF Needle, PlaceOnCue, Recue, Searched, ArrivedAtCue
  <2>5. CASE EndOfTrack \/ Advance
    BY <2>5 DEF EndOfTrack, Advance
  <2> QED
    BY <2>1, <2>2, <2>3, <2>4, <2>5 DEF Next
<1> QED
  BY <1>1, Invariance, PTL DEF Spec, CueMovesOnlyAtRest
=============================================================================
