----------------------------- MODULE FrameLoop ------------------------------
(***************************************************************************)
(* The UI thread's frame loop: what makes it draw, at the display's rate   *)
(* while something moves and at the idle rate when nothing does, and how   *)
(* it rests in the background.  Only a frame applies what the surface and  *)
(* link threads sent and what the touch screen saw, so a loop that stops   *)
(* drawing is a deck that stops answering.  Two hosts drive it: winit's    *)
(* event loop, and SDL's, which draws in a plain loop.                     *)
(***************************************************************************)
EXTENDS Naturals

VARIABLES host,        \* how this build draws
          occluded,    \* in the background (iOS)
          full,        \* full_rate: the last frame saw something move
          redraw,      \* a redraw is requested
          timer,       \* ControlFlow::WaitUntil is set
          late,        \* the frame period has passed since the last frame
          due,         \* an event waits for a frame
          awake        \* the event loop has run handlers and will about_to_wait

frameVars == <<host, occluded, full, redraw, timer, late, due, awake>>

\* idle: OPENDECK_IDLE_FPS is not 0.  net: OPENDECK_HYBRID_PACE.  late: the
\* compositor may hold the redraws it was asked for back for as long as it
\* likes, which only the net answers, and only at the full rate.
Hosts == { h \in [sdl : BOOLEAN, ios : BOOLEAN, idle : BOOLEAN, net : BOOLEAN,
                  late : BOOLEAN] :
             /\ h.sdl => ~h.ios /\ ~h.net /\ ~h.late
             /\ h.late => h.net /\ ~h.idle }

-----------------------------------------------------------------------------

\* A frame: a no-op in the background.  Its rate for the next one is decided
\* before the events are applied, so what they start shows a frame later.
Render ==
  IF occluded THEN UNCHANGED <<full, late, due>>
  ELSE /\ full' \in BOOLEAN /\ (~host.idle => full')
       /\ due' = FALSE /\ late' = FALSE

\* A surface, the link or a finished load: it waits for a frame and wakes
\* nobody.
Post ==
  /\ ~due /\ due' = TRUE
  /\ UNCHANGED <<host, occluded, full, redraw, timer, late, awake>>

\* Time passes.
Tick ==
  /\ ~late /\ late' = TRUE
  /\ UNCHANGED <<host, occluded, full, redraw, timer, due, awake>>

\* A touch or a key reaches the window: egui may ask for a repaint.
WindowEvent ==
  /\ ~host.sdl /\ ~occluded
  /\ redraw' \in {redraw, TRUE} /\ due' \in {due, TRUE} /\ awake' = TRUE
  /\ UNCHANGED <<host, occluded, full, timer, late>>

\* The app goes to the background.
Occluded ==
  /\ host.ios /\ ~occluded /\ occluded' = TRUE
  /\ redraw' \in {redraw, TRUE} /\ awake' = TRUE
  /\ UNCHANGED <<host, full, timer, late, due>>

\* Mutant of Unoccluded: the loop is left to restart itself.
UnoccludedQuietly ==
  /\ occluded /\ occluded' = FALSE
  /\ awake' = TRUE
  /\ UNCHANGED <<host, full, redraw, timer, late, due>>

\* It comes back: the surface is configured anew and a redraw restarts the loop.
Unoccluded ==
  /\ occluded /\ occluded' = FALSE
  /\ redraw' = TRUE /\ awake' = TRUE
  /\ UNCHANGED <<host, full, timer, late, due>>

\* A requested redraw arrives, and asks for the next one at the full rate.
RedrawRequested ==
  /\ redraw
  /\ Render
  /\ redraw' = (~occluded /\ full')
  /\ awake' = TRUE
  /\ UNCHANGED <<host, occluded, timer>>

\* The timer wakes the loop, no earlier than its frame is due.
TimerFires ==
  /\ timer /\ timer' = FALSE
  /\ late' = TRUE /\ awake' = TRUE
  /\ UNCHANGED <<host, occluded, full, redraw, due>>

\* Before the loop sleeps, in the background: no frame and no timer.
Rest ==
  /\ occluded
  /\ timer' = FALSE
  /\ UNCHANGED <<full, redraw, late, due>>

\* Idle pacing: a frame is requested when it is due, and a timer set for the
\* next.
Idle ==
  /\ ~occluded /\ ~full /\ host.idle
  /\ redraw' = (redraw \/ late)
  /\ timer' = TRUE
  /\ UNCHANGED <<full, late, due>>

\* Without the hybrid pacer the compositor's callback is the only clock.
Follow ==
  /\ ~occluded /\ (full \/ ~host.idle) /\ ~host.net
  /\ timer' = FALSE
  /\ UNCHANGED <<full, redraw, late, due>>

\* The hybrid pacer: a callback two periods late is replaced by a frame drawn
\* here.
Net ==
  /\ ~occluded /\ (full \/ ~host.idle) /\ host.net
  /\ IF late THEN Render /\ redraw' = TRUE
             ELSE UNCHANGED <<full, redraw, late, due>>
  /\ timer' = TRUE

Sleep == Rest \/ Idle \/ Follow \/ Net

\* Mutant of AboutToWait: the background is not told apart.
AboutToWaitAnyway ==
  /\ awake /\ awake' = FALSE
  /\ timer' = (~full \/ host.net)
  /\ redraw' = (redraw \/ (late /\ ~full))
  /\ UNCHANGED <<host, occluded, full, late, due>>

\* about_to_wait: every handler has run.
AboutToWait ==
  /\ awake /\ awake' = FALSE
  /\ Sleep
  /\ UNCHANGED <<host, occluded>>

\* SDL's loop: events, a frame, a sleep when the display did not pace it.
SdlPass ==
  /\ host.sdl
  /\ Render
  /\ UNCHANGED <<host, occluded, redraw, timer, awake>>

-----------------------------------------------------------------------------

\* resumed, or run of the SDL backend: the window is there and its first redraw
\* requested.  full_rate starts TRUE.
FrameInit ==
  /\ host \in Hosts
  /\ occluded = FALSE /\ full = TRUE
  /\ redraw = ~host.sdl
  /\ timer = FALSE /\ late = FALSE /\ due = FALSE /\ awake = ~host.sdl

FrameNext ==
  \/ Post \/ Tick
  \/ WindowEvent \/ Occluded \/ Unoccluded
  \/ RedrawRequested \/ TimerFires \/ AboutToWait
  \/ SdlPass

\* The event loop runs its handlers and its timers; a compositor that is not
\* late calls back.
FrameFairness ==
  /\ WF_frameVars(SdlPass) /\ WF_frameVars(AboutToWait) /\ WF_frameVars(TimerFires)
  /\ WF_frameVars(RedrawRequested /\ ~host.late)

-----------------------------------------------------------------------------

\* What waits for a frame gets one while the app is in front, at the idle rate,
\* after a visit to the background and under a compositor that stopped calling.
DrawnWhileInFront == []<>(occluded \/ ~due)

\* An app that stays in the background comes to rest: no redraw about to come and no
\* timer to wake it (a loop that spun there was killed by the system).
BackgroundRests == <>[]occluded => <>[](~timer /\ ~awake /\ (redraw => host.late))
=============================================================================
