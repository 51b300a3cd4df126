----------------------------- MODULE LinkMaster -----------------------------
(***************************************************************************)
(* The tempo master role among freedj decks on a Pro DJ Link network: the  *)
(* shared LinkState of crates/app/src/prodj.rs, the sender's pass over it  *)
(* and the packets its listeners hear.  Time is counted in ticks of one    *)
(* status period.  A sender looks at its state many times a tick, so       *)
(* nothing it has to do waits for the next one; each section of its pass   *)
(* (silent master, handoff, status, announce) and each packet heard is one *)
(* step.  A packet arrives within the tick or is lost, and packets of one  *)
(* deck to another on the status port keep their order.                    *)
(***************************************************************************)
EXTENDS Integers, Sequences, FiniteSets

CONSTANTS Players,        \* the decks
          None,           \* player number 0
          Lead,           \* the settled master at the start, or None
          Absent,         \* decks switched off at the start
          Synced,         \* decks with SYNC on at the start
          RequestEvery,   \* ticks between two 0x26 requests
          AnnounceEvery,  \* ticks between two announces
          WantWait,       \* ticks without a master before MASTER takes the role
          MasterGone,     \* ticks of silence after which a master is forgotten
          Panel,          \* which of "master", "sync" and "control" are used
          MaxPresses,     \* presses of MASTER and SYNC, sync controls heard
          MaxPower,       \* decks switched off or on
          MaxLosses       \* packets lost

ASSUME LinkAssumption ==
  /\ None \notin Players /\ Lead \in Players \cup {None}
  /\ Absent \subseteq Players \ {Lead} /\ Synced \subseteq Players \ {Lead}
  /\ {RequestEvery, AnnounceEvery, WantWait, MasterGone} \subseteq Nat \ {0}
  /\ {MaxPresses, MaxPower, MaxLosses} \subseteq Nat

VARIABLES on,       \* which decks are switched on
          link,     \* what each deck's threads share: LinkState
          timer,    \* ticks since what the sender counts from
          beatPort, \* announces, requests and answers on their way
          status,   \* status[p][q]: p's status packets on their way to q
          spent     \* how much of each bound is used up

vars == <<on, link, timer, beatPort, status, spent>>

Someone == Players \cup {None}

LinkState == [master : BOOLEAN, sync : BOOLEAN, want : BOOLEAN, sendFull : BOOLEAN,
              handoffTo : Someone, masterPlayer : Someone, yieldedFrom : Someone,
              largestSync : Nat, ourSync : Nat, peers : SUBSET Players]

\* LinkState::new, with Link send off until MASTER is pressed.
Fresh == [master |-> FALSE, sync |-> FALSE, want |-> FALSE, sendFull |-> FALSE,
          handoffTo |-> None, masterPlayer |-> None, yieldedFrom |-> None,
          largestSync |-> 0, ourSync |-> 0, peers |-> {}]

\* The sender's clocks: status and announces are due at once.
Started == [seen |-> 0, want |-> 0, request |-> RequestEvery, status |-> 1,
            announce |-> AnnounceEvery, flags |-> <<FALSE, FALSE>>]

Packet == [kind : {"announce", "request", "agree"}, from : Players, to : Players]


Beside(p) == Players \ {p}

\* Mutant of TakeMaster: the counter is not advanced.
TakeMasterSameCounter(l) ==
  [l EXCEPT !.ourSync = l.largestSync, !.master = TRUE, !.want = FALSE, !.yieldedFrom = None]

\* LinkState::take_master
TakeMaster(l) ==
  [l EXCEPT !.ourSync = l.largestSync + 1, !.master = TRUE, !.want = FALSE, !.yieldedFrom = None]

Flags(l) == <<l.master, l.sync>>

Spend(what) == spent' = [spent EXCEPT ![what] = @ + 1]

-----------------------------------------------------------------------------
(* The keys and the sync controls other devices send (DeckApp::apply,       *)
(* listen_beat).                                                            *)

\* A pressed key, or a control heard, changes what the deck shares.
Press(p, l) ==
  /\ spent.presses < MaxPresses
  /\ on[p]
  /\ link' = [link EXCEPT ![p] = l]
  /\ Spend("presses")
  /\ UNCHANGED <<on, timer, beatPort, status>>

MasterRequest(p) ==
  /\ ~link[p].master
  /\ Press(p, [link[p] EXCEPT !.sendFull = TRUE, !.want = TRUE])

SyncToggle(p) == Press(p, [link[p] EXCEPT !.sync = ~@])

\* SYNC_ON, SYNC_OFF or BECOME_MASTER from another device: the last one does
\* not turn sending on.
SyncControl(p) ==
  \/ \E b \in BOOLEAN : Press(p, [link[p] EXCEPT !.sync = b])
  \/ Press(p, [link[p] EXCEPT !.want = TRUE])

-----------------------------------------------------------------------------
(* The sender's pass.                                                       *)

\* A master silent for MasterGone ticks is forgotten; a synced deck that sends
\* takes its place.
Silent(p) ==
  /\ on[p]
  /\ link[p].masterPlayer # None
  /\ timer[p].seen > MasterGone

\* Mutant of ForgetMaster: a synced deck does not promote itself.
ForgetMasterOnly(p) ==
  /\ Silent(p)
  /\ link' = [link EXCEPT ![p].masterPlayer = None, ![p].yieldedFrom = None]
  /\ timer' = [timer EXCEPT ![p].seen = 0]
  /\ UNCHANGED <<on, beatPort, status, spent>>


ForgetMaster(p) ==
  /\ Silent(p)
  /\ LET forgot == [link[p] EXCEPT !.masterPlayer = None, !.yieldedFrom = None] IN
     link' = [link EXCEPT ![p] = IF forgot.sync /\ forgot.sendFull THEN TakeMaster(forgot) ELSE forgot]
  /\ timer' = [timer EXCEPT ![p].seen = 0]
  /\ UNCHANGED <<on, beatPort, status, spent>>

Wanting(l) == l.sendFull /\ l.want /\ ~l.master

\* MASTER pressed, and nobody known to be master for WantWait ticks since.
Unclaimed(p) ==
  /\ on[p] /\ Wanting(link[p])
  /\ link[p].masterPlayer = None
  /\ timer[p].want >= WantWait

TakeUnclaimed(p) ==
  /\ Unclaimed(p)
  /\ link' = [link EXCEPT ![p] = TakeMaster(@)]
  /\ timer' = [timer EXCEPT ![p].want = 0]
  /\ UNCHANGED <<on, beatPort, status, spent>>

\* MASTER pressed, and the master is known: ask it, until it has agreed.
Asking(p) ==
  /\ on[p] /\ Wanting(link[p])
  /\ link[p].masterPlayer \in link[p].peers
  /\ link[p].yieldedFrom = None
  /\ timer[p].request >= RequestEvery

RequestMaster(p) ==
  /\ Asking(p)
  /\ beatPort' = beatPort \cup {[kind |-> "request", from |-> p, to |-> link[p].masterPlayer]}
  /\ timer' = [timer EXCEPT ![p].request = 0]
  /\ UNCHANGED <<on, link, status, spent>>

\* Status goes to every known peer each tick, and at once when the master or
\* sync flag has changed.
StatusDue(p) ==
  on[p] /\ link[p].sendFull /\ (timer[p].status >= 1 \/ timer[p].flags # Flags(link[p]))

SendStatus(p) ==
  /\ StatusDue(p)
  /\ LET packet == [master |-> link[p].master, handoff |-> link[p].handoffTo,
                    counter |-> link[p].ourSync] IN
     status' = [status EXCEPT ![p] =
                  [q \in Players |-> IF q \in link[p].peers /\ on[q] THEN Append(@[q], packet) ELSE @[q]]]
  /\ timer' = [timer EXCEPT ![p].status = 0, ![p].flags = Flags(link[p])]
  /\ UNCHANGED <<on, link, beatPort, spent>>

AnnounceDue(p) == on[p] /\ timer[p].announce >= AnnounceEvery

\* An announce to everyone; a deck that knows the sender learns nothing from it.
Announce(p) ==
  /\ AnnounceDue(p)
  /\ beatPort' = beatPort \cup
       {[kind |-> "announce", from |-> p, to |-> q] :
          q \in {r \in Beside(p) : on[r] /\ p \notin link[r].peers}}
  /\ timer' = [timer EXCEPT ![p].announce = 0]
  /\ UNCHANGED <<on, link, status, spent>>

-----------------------------------------------------------------------------
(* The listeners.                                                           *)

HearAnnounce(m) ==
  /\ m.kind = "announce"
  /\ link' = [link EXCEPT ![m.to].peers = @ \cup {m.from}]
  /\ beatPort' = beatPort \ {m}

\* Mutant of HearRequest: the role is dropped with the grant.
HearRequestYields(m) ==
  /\ m.kind = "request"
  /\ IF link[m.to].master
     THEN /\ link' = [link EXCEPT ![m.to].master = FALSE]
          /\ beatPort' = (beatPort \ {m}) \cup {[kind |-> "agree", from |-> m.to, to |-> m.from]}
     ELSE /\ beatPort' = beatPort \ {m}
          /\ UNCHANGED link

\* A master grants whoever asks, and forgets whom it granted before.
HearRequest(m) ==
  /\ m.kind = "request"
  /\ IF link[m.to].master
     THEN /\ link' = [link EXCEPT ![m.to].handoffTo = m.from]
          /\ beatPort' = (beatPort \ {m}) \cup {[kind |-> "agree", from |-> m.to, to |-> m.from]}
     ELSE /\ beatPort' = beatPort \ {m}
          /\ UNCHANGED link

\* Mutant of HearAgree: the agreement is taken for the role.
HearAgreeSettles(m) ==
  /\ m.kind = "agree"
  /\ link' = IF link[m.to].want
             THEN [link EXCEPT ![m.to].yieldedFrom = m.from, ![m.to].want = FALSE] ELSE link
  /\ beatPort' = beatPort \ {m}

\* The agreement is remembered; the role is taken only when the master names us.
HearAgree(m) ==
  /\ m.kind = "agree"
  /\ link' = IF link[m.to].want THEN [link EXCEPT ![m.to].yieldedFrom = m.from] ELSE link
  /\ beatPort' = beatPort \ {m}

Hear(m) ==
  /\ HearAnnounce(m) \/ HearRequest(m) \/ HearAgree(m)
  /\ UNCHANGED <<on, timer, status, spent>>

\* The sync counter of a packet is remembered if it is the largest.
Counted(l, packet) ==
  [l EXCEPT !.largestSync = IF packet.counter > @ THEN packet.counter ELSE @]

\* q is master and names us: take the role unless we have it.
HandedOver(l, q) ==
  [(IF l.master THEN l ELSE TakeMaster(l)) EXCEPT !.masterPlayer = q]

\* Mutant of NotedMaster: the claim ends the handoff but not the role.
NotedMasterKept(l, q, packet) ==
  [l EXCEPT !.masterPlayer = IF packet.master THEN q ELSE IF @ = q THEN None ELSE @,
            !.handoffTo = IF packet.master /\ l.master /\ @ = q THEN None ELSE @]

\* Mutant of NotedMaster: a claim does not make the claimer known.
NotedMasterUnseen(l, q, packet) ==
  LET claimed == packet.master /\ l.master /\ l.handoffTo = q IN
  [l EXCEPT !.masterPlayer = IF ~packet.master /\ @ = q THEN None ELSE @,
            !.master = @ /\ ~claimed,
            !.handoffTo = IF claimed THEN None ELSE @]

\* Any other status of q: who is master, and whether our successor has claimed.
NotedMaster(l, q, packet) ==
  LET claimed == packet.master /\ l.master /\ l.handoffTo = q IN
  [l EXCEPT !.masterPlayer = IF packet.master THEN q ELSE IF @ = q THEN None ELSE @,
            !.master = @ /\ ~claimed,
            !.handoffTo = IF claimed THEN None ELSE @]

HearStatus(q, p) ==
  /\ status[q][p] # <<>>
  /\ LET packet == Head(status[q][p])
         counted == Counted(link[p], packet) IN
     /\ link' = [link EXCEPT ![p] = IF packet.master /\ packet.handoff = p
                                    THEN HandedOver(counted, q)
                                    ELSE NotedMaster(counted, q, packet)]
     /\ timer' = [timer EXCEPT ![p].seen =
                    IF packet.master \/ link[p].masterPlayer = q THEN 0 ELSE @]
  /\ status' = [status EXCEPT ![q][p] = Tail(@)]
  /\ UNCHANGED <<on, beatPort, spent>>

-----------------------------------------------------------------------------
(* The world.                                                               *)

LosePacket ==
  /\ spent.lost < MaxLosses
  /\ \/ /\ \E m \in beatPort : beatPort' = beatPort \ {m}
        /\ UNCHANGED status
     \/ /\ \E p, q \in Players : status[p][q] # <<>> /\ status' = [status EXCEPT ![p][q] = Tail(@)]
        /\ UNCHANGED beatPort
  /\ Spend("lost")
  /\ UNCHANGED <<on, link, timer>>

\* Packets from and to a deck that is off are gone.
Without(p) ==
  /\ beatPort' = {m \in beatPort : p \notin {m.from, m.to}}
  /\ status' = [q \in Players |-> [r \in Players |-> IF p \in {q, r} THEN <<>> ELSE status[q][r]]]

SwitchOff(p) ==
  /\ spent.power < MaxPower
  /\ on[p] /\ on' = [on EXCEPT ![p] = FALSE]
  /\ link' = [link EXCEPT ![p] = Fresh] /\ timer' = [timer EXCEPT ![p] = Started]
  /\ Without(p)
  /\ Spend("power")

SwitchOn(p) ==
  /\ spent.power < MaxPower
  /\ ~on[p] /\ on' = [on EXCEPT ![p] = TRUE]
  /\ Spend("power")
  /\ UNCHANGED <<link, timer, beatPort, status>>

\* Nothing on the network, nothing due at any sender.
Settled ==
  /\ beatPort = {} /\ \A p, q \in Players : status[p][q] = <<>>
  /\ \A p \in Players : ~Silent(p) /\ ~Unclaimed(p) /\ ~Asking(p) /\ ~StatusDue(p) /\ ~AnnounceDue(p)

\* Clocks stop counting where nothing looks at them any more.
Older(age, top) == IF age >= top THEN age ELSE age + 1

Tick ==
  /\ Settled
  /\ timer' = [p \in Players |->
       IF ~on[p] THEN timer[p]
       ELSE [timer[p] EXCEPT
               !.seen = IF link[p].masterPlayer = None THEN 0 ELSE Older(@, MasterGone + 1),
               !.want = IF Wanting(link[p]) THEN Older(@, WantWait) ELSE 0,
               !.request = Older(@, RequestEvery),
               !.status = 1,
               !.announce = Older(@, AnnounceEvery)]]
  /\ UNCHANGED <<on, link, beatPort, status, spent>>

\* Decks that have been up for a while and know each other and their master.
Init ==
  /\ on = [p \in Players |-> p \notin Absent]
  /\ link = [p \in Players |->
       IF p \in Absent THEN Fresh
       ELSE [Fresh EXCEPT !.peers = Beside(p) \ Absent,
                          !.master = (p = Lead), !.sendFull = (p = Lead \/ p \in Synced),
                          !.sync = (p \in Synced),
                          !.ourSync = IF p = Lead THEN 1 ELSE 0,
                          !.largestSync = IF p # Lead /\ Lead # None THEN 1 ELSE 0,
                          !.masterPlayer = IF p # Lead THEN Lead ELSE None]]
  /\ timer = [p \in Players |->
       IF p \in Absent THEN Started
       ELSE [Started EXCEPT !.status = 0, !.announce = 0, !.flags = <<p = Lead, p \in Synced>>]]
  /\ beatPort = {}
  /\ status = [p \in Players |-> [q \in Players |-> <<>>]]
  /\ spent = [presses |-> 0, power |-> 0, lost |-> 0]

Keys(p) ==
  \/ "master" \in Panel /\ MasterRequest(p)
  \/ "sync" \in Panel /\ SyncToggle(p)
  \/ "control" \in Panel /\ SyncControl(p)

Sender(p) ==
  \/ ForgetMaster(p) \/ TakeUnclaimed(p) \/ RequestMaster(p)
  \/ SendStatus(p) \/ Announce(p)

Listeners ==
  \/ \E m \in beatPort : Hear(m)
  \/ \E p, q \in Players : HearStatus(q, p)

\* What happens by itself: threads run, packets arrive, time passes.
Runs == (\E p \in Players : Sender(p)) \/ Listeners \/ Tick

Next ==
  \/ \E p \in Players : Keys(p) \/ SwitchOff(p) \/ SwitchOn(p)
  \/ Runs
  \/ LosePacket

Spec == Init /\ [][Next]_vars

\* Threads and time do not stop.  A tick waits for everything that is due, which
\* is finite, so no sender and no packet is left behind either.
Fairness == WF_vars(Runs)

FairSpec == Spec /\ Fairness

-----------------------------------------------------------------------------

\* "ProDJ Link has exactly one tempo master at a time": two decks hold the role
\* together only while one of them is handing it to the other.
OneMaster ==
  \A p, q \in Players :
    p # q /\ link[p].master /\ link[q].master => link[p].handoffTo = q \/ link[q].handoffTo = p

\* Nobody was switched off so far: every switch turned an absent deck on.
AllStayed == spent.power = Cardinality({p \in Absent : on[p]})

\* The role is never dropped between two decks: while nobody is switched off the
\* network always has a master.
NeverMasterless == AllStayed /\ Lead # None => \E p \in Players : on[p] /\ link[p].master

\* The role is taken with a sync counter newer than every other deck's.
NewestCounter ==
  [][\A p, q \in Players :
       ~link[p].master /\ link'[p].master /\ p # q => link'[p].ourSync > link[q].ourSync]_vars

\* A press of MASTER on a deck that sends is answered: the deck gets the role.
MasterIsAnswered ==
  \A p \in Players : (on[p] /\ Wanting(link[p])) ~> (~on[p] \/ link[p].master)

\* A synced deck that sends and whose master was switched off does not stay
\* without a tempo reference.
GroupKeepsAReference ==
  \A p, m \in Players :
    (on[p] /\ link[p].sync /\ link[p].sendFull /\ link[p].masterPlayer = m /\ ~on[m]) ~>
      (~on[p] \/ ~link[p].sync \/ on[m] \/ \E q \in Players : on[q] /\ link[q].master)

\* Every deck comes to know who is master.
MasterBecomesKnown ==
  <>[](\A p, q \in Players :
         on[p] /\ on[q] /\ p # q /\ link[q].master => link[p].masterPlayer = q)
=============================================================================
