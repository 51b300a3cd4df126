---------------------------- MODULE Panel_proof ----------------------------
(***************************************************************************)
(* Proofs about what surrounds the deck's keys: the deck's speed comes     *)
(* back when nothing bends it (TempoFollow), a beat grid keeps its         *)
(* numbering when it is moved (GridAdjust), a beat counts once (BeatRow)   *)
(* and the deck follows the CDJ that controls it (LanHid).  The four share *)
(* no variable.                                                            *)
(***************************************************************************)
EXTENDS TempoFollow, GridAdjust, BeatRow, LanHid, SequenceTheorems, TLAPS

---------------------------------------------------------------------------
(* Quotients. *)

\* A number is its quotient's multiple and its remainder.
LEMMA DivMod ==
  ASSUME NEW a \in Int, NEW n \in Nat \ {0}
  PROVE  /\ a \div n \in Int /\ a % n \in 0 .. n - 1
         /\ a = n * (a \div n) + (a % n)
OBVIOUS

\* Only one multiple and remainder make up a number.
LEMMA OneQuotient ==
  ASSUME NEW q \in Int, NEW p \in Int, NEW r \in Int, NEW s \in Int, NEW n \in Nat \ {0},
         n * q + r = n * p + s, 0 <= r, r < n, 0 <= s, s < n
  PROVE  q = p /\ r = s
<1>1. ASSUME NEW x \in Int, NEW y \in Int, x < y PROVE n * x + n <= n * y
  <2>1. n * (x + 1) <= n * y
    BY <1>1
  <2> QED BY <2>1
<1>2. ~(q < p)
  BY <1>1
<1>3. ~(p < q)
  BY <1>1
<1> QED BY <1>2, <1>3

\* What makes up a number is its quotient and remainder.
LEMMA QuotientIs ==
  ASSUME NEW a \in Int, NEW q \in Int, NEW r \in Int, NEW n \in Nat \ {0},
         a = n * q + r, 0 <= r, r < n
  PROVE  a \div n = q /\ a % n = r
BY DivMod, OneQuotient

\* A distance shorter than the counter, seen through it.
LEMMA TurnedModulo ==
  ASSUME NEW n \in Nat \ {0}, NEW p \in 0 .. n - 1, NEW s \in Int, -n < s, s < n
  PROVE  (((p + s + n) % n) - p + n) % n = IF s < 0 THEN s + n ELSE s
<1> DEFINE a == p + s + n
           q == a \div n
           r == a % n
<1>1. a \in Int /\ a = p + s + n
  OBVIOUS
<1> HIDE DEF a
<1>2. q \in Int /\ r \in Int /\ a = n * q + r
  BY <1>1, DivMod
<1> HIDE DEF q, r
<1>3. CASE s < 0
  <2>1. r - p + n = n * (1 - q) + (s + n)
    BY <1>1, <1>2
  <2>2. 1 - q \in Int /\ s + n \in Int /\ r - p + n \in Int /\ 0 <= s + n /\ s + n < n
    BY <1>2, <1>3
  <2>3. (r - p + n) % n = s + n
    BY <2>1, <2>2, QuotientIs
  <2> QED BY <1>3, <2>3 DEF r, a
<1>4. CASE ~(s < 0)
  <2>1. r - p + n = n * (2 - q) + s
    BY <1>1, <1>2
  <2>2. 2 - q \in Int /\ r - p + n \in Int /\ 0 <= s
    BY <1>2, <1>4
  <2>3. (r - p + n) % n = s
    BY ZenonT(40), <2>1, <2>2, QuotientIs
  <2> QED BY <1>4, <2>3 DEF r, a
<1> QED BY <1>3, <1>4

---------------------------------------------------------------------------
(* The speed. *)

Unbent == bend = 0 /\ nudge = 0

\* Whose bend it is, by thread.
Own(thread) == IF thread = "ui" THEN bend ELSE nudge

\* What a thread may still have to store while it bends nothing: tempos.
Straight(sequence) ==
  \/ sequence = <<>>
  \/ \E t \in Tempos : \/ sequence = <<To("fader", t)>>
                       \/ sequence = <<To("speed", t)>>
                       \/ sequence = <<To("fader", t), To("speed", t)>>

\* Of those, what ends with a tempo in the speed.
Returning(sequence) ==
  \E t \in Tempos : \/ sequence = <<To("speed", t)>>
                    \/ sequence = <<To("fader", t), To("speed", t)>>

\* A bend: a speed that need be no tempo.
Bending(sequence) == \E v : sequence = <<To("speed", v)>>

TempoType ==
  /\ DOMAIN speeds = {"fader", "speed"} /\ speeds["fader"] \in Tempos
  /\ masterTempo \in [speed : Tempos, seq : {0, 1}, seen : {0, 1}]
  /\ pass \in [fader : Tempos, sync : BOOLEAN, want : Tempos]
  /\ DOMAIN stores = Threads

\* Only a thread that bends has a bend to store.
StoresType ==
  \A thread \in Threads :
    Straight(stores[thread]) \/ (Own(thread) # 0 /\ Bending(stores[thread]))

\* With nothing bent the speed is a tempo, or a thread will still store one.
NoBendStays ==
  Unbent => speeds["speed"] \in Tempos \/ \E thread \in Threads : Returning(stores[thread])

\* What a thread has computed brings the speed to the fader: both of one value, or
\* the speed of the fader as it is.
ComesBack(sequence, fader) ==
  \/ \E t \in Tempos : sequence = <<To("fader", t), To("speed", t)>>
  \/ sequence = <<To("speed", fader)>>

\* With nothing bent, either all is stored and the speed is the fader's, or one thread
\* is still to store and will bring it there.
SettledOrSettling ==
  \/ /\ \A thread \in Threads : stores[thread] = <<>>
     /\ speeds["speed"] = speeds["fader"]
  \/ \E thread \in Threads : ComesBack(stores[thread], speeds["fader"])

\* Only one thread has anything to store.
OneStores == \A a, b \in Threads : a # b => stores[a] = <<>> \/ stores[b] = <<>>

\* Until two computations cross.
Uncrossed == ~crossed => OneStores /\ (Unbent => SettledOrSettling)

TempoInv == TempoType /\ StoresType /\ NoBendStays /\ Uncrossed

\* What each kind of sequence is, and what is left of it once its head is stored.
LEMMA Sequences ==
  /\ \A a : <<a>> # <<>> /\ Head(<<a>>) = a /\ Tail(<<a>>) = <<>>
  /\ \A a, b : <<a, b>> # <<>> /\ Head(<<a, b>>) = a /\ Tail(<<a, b>>) = <<b>>
<1>1. ASSUME NEW a PROVE <<a>> # <<>> /\ Head(<<a>>) = a /\ Tail(<<a>>) = <<>>
  BY Len(<<a>>) = 1, Len(<<>>) = 0
<1>2. ASSUME NEW a, NEW b
      PROVE  <<a, b>> # <<>> /\ Head(<<a, b>>) = a /\ Tail(<<a, b>>) = <<b>>
  BY Len(<<a, b>>) = 2, Len(<<>>) = 0
<1> QED BY <1>1, <1>2

\* Nothing to store does not bring the speed back.
LEMMA NothingIsNoReturn ==
  ASSUME NEW sequence, NEW fader, ComesBack(sequence, fader)
  PROVE  sequence # <<>>
BY Sequences DEF ComesBack

\* Starting what one thread computes, whatever the other still has to store.
LEMMA ComputedFromLoads ==
  ASSUME TempoInv, NEW thread \in Threads, Free(thread),
         NEW sequence, Computed(thread, sequence), speeds' = speeds,
         masterTempo' \in [speed : Tempos, seq : {0, 1}, seen : {0, 1}],
         pass' \in [fader : Tempos, sync : BOOLEAN, want : Tempos],
         \A other \in Threads \ {thread} : Own(other)' = Own(other),
         Straight(sequence) \/ (Own(thread)' # 0 /\ Bending(sequence)),
         Unbent' => \/ sequence = <<>> /\ Unbent
                    \/ ComesBack(sequence, speeds["fader"])
  PROVE  TempoInv'
<1>1. /\ DOMAIN stores' = Threads /\ stores'[thread] = sequence /\ stores[thread] = <<>>
      /\ \A other \in Threads \ {thread} : stores'[other] = stores[other]
  BY DEF Computed, Free, TempoInv, TempoType
<1>2. TempoType'
  BY <1>1 DEF TempoInv, TempoType
<1>3. StoresType'
  <2>1. ASSUME NEW other \in Threads \ {thread}
        PROVE  \/ Straight(stores'[other])
               \/ Own(other)' # 0 /\ Bending(stores'[other])
    BY <1>1 DEF TempoInv, StoresType
  <2>2. Straight(stores'[thread]) \/ (Own(thread)' # 0 /\ Bending(stores'[thread]))
    BY <1>1
  <2> QED BY <2>1, <2>2 DEF StoresType, Straight, Bending
<1>4. NoBendStays'
  <2> SUFFICES ASSUME Unbent'
               PROVE  \/ speeds["speed"] \in Tempos
                      \/ \E other \in Threads : Returning(stores'[other])
    BY DEF NoBendStays, Returning
  <2>1. CASE sequence = <<>> /\ Unbent
    <3>1. \A other \in Threads : stores'[other] = stores[other]
      BY <1>1, <2>1
    <3> QED BY <2>1, <3>1 DEF TempoInv, NoBendStays
  <2>2. CASE ComesBack(sequence, speeds["fader"])
    <3>1. Returning(sequence)
      BY <2>2 DEF ComesBack, Returning, TempoInv, TempoType
    <3> QED BY <1>1, <3>1
  <2> QED BY <2>1, <2>2
<1>5. Uncrossed'
  <2> SUFFICES ASSUME ~crossed' PROVE OneStores' /\ (Unbent' => SettledOrSettling')
    BY DEF Uncrossed
  <2>1. CASE sequence = <<>>
    <3>1. \A other \in Threads : stores'[other] = stores[other]
      BY <1>1, <2>1
    <3>2. ~crossed
      BY <2>1 DEF Computed
    <3>3. Unbent' => Unbent
      BY <2>1, NothingIsNoReturn
    <3>4. OneStores /\ (Unbent' => SettledOrSettling)
      BY <3>2, <3>3 DEF TempoInv, Uncrossed
    <3> QED BY <3>1, <3>4 DEF OneStores, SettledOrSettling, ComesBack
  <2>2. CASE sequence # <<>>
    <3>1. \A other \in Threads \ {thread} : stores'[other] = <<>>
      BY <1>1, <2>2 DEF Computed, Alone
    <3>2. OneStores'
      BY <3>1 DEF OneStores
    <3>3. Unbent' => ComesBack(stores'[thread], speeds'["fader"])
      BY <1>1, <2>2
    <3> QED BY <3>2, <3>3 DEF SettledOrSettling, ComesBack
  <2> QED BY <2>1, <2>2
<1> QED BY <1>2, <1>3, <1>4, <1>5 DEF TempoInv

\* One store of a thread: a tempo into the fader, or what it had for the speed.
LEMMA StoredOne ==
  ASSUME TempoInv, NEW thread \in Threads, Store(thread)
  PROVE  TempoInv'
<1> DEFINE s == stores[thread]
<1>1. /\ DOMAIN stores' = Threads /\ stores'[thread] = Tail(s) /\ s # <<>>
      /\ \A other \in Threads \ {thread} : stores'[other] = stores[other]
      /\ UNCHANGED <<bend, nudge, masterTempo, pass, crossed>>
  BY DEF Store, TempoInv, TempoType
<1>2. DOMAIN speeds' = {"fader", "speed"}
  BY DEF Store, TempoInv, TempoType
<1>3. /\ Head(s).to = "fader" => /\ speeds'["fader"] = Head(s).value
                                 /\ speeds'["speed"] = speeds["speed"]
      /\ Head(s).to = "speed" => /\ speeds'["speed"] = Head(s).value
                                 /\ speeds'["fader"] = speeds["fader"]
  BY DEF Store, TempoInv, TempoType
<1>4. \/ \E t \in Tempos : s = <<To("fader", t)>>
      \/ \E t \in Tempos : s = <<To("speed", t)>>
      \/ \E t \in Tempos : s = <<To("fader", t), To("speed", t)>>
      \/ Own(thread) # 0 /\ \E v : s = <<To("speed", v)>>
  BY <1>1 DEF TempoInv, StoresType, Straight, Bending
<1> HIDE DEF s
<1>5. ASSUME NEW t \in Tempos, s = <<To("fader", t)>>
      PROVE  /\ speeds'["fader"] = t /\ speeds'["speed"] = speeds["speed"]
             /\ stores'[thread] = <<>> /\ ~Returning(s)
  <2>1. Head(s) = To("fader", t) /\ Tail(s) = <<>>
    BY <1>5, Sequences
  <2>2. ~Returning(s)
    BY <2>1, Sequences DEF Returning, To
  <2> QED BY <1>1, <1>3, <2>1, <2>2 DEF To
<1>6. ASSUME NEW v, s = <<To("speed", v)>>
      PROVE  /\ speeds'["speed"] = v /\ speeds'["fader"] = speeds["fader"]
             /\ stores'[thread] = <<>>
  <2>1. Head(s) = To("speed", v) /\ Tail(s) = <<>>
    BY <1>6, Sequences
  <2> QED BY <1>1, <1>3, <2>1 DEF To
<1>7. ASSUME NEW t \in Tempos, s = <<To("fader", t), To("speed", t)>>
      PROVE  /\ speeds'["fader"] = t /\ speeds'["speed"] = speeds["speed"]
             /\ stores'[thread] = <<To("speed", t)>>
  <2>1. Head(s) = To("fader", t) /\ Tail(s) = <<To("speed", t)>>
    BY <1>7, Sequences
  <2> QED BY <1>1, <1>3, <2>1 DEF To
<1>8. TempoType'
  <2>1. speeds'["fader"] \in Tempos
    BY <1>4, <1>5, <1>6, <1>7 DEF TempoInv, TempoType
  <2> QED BY <1>1, <1>2, <2>1 DEF TempoInv, TempoType
<1>9. StoresType'
  <2>1. Straight(stores'[thread])
    BY <1>4, <1>5, <1>6, <1>7 DEF Straight
  <2>2. ASSUME NEW other \in Threads \ {thread}
        PROVE  Straight(stores'[other]) \/ (Own(other)' # 0 /\ Bending(stores'[other]))
    BY <1>1 DEF TempoInv, StoresType, Own
  <2> QED BY <2>1, <2>2 DEF StoresType, Straight, Bending
<1>10. NoBendStays'
  <2> SUFFICES ASSUME Unbent
               PROVE  \/ speeds'["speed"] \in Tempos
                      \/ \E other \in Threads : Returning(stores'[other])
    BY <1>1 DEF NoBendStays, Returning, Unbent
  <2>1. Own(thread) = 0
    BY DEF Unbent, Own
  <2>2. CASE \E t \in Tempos : s = <<To("speed", t)>>
    BY <1>6, <2>2
  <2>3. CASE \E t \in Tempos : s = <<To("fader", t), To("speed", t)>>
    BY <1>7, <2>3 DEF Returning
  <2>4. CASE \E t \in Tempos : s = <<To("fader", t)>>
    <3>1. speeds'["speed"] = speeds["speed"] /\ ~Returning(s)
      BY <1>5, <2>4
    <3>2. \/ speeds["speed"] \in Tempos
          \/ \E other \in Threads \ {thread} : Returning(stores[other])
      BY <3>1 DEF TempoInv, NoBendStays, s
    <3> QED BY <1>1, <3>1, <3>2
  <2> QED BY <1>4, <2>1, <2>2, <2>3, <2>4
<1>11. Uncrossed'
  <2> SUFFICES ASSUME ~crossed PROVE OneStores' /\ (Unbent => SettledOrSettling')
    BY <1>1 DEF Uncrossed, Unbent
  <2>1. \A other \in Threads \ {thread} : stores[other] = <<>> /\ stores'[other] = <<>>
    BY <1>1 DEF TempoInv, Uncrossed, OneStores, s
  <2>2. OneStores'
    BY <2>1 DEF OneStores
  <2>3. ASSUME Unbent PROVE SettledOrSettling'
    <3>1. ComesBack(s, speeds["fader"])
      BY <1>1, <2>1, <2>3, NothingIsNoReturn DEF TempoInv, Uncrossed, SettledOrSettling, s
    <3>2. CASE s = <<To("speed", speeds["fader"])>>
      BY <1>6, <2>1, <3>2 DEF SettledOrSettling
    <3>3. CASE \E t \in Tempos : s = <<To("fader", t), To("speed", t)>>
      BY <1>7, <3>3 DEF SettledOrSettling, ComesBack
    <3> QED BY <3>1, <3>2, <3>3 DEF ComesBack
  <2> QED BY <2>2, <2>3
<1> QED BY <1>8, <1>9, <1>10, <1>11 DEF TempoInv

\* One step of whoever writes the speed.
LEMMA TempoStep ==
  ASSUME TempoInv, TempoNext
  PROVE  TempoInv'
<1>0. /\ speeds["fader"] \in Tempos /\ masterTempo.speed \in Tempos /\ Threads = {"ui", "tx"}
      /\ masterTempo \in [speed : Tempos, seq : {0, 1}, seen : {0, 1}]
      /\ pass \in [fader : Tempos, sync : BOOLEAN, want : Tempos] /\ pass.want \in Tempos
  BY DEF TempoInv, TempoType, Threads
<1>1. ASSUME NEW t \in Tempos, TempoFader(t) PROVE TempoInv'
  BY <1>0, <1>1, ComputedFromLoads DEF TempoFader, ComesBack, Straight, Own
<1>2. ASSUME NEW offset \in Bends, JogBend(offset) PROVE TempoInv'
  <2>1. Unbent' = FALSE /\ Own("ui")' # 0
    BY <1>2, TempoAssumption DEF JogBend, Unbent, Own
  <2> QED BY <1>0, <1>2, <2>1, ComputedFromLoads DEF JogBend, Bending, Own
<1>3. CASE JogSnapBack
  BY <1>0, <1>3, ComputedFromLoads DEF JogSnapBack, ComesBack, Straight, Own
<1>4. CASE SyncToggle
  BY <1>0, <1>4, ComputedFromLoads
     DEF SyncToggle, SyncToggleSpeed, ComesBack, Straight, Own, Unbent
<1>5. CASE FollowTempo
  <2>1. CASE nudge = 0
    BY <1>0, <1>5, <2>1, ComputedFromLoads DEF FollowTempo, ComesBack, Straight, Own
  <2>2. CASE nudge # 0
    BY <1>0, <1>5, <2>2, ComputedFromLoads DEF FollowTempo, Straight, Own, Unbent
  <2> QED BY <2>1, <2>2
<1>6. CASE NudgePhase
  <2>1. CASE UNCHANGED <<nudge, stores, crossed>>
    BY <1>0, <1>6, <2>1
       DEF NudgePhase, TempoInv, TempoType, StoresType, NoBendStays, Uncrossed, OneStores,
           Unbent, SettledOrSettling, Own
  <2>2. ASSUME NEW offset \in Nudges, nudge' = offset,
               Computed("tx", <<To("speed", pass.want + offset)>>)
        PROVE  TempoInv'
    <3>1. Unbent' = FALSE /\ Own("tx")' # 0
      BY <2>2, TempoAssumption DEF Unbent, Own
    <3>2. masterTempo' \in [speed : Tempos, seq : {0, 1}, seen : {0, 1}]
      BY <1>0, <1>6 DEF NudgePhase
    <3> QED BY <1>0, <1>6, <2>2, <3>1, <3>2, ComputedFromLoads DEF NudgePhase, Bending, Own
  <2> QED BY <1>6, <2>1, <2>2 DEF NudgePhase
<1>7. CASE EndNudge
  BY <1>0, <1>7, ComputedFromLoads DEF EndNudge, ComesBack, Straight, Own
<1>8. CASE MasterBeat \/ \E t \in Tempos : MasterPitch(t)
  <2>1. masterTempo' \in [speed : Tempos, seq : {0, 1}, seen : {0, 1}]
    BY <1>0, <1>8 DEF MasterBeat, MasterPitch
  <2> QED BY <1>8, <2>1
       DEF MasterBeat, MasterPitch, TempoInv, TempoType, StoresType, NoBendStays, Uncrossed,
           OneStores, Unbent, SettledOrSettling, Own
<1>9. CASE LoadFader \/ LoadSync
  <2>1. pass' \in [fader : Tempos, sync : BOOLEAN, want : Tempos]
    BY <1>0, <1>9 DEF LoadFader, LoadSync
  <2> QED BY <1>9, <2>1
       DEF LoadFader, LoadSync, TempoInv, TempoType, StoresType, NoBendStays, Uncrossed,
           OneStores, Unbent, SettledOrSettling, Own
<1>10. ASSUME NEW thread \in Threads, Store(thread) PROVE TempoInv'
  BY <1>10, StoredOne
<1> QED BY <1>1, <1>2, <1>3, <1>4, <1>5, <1>6, <1>7, <1>8, <1>9, <1>10 DEF TempoNext

\* However the loads and stores of the two threads fall between each other, a deck that
\* nothing bends has no bend or nudge left in its speed, whoever bent it and in whatever
\* order it ended; and it runs at the tempo of its fader unless the last computation to
\* touch the tempo crossed the other thread's stores (lib.rs:1976, prodj.rs:1014).
THEOREM SpeedComesBack ==
  TempoSpec => []BendsComeBack
<1>1. TempoInit => TempoInv
  BY DEF TempoInit, TempoInv, TempoType, StoresType, NoBendStays, Uncrossed, OneStores,
         SettledOrSettling, Straight, Threads
<1>2. TempoInv /\ [TempoNext]_tempoVars => TempoInv'
  <2>1. CASE UNCHANGED tempoVars
    BY <2>1 DEF tempoVars, TempoInv, TempoType, StoresType, NoBendStays, Uncrossed,
                OneStores, Unbent, SettledOrSettling, Own
  <2> QED BY <2>1, TempoStep
<1>3. TempoInv => BendsComeBack
  <2> SUFFICES ASSUME TempoInv, AtRest PROVE BendsComeBack
    BY DEF BendsComeBack
  <2>1. Unbent /\ \A thread \in Threads : stores[thread] = <<>>
    BY DEF AtRest, Unbent
  <2>2. \A thread \in Threads : /\ ~Returning(stores[thread])
                                /\ ~ComesBack(stores[thread], speeds["fader"])
    BY <2>1, Sequences, NothingIsNoReturn DEF Returning
  <2> QED BY <2>1, <2>2 DEF TempoInv, NoBendStays, Uncrossed, SettledOrSettling, BendsComeBack
<1> QED BY <1>1, <1>2, <1>3, PTL DEF TempoSpec
---------------------------------------------------------------------------
(* The beats. *)

\* Nothing under way is overdue, nor late by more than Held.
OnItsWay(air_, now) ==
  \A p \in air_ : /\ p.at \in Nat /\ p.due \in Nat
                  /\ p.at <= now /\ now <= p.due /\ p.due <= p.at + Held

\* A beat that was taken was taken after it was sent: it is no newer than the last taking.
TakenSince(h) == \A at \in h.taken : h.at # NoBeat /\ at <= h.at

BeatInv ==
  /\ tick \in Nat /\ heard \in [at : Nat \cup {NoBeat}, taken : SUBSET Nat, twice : {FALSE}]
  /\ heard.at <= tick /\ OnItsWay(air, tick) /\ TakenSince(heard)

\* A packet heard: a copy of a beat that was taken is within TWIN_MS of it.
LEMMA BeatHeard ==
  ASSUME Held < Twin, BeatInv, NEW p \in air, HearBeat(p)
  PROVE  BeatInv'
<1> USE BeatAssumption
<1>1. OnItsWay(air', tick') /\ tick' = tick
  BY DEF HearBeat, BeatInv, OnItsWay
<1>2. CASE IsTwin
  BY <1>1, <1>2 DEF HearBeat, BeatInv
<1>3. CASE ~IsTwin
  <2>1. p.at \in Nat /\ p.at <= tick /\ tick <= p.at + Held
    BY DEF BeatInv, OnItsWay, HearBeat, Due
  <2>2. p.at \notin heard.taken
    <3>1. SUFFICES ASSUME p.at \in heard.taken PROVE FALSE
      OBVIOUS
    <3>2. heard.at \in Nat /\ p.at <= heard.at
      BY <3>1 DEF BeatInv, TakenSince
    <3>3. tick - heard.at < Twin
      BY <2>1, <3>2 DEF BeatInv
    <3> QED BY <1>3, <3>2, <3>3 DEF IsTwin, NoBeat
  <2>3. heard' = [heard EXCEPT !.at = tick, !.twice = heard.twice \/ p.at \in heard.taken,
                               !.taken = heard.taken \cup {p.at}]
    BY <1>3 DEF HearBeat
  <2>4. /\ heard.twice = FALSE /\ heard.taken \in SUBSET Nat
        /\ heard = [at |-> heard.at, taken |-> heard.taken, twice |-> heard.twice]
    BY DEF BeatInv
  <2>5. heard' = [at |-> tick, taken |-> heard.taken \cup {p.at}, twice |-> FALSE]
    BY <2>2, <2>3, <2>4
  <2>6. heard' \in [at : Nat \cup {NoBeat}, taken : SUBSET Nat, twice : {FALSE}]
    BY <2>1, <2>4, <2>5 DEF BeatInv
  <2>7. TakenSince(heard')
    <3>1. ASSUME NEW at \in heard.taken PROVE at <= tick
      <4>1. at \in Nat /\ heard.at \in Nat /\ at <= heard.at
        BY <3>1 DEF BeatInv, TakenSince
      <4> QED BY <4>1, <2>1 DEF BeatInv
    <3> QED BY <2>1, <2>5, <3>1 DEF TakenSince, NoBeat, BeatInv
  <2>8. heard'.at <= tick /\ tick \in Nat
    BY <2>5 DEF BeatInv
  <2> QED BY <1>1, <2>6, <2>7, <2>8 DEF BeatInv
<1> QED BY <1>2, <1>3
\* One step of the beats.
LEMMA BeatStep ==
  ASSUME Held < Twin, BeatInv, BeatNext
  PROVE  BeatInv'
<1> USE BeatAssumption
<1>1. CASE SendBeat
  <2>1. PICK copies \in SUBSET {"broadcast", "unicast"},
             delays \in [{"broadcast", "unicast"} -> 0 .. Held] :
          air' = air \cup {[kind |-> "beat", at |-> tick, copy |-> c, due |-> tick + delays[c],
                            bib |-> (AtBeat % 4) + 1, playing |-> TRUE] : c \in copies}
    BY <1>1 DEF SendBeat
  <2>2. ASSUME NEW p \in air', p \notin air
        PROVE  p.at \in Nat /\ p.due \in Nat /\ p.at <= tick /\ tick <= p.due /\ p.due <= p.at + Held
    <3>1. PICK c \in copies : p.at = tick /\ p.due = tick + delays[c]
      BY <2>1, <2>2
    <3>2. delays[c] \in 0 .. Held
      OBVIOUS
    <3> QED BY <3>1, <3>2 DEF BeatInv
  <2>3. OnItsWay(air', tick)
    BY <2>2 DEF OnItsWay, BeatInv
  <2> QED BY <1>1, <2>3 DEF SendBeat, BeatInv
<1>2. CASE SendStatus
  <2>1. ASSUME NEW p \in air', p \notin air
        PROVE  p.at \in Nat /\ p.due \in Nat /\ p.at <= tick /\ tick <= p.due /\ p.due <= p.at + Held
    <3>1. p.at = tick /\ p.due = tick
      BY <1>2, <2>1 DEF SendStatus
    <3> QED BY <3>1 DEF BeatInv
  <2>2. OnItsWay(air', tick)
    BY <2>1 DEF OnItsWay, BeatInv
  <2> QED BY <1>2, <2>2 DEF SendStatus, BeatInv
<1>3. CASE PlayerKey \/ LoadRow \/ DropRow
  BY <1>3 DEF PlayerKey, LoadRow, DropRow, BeatInv
<1>4. ASSUME NEW p \in air, HearBeat(p) PROVE BeatInv'
  BY <1>4, BeatHeard
<1>5. ASSUME NEW p \in air, HearStatus(p) PROVE BeatInv'
  BY <1>5 DEF HearStatus, BeatInv, OnItsWay
<1>6. CASE Tick
  <2>1. tick' = tick + 1 /\ UNCHANGED <<air, heard>> /\ tick \in Nat
    BY <1>6 DEF Tick, BeatInv
  <2>2. OnItsWay(air, tick + 1)
    <3>1. ASSUME NEW p \in air PROVE p.at <= tick + 1 /\ tick + 1 <= p.due
      <4>1. p.due # tick
        BY <1>6 DEF Tick, Due
      <4> QED BY <2>1, <4>1 DEF BeatInv, OnItsWay
    <3> QED BY <3>1 DEF BeatInv, OnItsWay
  <2>3. heard.at <= tick + 1
    BY <2>1 DEF BeatInv, NoBeat
  <2>4. OnItsWay(air', tick') /\ heard'.at <= tick'
    BY <2>1, <2>2, <2>3
  <2>5. tick' \in Nat
    BY <2>1
  <2> QED BY <2>1, <2>4, <2>5 DEF BeatInv
<1> QED BY <1>1, <1>2, <1>3, <1>4, <1>5, <1>6 DEF BeatNext

\* If no datagram is under way for TWIN_MS, a beat counts once, however its two copies
\* are delayed or lost and whatever the beats of before and after do (beat_is_twin).
THEOREM CountedOnce ==
  ASSUME Held < Twin
  PROVE  BeatSpec => []BeatCountsOnce
<1>1. BeatInit => BeatInv
  BY DEF BeatInit, BeatInv, OnItsWay, TakenSince, NoBeat
<1>2. BeatInv /\ [BeatNext]_rowVars => BeatInv'
  <2>1. CASE UNCHANGED rowVars
    BY <2>1 DEF rowVars, BeatInv
  <2> QED BY <2>1, BeatStep
<1>3. BeatInv => BeatCountsOnce
  BY DEF BeatInv, BeatCountsOnce
<1> QED BY <1>1, <1>2, <1>3, PTL DEF BeatSpec
---------------------------------------------------------------------------
(* The CDJ that controls the deck. *)

Reports == [kind : {"input"}, keys : SUBSET UnitKeys, fader : Faders, pos : 0 .. Wrap - 1]

Proof == Frame(19, Hash(HostSeed, Key(UnitSeed)))
HostProof == Frame(20, Hash(UnitSeed, Key(UnitSeed)))

ToHost == Reports \cup {Frame(0, "none"), Frame(17, "none"), Proof, Frame(21, "none")}
ToUnit == {Hello, Status, Frame(18, HostSeed), HostProof}

HidType ==
  /\ session \in BOOLEAN /\ established \in BOOLEAN
  /\ prev \in Reports \cup {NoReport} /\ carry \in Int /\ turned \in Int
  /\ toHost \in Seq(ToHost) /\ toUnit \in Seq(ToUnit)
  /\ unit \in [stage : {"announcing", "proving", "in"}, keys : SUBSET UnitKeys,
               fader : Faders, pos : 0 .. Wrap - 1]
  /\ deck \in [held : SUBSET Momentary, fader : Faders, ticks : Int]
  /\ recentred \in BOOLEAN

\* What the deck was told so far of the platter and what is still carried make up what
\* was turned.
CountInv == /\ turned * Num = deck.ticks * Den + carry
            /\ carry < Den /\ -Den < carry

\* The keys of the report before.
Was == IF prev = NoReport THEN {} ELSE prev.keys

\* While a session runs the deck has followed its last report; what it holds besides
\* was held when an earlier session ended.
FollowInv ==
  /\ ~session => deck.held \subseteq orphans
  /\ session => /\ deck.held \subseteq Was \cup orphans
                /\ (Was \cap Momentary) \ early \subseteq deck.held
                /\ prev # NoReport => deck.fader = IF recentred THEN Middle ELSE prev.fader

HidInv == HidType /\ CountInv /\ FollowInv
\* Scaling: the whole ticks and the remainder make up what came, and the remainder is
\* less than a tick.
LEMMA ScaledExactly ==
  ASSUME HidType, CountInv, NEW native \in Int
  PROVE  LET s == ScaledTicks(native) IN
         /\ s.ticks \in Int /\ s.carry \in Int
         /\ s.ticks * Den + s.carry = carry + native * Num
         /\ s.carry < Den /\ -Den < s.carry
<1> DEFINE v == carry + native * Num
           w == IF v < 0 THEN -((-v) \div Den) ELSE v \div Den
<1>1. v \in Int /\ Den \in Nat \ {0}
  BY LanHidAssumption DEF HidType
<1>2. w \in Int /\ v - w * Den \in Int /\ v - w * Den < Den /\ -Den < v - w * Den
  <2> HIDE DEF v
  <2>1. CASE v < 0
    BY <1>1, <2>1, DivMod, -v \in Int
  <2>2. CASE ~(v < 0)
    BY <1>1, <2>2, DivMod
  <2> QED BY <2>1, <2>2
<1>3. ScaledTicks(native) = [ticks |-> w, carry |-> v - w * Den]
  BY DEF ScaledTicks
<1> HIDE DEF w
<1>4. w * Den + (v - w * Den) = v
  <2> HIDE DEF v
  <2> QED BY <1>1, <1>2
<1> QED BY <1>2, <1>3, <1>4

\* Two counts that agree agree after what each is told of the same turn.
LEMMA CountsAgree ==
  ASSUME NEW a \in Int, NEW b \in Int, NEW c \in Int, NEW m \in Int, NEW n \in Int,
         NEW x \in Int, NEW y \in Int, NEW z \in Int,
         a * m = b * n + c, y * n + z = c + x * m
  PROVE  (a + x) * m = (b + y) * n + z
<1>1. (a + x) * m = a * m + x * m /\ (b + y) * n = b * n + y * n
  OBVIOUS
<1>2. a * m \in Int /\ x * m \in Int /\ b * n \in Int /\ y * n \in Int
  OBVIOUS
<1> QED BY <1>1, <1>2

\* The difference of two positions is a number.
LEMMA DeltaIsInt ==
  ASSUME HidType, NEW now \in 0 .. Wrap - 1
  PROVE  Delta(now) \in Int
<1> DEFINE e == now - prev.pos + Wrap
           d == e % Wrap
<1>1. CASE prev = NoReport
  BY <1>1 DEF Delta
<1>2. CASE prev # NoReport
  <2>1. prev.pos \in 0 .. Wrap - 1 /\ Wrap \in Nat \ {0}
    BY <1>2, LanHidAssumption DEF HidType, Reports
  <2>2. d \in Int
    <3>1. e \in Int
      BY <2>1
    <3> HIDE DEF e
    <3>2. d \in 0 .. Wrap - 1
      BY <2>1, <3>1, DivMod
    <3> QED BY <2>1, <3>2
  <2> HIDE DEF d
  <2>3. Delta(now) = IF 2 * d >= Wrap THEN d - Wrap ELSE d
    BY <1>2 DEF Delta, d
  <2> QED BY <2>1, <2>2, <2>3
<1> QED BY <1>1, <1>2

\* Wherever the platter's counter stood, and whether or not it wrapped, the difference
\* is by how far the platter was turned and which way (wrapping_u16_delta).
THEOREM WrapIsSeen ==
  ASSUME prev # NoReport, prev \in Reports, NEW t \in Turns, NEW way \in {-1, 1}
  PROVE  Delta((prev.pos + way * t + Wrap) % Wrap) = way * t
<1> DEFINE s == way * t
           d == (((prev.pos + s + Wrap) % Wrap) - prev.pos + Wrap) % Wrap
<1>1. /\ Wrap \in Nat \ {0} /\ prev.pos \in 0 .. Wrap - 1
      /\ t \in Nat /\ 2 * t < Wrap
  BY LanHidAssumption DEF Reports
<1>2. s \in Int /\ 2 * s < Wrap /\ -Wrap < 2 * s
  BY <1>1
<1> HIDE DEF s
<1>3. d = IF s < 0 THEN s + Wrap ELSE s
  <2>1. -Wrap < s /\ s < Wrap
    BY <1>1, <1>2
  <2> QED BY <1>1, <1>2, <2>1, TurnedModulo
<1>4. Delta((prev.pos + s + Wrap) % Wrap) = IF 2 * d >= Wrap THEN d - Wrap ELSE d
  BY DEF Delta
<1> HIDE DEF d
<1>5. Delta((prev.pos + s + Wrap) % Wrap) = s
  BY <1>1, <1>2, <1>3, <1>4
<1> QED BY <1>5 DEF s
\* A report heard: the deck and what is carried move on together.
LEMMA ReportHeard ==
  ASSUME HidInv, HearReport
  PROVE  HidInv'
<1> DEFINE r == Head(toHost)
<1>1. toHost \in Seq(ToHost) /\ toHost # <<>> /\ r \in ToHost /\ toHost' \in Seq(ToHost)
  BY DEF HearReport, HidInv, HidType
<1>2. r \in Reports
  BY <1>1 DEF HearReport, ToHost, Frame, Proof
<1> HIDE DEF r
<1>3. CASE ~established
  BY <1>1, <1>3 DEF HearReport, HidInv, HidType, CountInv, FollowInv, Was
<1>4. CASE established
  <2> DEFINE s == ScaledTicks(Delta(r.pos))
  <2>1. /\ deck' = Told(r) /\ prev' = r /\ carry' = s.carry
        /\ turned' = turned + Delta(r.pos)
        /\ orphans' = orphans \ (Edges(r.keys).down \cup Edges(r.keys).up)
        /\ early' = IF prev = NoReport THEN r.keys ELSE early \cap r.keys
        /\ recentred' =
             (~FaderTold(r) /\ (recentred \/ TempoReset \in Edges(r.keys).down))
        /\ session /\ UNCHANGED <<session, hs, established, toUnit, unit, budget>>
    BY <1>4 DEF HearReport, r
  <2>2. /\ r.keys \in SUBSET UnitKeys /\ r.fader \in Faders /\ r.pos \in 0 .. Wrap - 1
    BY <1>2 DEF Reports
  <2>3. Delta(r.pos) \in Int
    BY <2>2, DeltaIsInt DEF HidInv
  <2>4. /\ s.ticks \in Int /\ s.carry \in Int
        /\ s.ticks * Den + s.carry = carry + Delta(r.pos) * Num
        /\ s.carry < Den /\ -Den < s.carry
    BY <2>3, ScaledExactly DEF HidInv
  <2> HIDE DEF s
  <2>5. /\ deck'.held = (deck.held \cup (Edges(r.keys).down \cap Momentary)) \ Edges(r.keys).up
        /\ deck'.fader = IF FaderTold(r) THEN r.fader
                         ELSE IF TempoReset \in Edges(r.keys).down THEN Middle ELSE deck.fader
        /\ deck'.ticks = deck.ticks + s.ticks
        /\ deck' = [held |-> deck'.held, fader |-> deck'.fader, ticks |-> deck'.ticks]
    BY <2>1 DEF Told, s
  <2>6. Edges(r.keys) = [down |-> r.keys \ Was, up |-> Was \ r.keys]
    BY DEF Edges, Was
  <2>7. r # NoReport /\ NoReport \notin Reports
    BY <1>2, LanHidAssumption DEF Reports, UnitKeys, Faders
  <2>8. CountInv'
    <3> DEFINE x == Delta(r.pos)
               y == s.ticks
               z == s.carry
               b == deck.ticks
    <3>1. /\ turned \in Int /\ carry \in Int /\ b \in Int /\ Num \in Int /\ Den \in Int
          /\ turned * Num = b * Den + carry
      BY LanHidAssumption DEF HidInv, HidType, CountInv
    <3>2. x \in Int /\ y \in Int /\ z \in Int /\ y * Den + z = carry + x * Num
      BY <2>3, <2>4
    <3> HIDE DEF x, y, z, b
    <3>3. (turned + x) * Num = (b + y) * Den + z
      BY <3>1, <3>2, CountsAgree
    <3>4. turned' = turned + x /\ deck'.ticks = b + y /\ carry' = z
      BY <2>1, <2>5 DEF x, y, z, b
    <3>5. z < Den /\ -Den < z
      BY <2>4 DEF z
    <3> QED BY <3>3, <3>4, <3>5 DEF CountInv
  <2>9. FollowInv'
    <3>1. /\ deck.held \subseteq Was \cup orphans
          /\ (Was \cap Momentary) \ early \subseteq deck.held
          /\ prev # NoReport => deck.fader = IF recentred THEN Middle ELSE prev.fader
      BY <2>1 DEF HidInv, FollowInv
    <3>2. Was' = r.keys
      BY <2>1, <2>7 DEF Was
    <3>3. deck'.held \subseteq r.keys \cup orphans'
      BY <2>1, <2>5, <2>6, <3>1
    <3>4. (r.keys \cap Momentary) \ early' \subseteq deck'.held
      BY <2>1, <2>5, <2>6, <3>1
    <3>5. deck'.fader = IF recentred' THEN Middle ELSE r.fader
      BY <2>1, <2>5, <3>1 DEF FaderTold
    <3> QED BY <2>1, <3>2, <3>3, <3>4, <3>5 DEF FollowInv
  <2>10. HidType'
    <3>1. deck'.held \in SUBSET Momentary
      BY <2>5 DEF HidInv, HidType
    <3>2. deck'.ticks \in Int
      BY <2>4, <2>5 DEF HidInv, HidType
    <3>3. deck' \in [held : SUBSET Momentary, fader : Faders, ticks : Int]
      <4>1. deck.fader \in Faders /\ Middle \in Faders
        BY DEF HidInv, HidType, Faders, Middle
      <4>2. deck'.fader \in Faders
        BY <2>2, <2>5, <4>1
      <4> QED BY <2>5, <3>1, <3>2, <4>2
    <3>4. turned' \in Int /\ carry' \in Int /\ prev' \in Reports /\ recentred' \in BOOLEAN
      BY <1>2, <2>1, <2>3, <2>4 DEF HidInv, HidType
    <3> QED BY <1>1, <2>1, <3>3, <3>4 DEF HidInv, HidType
  <2> QED BY <2>8, <2>9, <2>10 DEF HidInv
<1> QED BY <1>3, <1>4

\* What the handshake answers is a challenge, its own proof or nothing.
LEMMA Answers ==
  ASSUME NEW f \in ToHost, f.kind = "auth"
  PROVE  OnFrame(f).reply \in {<<>>, <<Frame(18, HostSeed)>>, <<HostProof>>}
<1>1. f.stage \in {0, 17, 19, 21}
  BY DEF ToHost, Reports, Frame, Proof
<1> QED BY <1>1 DEF OnFrame, HostProof

\* Where the step leaves everything alone but the handshake, the socket and the unit's stage,
\* the deck follows as before.
LEMMA SocketOnly ==
  ASSUME HidInv, toHost' \in Seq(ToHost), toUnit' \in Seq(ToUnit), established' \in BOOLEAN,
         unit' \in [stage : {"announcing", "proving", "in"}, keys : SUBSET UnitKeys,
                    fader : Faders, pos : 0 .. Wrap - 1],
         UNCHANGED <<session, prev, carry, turned, deck, orphans, early, recentred>>
  PROVE  HidInv'
BY DEF HidInv, HidType, CountInv, FollowInv, Was
\* One step of the unit or of its session.
LEMMA HidStep ==
  ASSUME HidInv, HidNext
  PROVE  HidInv'
<1>0. /\ toHost \in Seq(ToHost) /\ toUnit \in Seq(ToUnit)
      /\ unit \in [stage : {"announcing", "proving", "in"}, keys : SUBSET UnitKeys,
                   fader : Faders, pos : 0 .. Wrap - 1]
      /\ session \in BOOLEAN /\ established \in BOOLEAN /\ recentred \in BOOLEAN
      /\ deck \in [held : SUBSET Momentary, fader : Faders, ticks : Int]
      /\ Wrap \in Nat \ {0}
  BY LanHidAssumption DEF HidInv, HidType
<1>a. ASSUME NEW m \in ToHost PROVE toHost \o <<m>> \in Seq(ToHost)
  BY <1>0, <1>a
<1>b. /\ Frame(17, "none") \in ToHost /\ Frame(0, "none") \in ToHost
      /\ Frame(21, "none") \in ToHost /\ Proof \in ToHost
      /\ <<>> \in Seq(ToHost) /\ <<>> \in Seq(ToUnit)
  BY DEF ToHost
<1>1. CASE OpenSession
  <2>1. unit' \in [stage : {"announcing", "proving", "in"}, keys : SUBSET UnitKeys,
                   fader : Faders, pos : 0 .. Wrap - 1]
    BY <1>0, <1>1 DEF OpenSession
  <2>2. /\ deck'.held = deck.held /\ deck'.ticks = 0
        /\ deck' \in [held : SUBSET Momentary, fader : Faders, ticks : Int]
    BY <1>0, <1>1 DEF OpenSession
  <2>3. HidType'
    BY <1>0, <1>1, <1>b, <2>1, <2>2 DEF OpenSession, HidType
  <2>4. CountInv'
    BY <1>1, <2>2, LanHidAssumption DEF OpenSession, CountInv
  <2>5. FollowInv'
    BY <1>1, <2>2 DEF OpenSession, HidInv, FollowInv, Was
  <2> QED BY <2>3, <2>4, <2>5 DEF HidInv
<1>2. CASE Prompt
  <2>1. toUnit' \in Seq(ToUnit)
    BY <1>2 DEF Prompt, ToUnit
  <2> QED BY <1>0, <1>2, <2>1, SocketOnly DEF Prompt
<1>3. CASE HearAuth
  <2>1. /\ Head(toHost) \in ToHost /\ Head(toHost).kind = "auth" /\ toHost' \in Seq(ToHost)
        /\ UNCHANGED <<session, prev, carry, unit, deck, orphans, early, recentred, turned>>
    BY <1>0, <1>3 DEF HearAuth
  <2>2. established' \in BOOLEAN
    BY <1>0, <1>3 DEF HearAuth
  <2>3. toUnit' \in Seq(ToUnit)
    <3>1. CASE established
      BY <1>0, <1>3, <3>1 DEF HearAuth
    <3>2. CASE ~established
      <4>1. toUnit' = toUnit \o OnFrame(Head(toHost)).reply
        BY <1>3, <3>2 DEF HearAuth
      <4>2. OnFrame(Head(toHost)).reply \in Seq(ToUnit)
        <5>1. Frame(18, HostSeed) \in ToUnit /\ HostProof \in ToUnit
          BY DEF ToUnit
        <5>2. <<Frame(18, HostSeed)>> \in Seq(ToUnit) /\ <<HostProof>> \in Seq(ToUnit)
          BY <5>1
        <5> QED BY <1>b, <2>1, <5>2, Answers
      <4> QED BY <1>0, <4>1, <4>2
    <3> QED BY <3>1, <3>2
  <2> QED BY <1>0, <2>1, <2>2, <2>3, SocketOnly
<1>4. CASE HearReport
  BY <1>4, ReportHeard
<1>5. CASE EndSession
  BY <1>0, <1>b, <1>5 DEF EndSession, HidInv, HidType, CountInv, FollowInv
<1>6. CASE AnnounceUnit
  BY <1>0, <1>a, <1>b, <1>6, SocketOnly DEF AnnounceUnit, UnitOnly, UnitSends
<1>7. CASE AnswerHost
  <2> DEFINE f == Head(toUnit)
  <2>1. f \in ToUnit /\ toUnit' \in Seq(ToUnit)
    BY <1>0, <1>7 DEF AnswerHost
  <2>2. f \in {Hello, Status} \/ f = Frame(18, HostSeed) \/ f = HostProof
    BY <2>1 DEF ToUnit
  <2>3. /\ toHost' \in Seq(ToHost)
        /\ unit' \in [stage : {"announcing", "proving", "in"}, keys : SUBSET UnitKeys,
                      fader : Faders, pos : 0 .. Wrap - 1]
    <3>1. CASE f \in {Hello, Status}
      BY <1>0, <1>7, <3>1 DEF AnswerHost, Hello, Status
    <3>2. CASE f = Frame(18, HostSeed)
      <4>1. f.kind = "auth" /\ f.stage = 18 /\ f.field = HostSeed
        BY <3>2 DEF Frame
      <4>2. /\ toHost' = toHost \o <<Proof>>
            /\ unit' = [unit EXCEPT !.stage = "proving"]
        BY <1>7, <4>1 DEF AnswerHost, UnitSends, Proof
      <4> QED BY <1>0, <1>a, <1>b, <4>2
    <3>3. CASE f = HostProof
      <4>1. f.kind = "auth" /\ f.stage = 20 /\ f.field = Hash(UnitSeed, Key(UnitSeed))
        BY <3>3 DEF Frame, HostProof
      <4>2. /\ toHost' = toHost \o <<Frame(21, "none")>>
            /\ unit' = [unit EXCEPT !.stage = "in"]
        BY <1>7, <4>1 DEF AnswerHost, UnitSends
      <4> QED BY <1>0, <1>a, <1>b, <4>2
    <3> QED BY <2>2, <3>1, <3>2, <3>3
  <2> QED BY <1>0, <1>7, <2>1, <2>3, SocketOnly DEF AnswerHost, UnitOnly
<1>8. CASE ResetExchange
  BY <1>0, <1>a, <1>b, <1>8, SocketOnly DEF ResetExchange, UnitOnly, UnitSends
<1>9. CASE SendReport
  <2>1. ReportNow \in ToHost
    BY <1>0 DEF ReportNow, ToHost, Reports
  <2> QED BY <1>0, <1>a, <1>9, <2>1, SocketOnly DEF SendReport, UnitOnly, UnitSends
<1>10. CASE TouchUnit
  <2>1. unit' \in [stage : {"announcing", "proving", "in"}, keys : SUBSET UnitKeys,
                   fader : Faders, pos : 0 .. Wrap - 1]
    <3>1. ASSUME NEW k \in UnitKeys,
                 unit' = [unit EXCEPT !.keys = IF k \in @ THEN @ \ {k} ELSE @ \cup {k}]
          PROVE  unit'.keys \in SUBSET UnitKeys /\ unit' = [unit EXCEPT !.keys = unit'.keys]
      BY <1>0, <3>1
    <3>2. ASSUME NEW t \in Turns, NEW way \in {-1, 1},
                 unit' = [unit EXCEPT !.pos = (@ + way * t + Wrap) % Wrap]
          PROVE  unit'.pos \in 0 .. Wrap - 1 /\ unit' = [unit EXCEPT !.pos = unit'.pos]
      <4>1. unit.pos + way * t + Wrap \in Int
        BY <1>0, LanHidAssumption
      <4> DEFINE a == unit.pos + way * t + Wrap
      <4>2. a % Wrap \in 0 .. Wrap - 1
        <5> HIDE DEF a
        <5> QED BY <1>0, <4>1, DivMod DEF a
      <4> QED BY <1>0, <3>2, <4>2
    <3>3. ASSUME NEW place \in Faders, unit' = [unit EXCEPT !.fader = place]
          PROVE  unit'.fader \in Faders /\ unit' = [unit EXCEPT !.fader = unit'.fader]
      BY <1>0, <3>3
    <3> QED BY <1>0, <1>10, <3>1, <3>2, <3>3 DEF TouchUnit
  <2>2. [kind |-> "input", keys |-> unit'.keys, fader |-> unit'.fader, pos |-> unit'.pos] \in ToHost
    BY <2>1 DEF ToHost, Reports
  <2> QED BY <1>0, <1>a, <1>10, <2>1, <2>2, SocketOnly DEF TouchUnit, UnitOnly, UnitSends
<1> QED BY <1>1, <1>2, <1>3, <1>4, <1>5, <1>6, <1>7, <1>8, <1>9, <1>10 DEF HidNext

\* The deck follows the CDJ that controls it: with every report read it holds the keys
\* pressed and held there, its tempo is where the fader stands or, from TEMPO RESET until
\* the fader moves, in the middle, and it was told of every turn of the platter (decode,
\* map_button, JogScaler), however the sockets ended and the unit asked again.
THEOREM FollowsTheUnit ==
  HidSpec => []DeckFollowsTheUnit
<1>1. HidInit => HidInv
  <2> SUFFICES ASSUME HidInit PROVE HidInv
    OBVIOUS
  <2>1. /\ 0 \in 0 .. Wrap - 1 /\ {} \in SUBSET UnitKeys /\ {} \in SUBSET Momentary
        /\ <<>> \in Seq(ToHost) /\ <<>> \in Seq(ToUnit)
        /\ 0 \in Faders /\ Middle \in Faders
        /\ 0 * Num = 0 * Den + 0 /\ 0 < Den
    BY LanHidAssumption DEF Faders, Middle
  <2>2. HidType
    <3>1. unit \in [stage : {"announcing", "proving", "in"}, keys : SUBSET UnitKeys,
                    fader : Faders, pos : 0 .. Wrap - 1]
      BY <2>1 DEF HidInit
    <3>2. deck \in [held : SUBSET Momentary, fader : Faders, ticks : Int]
      BY <2>1 DEF HidInit
    <3> QED BY <2>1, <3>1, <3>2 DEF HidInit, HidType
  <2>3. CountInv /\ FollowInv
    BY <2>1, LanHidAssumption DEF HidInit, CountInv, FollowInv
  <2> QED BY <2>2, <2>3 DEF HidInv
<1>2. HidInv /\ [HidNext]_hidVars => HidInv'
  <2>1. CASE UNCHANGED hidVars
    BY <2>1 DEF hidVars, HidInv, HidType, CountInv, FollowInv, Was
  <2> QED BY <2>1, HidStep
<1>3. HidInv => DeckFollowsTheUnit
  <2> SUFFICES ASSUME HidInv PROVE DeckFollowsTheUnit
    OBVIOUS
  <2>1. PlatterIsCounted
    <3> DEFINE a == turned * Num
               b == deck.ticks * Den
    <3>1. a \in Int /\ b \in Int /\ carry \in Int /\ Den \in Int
      BY LanHidAssumption DEF HidInv, HidType
    <3>2. a = b + carry /\ carry < Den /\ -Den < carry
      BY DEF HidInv, CountInv
    <3> HIDE DEF a, b
    <3>3. a - b < Den /\ a - b > -Den
      BY <3>1, <3>2
    <3> QED BY <3>3 DEF PlatterIsCounted, a, b
  <2>2. ASSUME session, prev = ReportNow
        PROVE  /\ (unit.keys \cap Momentary) \ early \subseteq deck.held
               /\ deck.held \subseteq unit.keys \cup orphans
               /\ deck.fader = IF recentred THEN Middle ELSE unit.fader
    <3>1. ReportNow \in Reports /\ NoReport \notin Reports
      BY LanHidAssumption DEF HidInv, HidType, ReportNow, Reports, UnitKeys, Faders
    <3>2. prev # NoReport /\ prev.keys = unit.keys /\ prev.fader = unit.fader
      BY <2>2, <3>1 DEF ReportNow
    <3> QED BY <2>2, <3>2 DEF HidInv, FollowInv, Was
  <2> QED BY <2>1, <2>2 DEF DeckFollowsTheUnit
<1> QED BY <1>1, <1>2, <1>3, PTL DEF HidSpec
---------------------------------------------------------------------------
(* The grid. *)

AnyGrid == [anchor : Nat, offset : FourBeats]

GridType ==
  /\ grid \in AnyGrid /\ gridOrig \in AnyGrid /\ savedGrids \subseteq AnyGrid
  /\ cueFrame \in Nat

\* By how many periods a shift wraps the anchor.
Wraps(g, delta) ==
  IF g.anchor + delta < 0 THEN (Period - 1 - (g.anchor + delta)) \div Period ELSE 0

\* A frame's beat goes down by one for each period its anchor goes up.
LEMMA BeatsBefore ==
  ASSUME NEW x \in Int, NEW w \in Int, NEW o \in Int
  PROVE  /\ (x - w * Period) \div Period = (x \div Period) - w
         /\ (((x - w * Period) \div Period) + ((o + w) % 4)) % 4 = ((x \div Period) + o) % 4
<1> DEFINE q == x \div Period
           r == x % Period
<1>1. Period \in Nat \ {0} /\ q \in Int /\ r \in 0 .. Period - 1 /\ x = Period * q + r
  BY GridAssumption, DivMod
<1> HIDE DEF q, r
<1>2. (x - w * Period) \div Period = q - w
  <2> DEFINE a == x - w * Period
  <2>1. a = Period * (q - w) + r /\ a \in Int /\ q - w \in Int
    BY <1>1
  <2> HIDE DEF a
  <2>2. a \div Period = q - w
    BY <1>1, <2>1, QuotientIs
  <2> QED BY <2>2 DEF a
<1>3. ((q - w) + ((o + w) % 4)) % 4 = (q + o) % 4
  BY <1>1
<1> QED BY <1>2, <1>3 DEF q

\* A shift leaves a grid that starts in the track and names every frame that moves along
\* with it as before (shift).
LEMMA ShiftKeepsNumbers ==
  ASSUME NEW g \in AnyGrid, NEW delta \in Int
  PROVE  /\ Shifted(g, delta) \in AnyGrid
         /\ Wraps(g, delta) \in Int
         /\ Shifted(g, delta).anchor = g.anchor + delta + Wraps(g, delta) * Period
         /\ \A f \in Int : BeatInBar(Shifted(g, delta), f + delta) = BeatInBar(g, f)
<1> DEFINE a == g.anchor + delta
           w == Wraps(g, delta)
           s == Shifted(g, delta)
<1>1. Period \in Nat \ {0} /\ a \in Int /\ g.anchor \in Nat /\ g.offset \in FourBeats
  BY GridAssumption DEF AnyGrid
<1>2. w \in Int /\ a + w * Period \in Nat
  <2>1. CASE a < 0
    <3> DEFINE b == Period - 1 - a
    <3>1. b \in Int /\ w = b \div Period
      BY <1>1, <2>1 DEF Wraps
    <3> HIDE DEF b
    <3>2. w \in Int /\ b - (Period - 1) <= Period * w
      BY <1>1, <3>1, DivMod
    <3> QED BY <1>1, <2>1, <3>2 DEF b
  <2>2. CASE ~(a < 0)
    BY <1>1, <2>2 DEF Wraps
  <2> QED BY <2>1, <2>2
<1>3. s = [anchor |-> a + w * Period, offset |-> (g.offset + w) % 4]
  BY DEF Shifted, Wraps
<1> HIDE DEF w, s
<1>4. (g.offset + w) % 4 \in FourBeats
  BY <1>1, <1>2 DEF FourBeats
<1>5. s \in AnyGrid
  BY <1>2, <1>3, <1>4 DEF AnyGrid
<1>6. ASSUME NEW f \in Int PROVE BeatInBar(s, f + delta) = BeatInBar(g, f)
  <2> DEFINE x == f - g.anchor
  <2>1. x \in Int /\ g.offset \in Int
    BY <1>1 DEF FourBeats
  <2>2. (f + delta) - s.anchor = x - w * Period
    <3> DEFINE k == w * Period
    <3>1. k \in Int /\ s.anchor = g.anchor + delta + k
      BY <1>1, <1>2, <1>3
    <3> HIDE DEF k
    <3>2. (f + delta) - s.anchor = x - k
      BY <1>1, <3>1
    <3> QED BY <3>2 DEF k
  <2> HIDE DEF x
  <2>3. (((x - w * Period) \div Period) + ((g.offset + w) % 4)) % 4
          = ((x \div Period) + g.offset) % 4
    BY <1>2, <2>1, BeatsBefore
  <2> QED BY <1>3, <2>2, <2>3 DEF BeatInBar, x
<1> QED BY <1>2, <1>3, <1>5, <1>6 DEF w, s

\* A frame lies whole periods and the residual from the anchor.
LEMMA ResidualIsRest ==
  ASSUME NEW g \in AnyGrid, NEW place \in Nat
  PROVE  /\ Nearest(place - g.anchor) \in Int /\ Residual(g, place) \in Int
         /\ place - g.anchor = Nearest(place - g.anchor) * Period + Residual(g, place)
<1> DEFINE x == place - g.anchor
           u == 2 * x + Period
           v == 2 * (-x) + Period
           m == 2 * Period
<1>1. x \in Int /\ u \in Int /\ v \in Int /\ m \in Nat \ {0} /\ Period \in Nat \ {0}
  BY GridAssumption DEF AnyGrid
<1>2. u \div m \in Int /\ v \div m \in Int
  <2> HIDE DEF x, u, v, m
  <2> QED BY <1>1, DivMod
<1>3. Nearest(x) = IF x >= 0 THEN u \div m ELSE -(v \div m)
  BY DEF Nearest
<1>4. Nearest(x) \in Int
  <2> HIDE DEF x, u, v, m
  <2> QED BY <1>1, <1>2, <1>3
<1>5. Residual(g, place) = x - Nearest(x) * Period
  BY DEF Residual
<1> HIDE DEF x
<1> QED BY <1>1, <1>4, <1>5 DEF x
\* The nearest beat moved onto a place is there, and as a downbeat it is beat 1 unless the
\* move wrapped the anchor (snap_to).
LEMMA SnapPutsABeat ==
  ASSUME NEW g \in AnyGrid, NEW place \in Nat, NEW downbeat \in BOOLEAN
  PROVE  LET s == SnappedTo(g, place, downbeat) IN
         /\ s \in AnyGrid
         /\ (place - s.anchor) % Period = 0
         /\ downbeat => BeatInBar(s, place) = ((-Wraps(g, Residual(g, place))) % 4) + 1
<1> DEFINE res == Residual(g, place)
           n == Nearest(place - g.anchor)
           w == Wraps(g, res)
           s == SnappedTo(g, place, downbeat)
<1>1. /\ Period \in Nat \ {0} /\ g.anchor \in Nat
      /\ n \in Int /\ res \in Int /\ place - g.anchor = n * Period + res
  BY ResidualIsRest, GridAssumption DEF AnyGrid
<1> HIDE DEF res, n
<1>2. /\ Shifted(g, res) \in AnyGrid /\ w \in Int
      /\ Shifted(g, res).anchor = g.anchor + res + w * Period
  BY <1>1, ShiftKeepsNumbers
<1> HIDE DEF w
<1>3. s.anchor = g.anchor + res + w * Period /\ s \in AnyGrid
  <2>1. s = IF downbeat THEN [Shifted(g, res) EXCEPT !.offset = (-n) % 4] ELSE Shifted(g, res)
    BY DEF SnappedTo, res, n
  <2>2. (-n) % 4 \in FourBeats
    BY <1>1 DEF FourBeats
  <2> QED BY <1>2, <2>1, <2>2 DEF AnyGrid
<1>4. downbeat => s.offset = (-n) % 4
  <2>1. downbeat => s = [Shifted(g, res) EXCEPT !.offset = (-n) % 4]
    BY DEF SnappedTo, res, n
  <2> QED BY <1>2, <2>1 DEF AnyGrid
<1> HIDE DEF s
<1>5. place - s.anchor = Period * (n - w) + 0
  <2>1. Period * (n - w) = n * Period - w * Period
    BY <1>1, <1>2
  <2> DEFINE k == n * Period
             l == w * Period
  <2>2. k \in Int /\ l \in Int /\ s.anchor = g.anchor + res + l /\ place - g.anchor = k + res
    BY <1>1, <1>2, <1>3
  <2> HIDE DEF k, l
  <2>3. place - s.anchor = k - l
    BY <1>1, <2>2
  <2>4. Period * (n - w) = k - l
    BY <2>1 DEF k, l
  <2> QED BY <1>1, <2>2, <2>3, <2>4
<1>6. (place - s.anchor) \div Period = n - w /\ (place - s.anchor) % Period = 0
  <2> DEFINE a == place - s.anchor
  <2>1. a \in Int
    BY <1>3 DEF AnyGrid
  <2> DEFINE q == n - w
  <2>2. a = Period * q + 0 /\ q \in Int
    BY <1>1, <1>2, <1>5
  <2> HIDE DEF a, q
  <2>3. a \div Period = q /\ a % Period = 0
    BY <1>1, <2>1, <2>2, QuotientIs
  <2> QED BY <2>3 DEF a, q
<1>7. downbeat => BeatInBar(s, place) = ((-w) % 4) + 1
  <2>1. ((n - w) + ((-n) % 4)) % 4 = (-w) % 4
    BY <1>1, <1>2
  <2> QED BY <1>4, <1>6, <2>1 DEF BeatInBar
<1> QED BY <1>3, <1>6, <1>7 DEF s, w, res

\* The types of the grid's state: an anchor is never before the track.
LEMMA GridTyped == GridSpec => []GridType
<1>1. GridInit => GridType
  BY GridAssumption DEF GridInit, GridType, Grids, AnyGrid, FourBeats
<1>2. GridType /\ [GridNext]_gridVars => GridType'
  <2> SUFFICES ASSUME GridType, [GridNext]_gridVars PROVE GridType'
    OBVIOUS
  <2>1. ASSUME NEW g \in AnyGrid, Edited(g) PROVE GridType'
    BY <2>1 DEF Edited, GridType
  <2>2. ASSUME NEW detents \in {-2, -1, 1, 2}, Nudge(detents) PROVE GridType'
    <3>1. detents * Detent \in Int
      BY GridAssumption
    <3> QED BY <2>1, <2>2, <3>1, ShiftKeepsNumbers DEF Nudge, GridType
  <2>3. CASE SnapCue \/ ShiftCue
    BY <2>1, <2>3, SnapPutsABeat DEF SnapCue, ShiftCue, GridType
  <2>4. CASE ResetToAnalysed
    BY <2>4 DEF ResetToAnalysed, GridType
  <2>5. CASE LoadAgain
    BY <2>5 DEF LoadAgain, GridType
  <2>6. CASE PlaceCue
    BY <2>6, GridAssumption DEF PlaceCue, GridType, Frames
  <2>7. CASE UNCHANGED gridVars
    BY <2>7 DEF gridVars, GridType
  <2> QED BY <2>2, <2>3, <2>4, <2>5, <2>6, <2>7 DEF GridNext
<1> QED BY <1>1, <1>2, PTL DEF GridSpec

\* Whatever the period, the detent and the edits before: the knob and SNAP GRID move
\* every beat's number along with it, and SNAP GRID puts a beat on the cue point (shift,
\* snap_to).
THEOREM NumbersMoveAlong == GridSpec => NumberingMovesAlong
<1> DEFINE Kept ==
      /\ \A detents \in {-2, -1, 1, 2} : Nudge(detents) =>
           \A f \in Frames : BeatInBar(grid', f + detents * Detent) = BeatInBar(grid, f)
      /\ SnapCue =>
           /\ (cueFrame - grid'.anchor) % Period = 0
           /\ \A f \in Frames :
                BeatInBar(grid', f + Residual(grid, cueFrame)) = BeatInBar(grid, f)
<1>1. GridType /\ [GridNext]_gridVars => Kept
  <2> SUFFICES ASSUME GridType PROVE Kept
    OBVIOUS
  <2>0. grid \in AnyGrid /\ cueFrame \in Nat /\ Frames \subseteq Int
    BY GridAssumption DEF GridType, Frames
  <2>1. ASSUME NEW detents \in {-2, -1, 1, 2}, Nudge(detents), NEW f \in Frames
        PROVE  BeatInBar(grid', f + detents * Detent) = BeatInBar(grid, f)
    <3>1. detents * Detent \in Int
      BY GridAssumption
    <3>2. grid' = Shifted(grid, detents * Detent)
      BY <2>1 DEF Nudge, Edited
    <3> QED BY <2>0, <3>1, <3>2, ShiftKeepsNumbers
  <2>2. ASSUME SnapCue
        PROVE  /\ (cueFrame - grid'.anchor) % Period = 0
               /\ \A f \in Frames :
                    BeatInBar(grid', f + Residual(grid, cueFrame)) = BeatInBar(grid, f)
    <3>1. grid' = SnappedTo(grid, cueFrame, FALSE)
      BY <2>2 DEF SnapCue, Edited
    <3>2. grid' = Shifted(grid, Residual(grid, cueFrame))
      BY <3>1 DEF SnappedTo
    <3>3. Residual(grid, cueFrame) \in Int
      BY <2>0, ResidualIsRest
    <3>4. (cueFrame - grid'.anchor) % Period = 0
      BY <2>0, <3>1, SnapPutsABeat
    <3>5. ASSUME NEW f \in Frames
          PROVE  BeatInBar(grid', f + Residual(grid, cueFrame)) = BeatInBar(grid, f)
      BY <2>0, <3>2, <3>3, <3>5, ShiftKeepsNumbers
    <3> QED BY <3>4, <3>5
  <2> QED BY <2>1, <2>2
<1> QED BY <1>1, GridTyped, PTL DEF GridSpec, NumberingMovesAlong

\* SHIFT GRID makes the cue point beat 1 of a bar whenever it does not have to wrap the
\* anchor to keep it in the track; when it has to, the number is off by the wraps (snap_to
\* overwrites the number shift has just counted).
THEOREM CueIsBeatOneUnlessWrapped ==
  GridSpec => [][ShiftCue /\ grid.anchor + Residual(grid, cueFrame) >= 0
                   => BeatInBar(grid', cueFrame) = 1]_gridVars
<1>1. GridType /\ [GridNext]_gridVars =>
        (ShiftCue /\ grid.anchor + Residual(grid, cueFrame) >= 0
           => BeatInBar(grid', cueFrame) = 1)
  <2> SUFFICES ASSUME GridType, ShiftCue, grid.anchor + Residual(grid, cueFrame) >= 0
               PROVE  BeatInBar(grid', cueFrame) = 1
    OBVIOUS
  <2>1. grid' = SnappedTo(grid, cueFrame, TRUE) /\ grid \in AnyGrid /\ cueFrame \in Nat
    BY DEF ShiftCue, Edited, GridType
  <2>2. Residual(grid, cueFrame) \in Int /\ grid.anchor \in Nat
    BY <2>1, ResidualIsRest DEF AnyGrid
  <2>3. Wraps(grid, Residual(grid, cueFrame)) = 0
    BY <2>2 DEF Wraps
  <2>4. BeatInBar(grid', cueFrame) = ((-0) % 4) + 1
    BY <2>1, <2>3, SnapPutsABeat
  <2> QED BY <2>4
<1> QED BY <1>1, GridTyped, PTL DEF GridSpec
=============================================================================
