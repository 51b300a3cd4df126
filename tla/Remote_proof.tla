--------------------------- MODULE Remote_proof ---------------------------
(***************************************************************************)
(* What another player's files, lists and role are promised.  A file that  *)
(* was read is that file, for any number of blocks, any window and any     *)
(* losses, when a session's socket is its own; and only losses fail a load. *)
(* A list that is shown is one menu of the library, for any library and any *)
(* course of its analysis.  Between two decks, both on from the start or    *)
(* one joining, the tempo master's role is never held twice but while it is *)
(* handed over, and never dropped while both stay, for any presses, any     *)
(* order of what is heard and few losses.                                   *)
(***************************************************************************)
EXTENDS NfsRead, RemoteDb, LinkMaster, FiniteSetTheorems, SequenceTheorems, TLAPS

Flights  == [block : BlockSet, retries : Nat]
Inflights == UNION {[S -> Flights] : S \in SUBSET Nat}
Whats    == {Calls[i] : i \in 1 .. 5} \cup {"read"}
Messages == [xid : Nat, to : {1, 2}, what : Whats, file : Nat, block : Nat, copy : Nat]
Clients  ==
  [session : Nat, portmap : {1, 2}, phase : {"call", "read", "ok", "failed"}, step : 1 .. 5,
   xid : Nat, attempt : 0 .. Attempts, waiting : BOOLEAN,
   inflight : Inflights, next : 0 .. Blocks,
   got : SUBSET BlockSet, out : [BlockSet -> {<<>>} \cup (Nat \X Nat)], tooSoon : BOOLEAN]

NfsType ==
  /\ nfs \in Clients /\ wire \subseteq Messages /\ listens \in {1, 2} /\ lost \in Nat
  /\ InFlight \subseteq 1 .. nfs.xid /\ (Calling => InFlight = {})

\* Every datagram under way is of this session and of a call already made; the
\* answer to a read in flight is about its block.
MessagesAreOurs ==
  /\ \A m \in wire : m.file = nfs.session /\ m.xid <= nfs.xid
  /\ \A m \in wire, x \in InFlight :
       m.xid = x => m.what = "read" /\ m.block = nfs.inflight[x].block

\* What has arrived is in its place.
GotIsRight ==
  /\ \A b \in nfs.got : nfs.out[b] = <<nfs.session, b>>
  /\ nfs.phase = "ok" => nfs.got = BlockSet

WholeInv == NfsType /\ MessagesAreOurs /\ GotIsRight

\* The one message of the attempt under way.
Attempted == Message(nfs.xid, Calls[nfs.step], 0)
Unheard   == nfs.step \in {1, 2} /\ nfs.portmap # listens

\* An attempt that is over was lost, unless nobody listens, and the one under way
\* is on the wire or lost.
CallsLost ==
  /\ wire \subseteq {[Attempted EXCEPT !.copy = nfs.attempt - 1]}
  /\ wire # {} => nfs.waiting /\ nfs.attempt > 0
  /\ ~Unheard => lost >= nfs.attempt - 1 /\ (wire = {} => lost >= nfs.attempt)
  /\ nfs.portmap = 2 /\ listens = 1 => lost >= Attempts

\* The same of a read and its resends.
ReadsLost ==
  \A x \in InFlight :
    /\ lost >= nfs.inflight[x].retries
    /\ (\A m \in wire : m.xid # x) => lost > nfs.inflight[x].retries

\* While no answer was given up too soon, each attempt and each resend that is
\* over was lost, unless nobody listened.
EachWasLost ==
  ~nfs.tooSoon =>
    /\ Calling => CallsLost
    /\ Reading => ReadsLost
    /\ nfs.phase = "failed" => lost >= Attempts \/ lost > Resends

LossInv == WholeInv /\ EachWasLost

USE NfsAssumption DEF NfsAssumption

---------------------------------------------------------------------------
(* The operators. *)

\* The smaller of two numbers is one of them and below both.
LEMMA MinOfTwo ==
  ASSUME NEW a \in Nat, NEW b \in Nat
  PROVE  Min({a, b}) \in {a, b} /\ Min({a, b}) <= a /\ Min({a, b}) <= b
<1>1. \E x \in {a, b} : \A y \in {a, b} : x <= y
  <2>1. CASE a <= b  BY <2>1
  <2>2. CASE ~(a <= b)  BY <2>2
  <2> QED  BY <2>1, <2>2
<1> QED  BY <1>1 DEF Min

\* The reads in flight are finitely many: their ids are those of calls made.
LEMMA InFlightIsFinite ==
  ASSUME NfsType
  PROVE  /\ IsFiniteSet(InFlight) /\ Cardinality(InFlight) \in Nat
         /\ \A S \in SUBSET InFlight : IsFiniteSet(S) /\ Cardinality(S) \in Nat
<1>1. nfs.xid \in Nat /\ InFlight \subseteq 1 .. nfs.xid
  BY DEF NfsType, Clients
<1>2. IsFiniteSet(1 .. nfs.xid)
  <2>1. 1 \in Int /\ nfs.xid \in Int
    BY <1>1
  <2> HIDE <1>1
  <2> QED  BY <2>1, FS_Interval
<1>3. \A S \in SUBSET InFlight : IsFiniteSet(S)
  BY <1>1, <1>2, FS_Subset
<1> QED  BY <1>3, FS_CardinalityType

\* A map of reads in flight, by what it gives each id.
LEMMA InflightsBy ==
  ASSUME NEW S \in SUBSET Nat, NEW f, f \in [S -> Flights]
  PROVE  f \in Inflights /\ DOMAIN f = S
BY DEF Inflights

\* The reads in flight are a function of the ids in flight.
LEMMA InflightIs ==
  ASSUME NfsType
  PROVE  nfs.inflight \in [InFlight -> Flights] /\ InFlight \subseteq Nat
<1>1. nfs.inflight \in Inflights
  BY DEF NfsType, Clients
<1>2. PICK S \in SUBSET Nat : nfs.inflight \in [S -> Flights]
  BY <1>1 DEF Inflights
<1> QED  BY <1>2 DEF InFlight

\* A session that opens has the type of a client and nothing in flight.
LEMMA ConnectedIs ==
  ASSUME NEW s \in Nat, NEW p \in {1, 2}
  PROVE  /\ Connected(s, p) \in Clients
         /\ Connected(s, p).xid = 0 /\ DOMAIN Connected(s, p).inflight = {}
         /\ Connected(s, p).session = s /\ Connected(s, p).portmap = p
         /\ Connected(s, p).phase = "call" /\ Connected(s, p).step = 1
         /\ Connected(s, p).attempt = 0 /\ ~Connected(s, p).waiting
         /\ Connected(s, p).got = {} /\ ~Connected(s, p).tooSoon
<1>1. <<>> \in [{} -> Flights] /\ DOMAIN <<>> = {}
  OBVIOUS
<1>2. <<>> \in Inflights
  BY <1>1, InflightsBy
<1>3. [b \in BlockSet |-> <<>>] \in [BlockSet -> {<<>>} \cup (Nat \X Nat)]
  OBVIOUS
<1>4. 0 \in 0 .. Attempts /\ 0 \in 0 .. Blocks
  OBVIOUS
<1> QED  BY <1>1, <1>2, <1>3, <1>4 DEF Connected, Clients

---------------------------------------------------------------------------
(* A file that was read is that file. *)

\* It holds of the first session.
LEMMA WholeInit == NfsInit => WholeInv
<1> SUFFICES ASSUME NfsInit PROVE WholeInv
  OBVIOUS
<1>1. nfs = Connected(1, 1) /\ wire = {} /\ lost = 0 /\ listens \in {1, 2}
  BY DEF NfsInit
<1> QED  BY <1>1, ConnectedIs DEF WholeInv, NfsType, MessagesAreOurs, GotIsRight, InFlight, Calling

\* Sending a call: the datagram carries the id of the call and the session's file.
LEMMA WholeSend == WholeInv /\ SendCall => WholeInv'
<1> SUFFICES ASSUME WholeInv, SendCall PROVE WholeInv'
  OBVIOUS
<1> USE DEF WholeInv
<1> DEFINE x == IF nfs.attempt = 0 THEN nfs.xid + 1 ELSE nfs.xid
           m == Message(x, Calls[nfs.step], 0)
<1>1. /\ nfs' = [nfs EXCEPT !.xid = x, !.attempt = @ + 1, !.waiting = TRUE]
      /\ wire' = wire \cup Answers(m) /\ UNCHANGED <<listens, lost>>
      /\ Calling /\ nfs.attempt < Attempts
  BY DEF SendCall
<1>2. nfs \in Clients /\ x \in Nat /\ x >= nfs.xid /\ nfs.step \in 1 .. 5
  BY SMTT(30) DEF NfsType, Clients
<1>3. m \in Messages /\ m.file = nfs.session /\ m.xid = x
  <2>1. Calls[nfs.step] \in Whats
    BY <1>2 DEF Whats
  <2>2. nfs.portmap \in {1, 2} /\ nfs.session \in Nat /\ nfs.attempt \in Nat
    BY <1>2 DEF Clients
  <2> QED  BY <1>2, <2>1, <2>2 DEF Message, Messages
<1>4. Answers(m) \subseteq {m}
  BY DEF Answers
<1> HIDE DEF x, m
<1>5. nfs' \in Clients
  <2>1. nfs.attempt + 1 \in 0 .. Attempts /\ nfs.attempt \in 0 .. Attempts
    BY <1>1, <1>2 DEF Clients
  <2> QED  BY <1>1, <1>2, <2>1 DEF Clients
<1>6. nfs'.inflight = nfs.inflight /\ nfs'.xid = x /\ nfs'.session = nfs.session
      /\ nfs'.phase = nfs.phase /\ nfs'.got = nfs.got /\ nfs'.out = nfs.out
  BY <1>1, <1>2 DEF Clients
<1>7. InFlight = {} /\ InFlight' = {}
  BY <1>1, <1>6 DEF NfsType, InFlight
<1>8. NfsType'
  BY <1>1, <1>3, <1>4, <1>5, <1>7 DEF NfsType
<1>9. MessagesAreOurs'
  <2> SUFFICES ASSUME NEW n \in wire'
               PROVE  n.file = nfs.session /\ n.xid <= x
    BY <1>6, <1>7 DEF MessagesAreOurs
  <2>1. CASE n \in wire
    <3>1. n.file = nfs.session /\ n.xid <= nfs.xid /\ n.xid \in Nat
      BY <2>1 DEF MessagesAreOurs, NfsType, Messages
    <3> QED  BY <3>1, <1>2 DEF Clients
  <2>2. CASE n = m
    BY <2>2, <1>2, <1>3
  <2> QED  BY <1>1, <1>4, <2>1, <2>2
<1>10. GotIsRight'
  BY <1>6 DEF GotIsRight
<1> QED  BY <1>8, <1>9, <1>10

\* A step that keeps the file, the reads in flight and the blocks, and puts
\* nothing on the wire, keeps the whole invariant.
LEMMA WholeQuiet ==
  ASSUME WholeInv, nfs' \in Clients, wire' \subseteq wire, UNCHANGED listens, lost' \in Nat,
         nfs'.session = nfs.session, nfs'.xid = nfs.xid, nfs'.inflight = nfs.inflight,
         nfs'.got = nfs.got, nfs'.out = nfs.out,
         nfs'.phase = "call" => nfs.phase = "call",
         nfs'.phase = "ok" => nfs.got = BlockSet
  PROVE  WholeInv'
<1> USE DEF WholeInv
<1>1. InFlight' = InFlight
  BY DEF InFlight
<1>2. NfsType'
  BY <1>1 DEF NfsType, Calling
<1>3. MessagesAreOurs'
  BY <1>1 DEF MessagesAreOurs
<1>4. GotIsRight'
  BY DEF GotIsRight
<1> QED  BY <1>2, <1>3, <1>4

\* The steps of a call, other than sending it.
LEMMA WholeCalls ==
  WholeInv /\ (HearOther \/ HearReply \/ CallTimeout) => WholeInv'
<1> SUFFICES ASSUME WholeInv, HearOther \/ HearReply \/ CallTimeout PROVE WholeInv'
  OBVIOUS
<1>1. nfs \in Clients /\ lost \in Nat
  BY DEF WholeInv, NfsType
<1>2. CASE HearOther
  <2>1. nfs' = [nfs EXCEPT !.waiting = FALSE] /\ wire' \subseteq wire /\ UNCHANGED <<listens, lost>>
    BY <1>2 DEF HearOther
  <2>2. nfs' \in Clients
    BY <1>1, <2>1 DEF Clients
  <2>3. /\ nfs'.session = nfs.session /\ nfs'.xid = nfs.xid /\ nfs'.inflight = nfs.inflight
        /\ nfs'.got = nfs.got /\ nfs'.out = nfs.out /\ nfs'.phase = nfs.phase
    BY <1>1, <2>1 DEF Clients
  <2>4. nfs.phase = "ok" => nfs.got = BlockSet
    BY DEF WholeInv, GotIsRight
  <2> QED  BY <1>1, <2>1, <2>2, <2>3, <2>4, WholeQuiet
<1>3. CASE HearReply
  <2>1. PICK r \in wire :
          /\ wire' = wire \ {r}
          /\ nfs' = [nfs EXCEPT
               !.attempt = 0, !.waiting = FALSE,
               !.step = IF @ = Len(Calls) THEN @ ELSE @ + 1,
               !.phase = IF r.what # Calls[nfs.step] THEN "failed"
                         ELSE IF nfs.step = Len(Calls) THEN "read" ELSE @]
    BY <1>3 DEF HearReply
  <2> DEFINE step  == IF nfs.step = Len(Calls) THEN nfs.step ELSE nfs.step + 1
             phase == IF r.what # Calls[nfs.step] THEN "failed"
                      ELSE IF nfs.step = Len(Calls) THEN "read" ELSE nfs.phase
  <2>2. step \in 1 .. 5 /\ phase \in {"call", "read", "failed"} /\ 0 \in 0 .. Attempts
        /\ nfs.phase = "call"
    <3>1. Len(Calls) = 5
      BY DEF Calls
    <3>2. nfs.step \in 1 .. 5
      BY <1>1 DEF Clients
    <3>3. nfs.phase = "call"
      BY <1>3 DEF HearReply, Calling
    <3>4. step \in 1 .. 5
      BY <3>1, <3>2
    <3>5. phase \in {"call", "read", "failed"}
      BY <3>3
    <3> QED  BY <3>3, <3>4, <3>5
  <2>3. nfs' = [nfs EXCEPT !.attempt = 0, !.waiting = FALSE, !.step = step, !.phase = phase]
    BY <1>1, <2>1 DEF Clients
  <2> HIDE DEF step, phase
  <2>4. nfs' \in Clients
    BY <1>1, <2>2, <2>3 DEF Clients
  <2>5. /\ nfs'.session = nfs.session /\ nfs'.xid = nfs.xid /\ nfs'.inflight = nfs.inflight
        /\ nfs'.got = nfs.got /\ nfs'.out = nfs.out /\ nfs'.phase = phase
    BY <1>1, <2>3 DEF Clients
  <2>6. wire' \subseteq wire /\ UNCHANGED <<listens, lost>>
    BY <1>3, <2>1 DEF HearReply
  <2> QED  BY <1>1, <2>2, <2>4, <2>5, <2>6, WholeQuiet
<1>4. CASE CallTimeout
  <2> DEFINE soon == nfs.tooSoon \/ Coming({nfs.xid})
  <2>1. nfs' = [nfs EXCEPT !.waiting = FALSE, !.tooSoon = soon] /\ UNCHANGED <<wire, listens, lost>>
    BY <1>4 DEF CallTimeout
  <2>2. soon \in BOOLEAN
    BY <1>1 DEF Clients, Coming
  <2> HIDE DEF soon
  <2>3. nfs' \in Clients
    BY <1>1, <2>1, <2>2 DEF Clients
  <2>4. /\ nfs'.session = nfs.session /\ nfs'.xid = nfs.xid /\ nfs'.inflight = nfs.inflight
        /\ nfs'.got = nfs.got /\ nfs'.out = nfs.out /\ nfs'.phase = nfs.phase
    BY <1>1, <2>1 DEF Clients
  <2>5. nfs.phase = "ok" => nfs.got = BlockSet
    BY DEF WholeInv, GotIsRight
  <2> QED  BY <1>1, <2>1, <2>3, <2>4, <2>5, WholeQuiet
<1> QED  BY <1>2, <1>3, <1>4

Opened(s, p, soon) == [Connected(s, p) EXCEPT !.tooSoon = soon]

\* A new session, with what the last attempt left of the answers given up too soon.
LEMMA OpenedIs ==
  ASSUME NEW s \in Nat, NEW p \in {1, 2}, NEW soon \in BOOLEAN
  PROVE  /\ Opened(s, p, soon) \in Clients
         /\ Opened(s, p, soon).xid = 0 /\ DOMAIN Opened(s, p, soon).inflight = {}
         /\ Opened(s, p, soon).session = s /\ Opened(s, p, soon).portmap = p
         /\ Opened(s, p, soon).phase = "call" /\ Opened(s, p, soon).step = 1
         /\ Opened(s, p, soon).attempt = 0 /\ ~Opened(s, p, soon).waiting
         /\ Opened(s, p, soon).got = {} /\ (Opened(s, p, soon).tooSoon <=> soon)
<1> DEFINE c == Connected(s, p)
<1>1. /\ c \in Clients /\ c.xid = 0 /\ DOMAIN c.inflight = {} /\ c.session = s /\ c.portmap = p
      /\ c.phase = "call" /\ c.step = 1 /\ c.attempt = 0 /\ ~c.waiting /\ c.got = {}
  BY ConnectedIs
<1>2. Opened(s, p, soon) = [c EXCEPT !.tooSoon = soon]
  BY DEF Opened
<1> HIDE DEF c
<1> QED  BY <1>1, <1>2 DEF Clients

\* A session that opens on a socket of its own hears nothing of the last one's.
LEMMA WholeOpens ==
  ASSUME WholeInv, nfs' \in Clients, nfs'.xid = 0, DOMAIN nfs'.inflight = {},
         nfs'.phase = "call", nfs'.got = {}, wire' = {}, UNCHANGED <<listens, lost>>
  PROVE  WholeInv'
<1>1. InFlight' = {}
  BY DEF InFlight
<1>2. listens \in {1, 2} /\ lost \in Nat
  BY DEF WholeInv, NfsType
<1> QED  BY <1>1, <1>2 DEF WholeInv, NfsType, MessagesAreOurs, GotIsRight

\* Giving up a call, finishing, opening the next session, losing a datagram.
LEMMA WholeSessions ==
  ASSUME SamePort = FALSE
  PROVE  WholeInv /\ (GiveUpCall \/ ReadDone \/ NextSession \/ Lose) => WholeInv'
<1> SUFFICES ASSUME WholeInv, GiveUpCall \/ ReadDone \/ NextSession \/ Lose PROVE WholeInv'
  OBVIOUS
<1>1. nfs \in Clients /\ lost \in Nat /\ nfs.session \in Nat /\ nfs.tooSoon \in BOOLEAN
  BY DEF WholeInv, NfsType, Clients
<1>2. ASSUME NEW to \in {"failed", "ok"}, to = "ok" => nfs.got = BlockSet,
             nfs' = [nfs EXCEPT !.phase = to], UNCHANGED <<wire, listens, lost>>
      PROVE  WholeInv'
  <2>1. nfs' \in Clients
    BY <1>1, <1>2 DEF Clients
  <2>2. /\ nfs'.session = nfs.session /\ nfs'.xid = nfs.xid /\ nfs'.inflight = nfs.inflight
        /\ nfs'.got = nfs.got /\ nfs'.out = nfs.out /\ nfs'.phase = to
    BY <1>1, <1>2 DEF Clients
  <2> QED  BY <1>1, <1>2, <2>1, <2>2, WholeQuiet
<1>3. CASE GiveUpCall
  <2>1. CASE nfs.step \in {1, 2} /\ nfs.portmap = 1
    <3>1. nfs' = Opened(nfs.session, 2, nfs.tooSoon) /\ wire' = {} /\ UNCHANGED <<listens, lost>>
      BY <1>3, <2>1 DEF GiveUpCall, Opened
    <3>2. /\ nfs' \in Clients /\ nfs'.xid = 0 /\ DOMAIN nfs'.inflight = {}
          /\ nfs'.phase = "call" /\ nfs'.got = {}
      BY <1>1, <3>1, OpenedIs
    <3> QED  BY <3>1, <3>2, WholeOpens
  <2>2. CASE ~(nfs.step \in {1, 2} /\ nfs.portmap = 1)
    BY <1>2, <1>3, <2>2 DEF GiveUpCall
  <2> QED  BY <2>1, <2>2
<1>4. CASE ReadDone
  BY <1>2, <1>4 DEF ReadDone
<1>5. CASE NextSession
  <2>1. nfs' = Connected(nfs.session + 1, 1) /\ wire' = {} /\ UNCHANGED <<listens, lost>>
    BY <1>5 DEF NextSession
  <2>2. nfs.session + 1 \in Nat /\ 1 \in {1, 2}
    BY <1>1
  <2>3. /\ nfs' \in Clients /\ nfs'.xid = 0 /\ DOMAIN nfs'.inflight = {}
        /\ nfs'.phase = "call" /\ nfs'.got = {}
    BY <2>1, <2>2, ConnectedIs
  <2> QED  BY <2>1, <2>3, WholeOpens
<1>6. CASE Lose
  <2>1. UNCHANGED <<nfs, listens>> /\ lost' = lost + 1 /\ wire' \subseteq wire
    BY <1>6 DEF Lose
  <2>2. nfs.phase = "ok" => nfs.got = BlockSet
    BY DEF WholeInv, GotIsRight
  <2> QED  BY <1>1, <2>1, <2>2, WholeQuiet
<1> QED  BY <1>3, <1>4, <1>5, <1>6

\* The reads in flight after a refill.
Refilled(n, keep, f) ==
  [x \in keep \cup (nfs.xid + 1 .. nfs.xid + n) |->
     IF x \in nfs.xid + 1 .. nfs.xid + n THEN f[x] ELSE nfs.inflight[x]]

\* Reads go out under the n ids after the last, f saying about what: some of the
\* reads in flight are kept, the others are given up.
Refills(n, keep, f) ==
  LET fresh == nfs.xid + 1 .. nfs.xid + n IN
  /\ nfs'.xid = nfs.xid + n
  /\ nfs'.inflight = Refilled(n, keep, f)
  /\ wire' = wire \cup {Message(x, "read", f[x].block) : x \in fresh}
  /\ nfs'.session = nfs.session /\ nfs'.phase = nfs.phase
  /\ nfs'.got = nfs.got /\ nfs'.out = nfs.out
  /\ UNCHANGED <<listens, lost>>

\* What the client is told of the ids: fresh ones are new, and the map is about them.
LEMMA RefilledIs ==
  ASSUME NfsType, NEW n \in Nat, NEW keep \in SUBSET InFlight,
         NEW f \in [nfs.xid + 1 .. nfs.xid + n -> Flights]
  PROVE  /\ Refilled(n, keep, f) \in Inflights
         /\ DOMAIN Refilled(n, keep, f) = keep \cup (nfs.xid + 1 .. nfs.xid + n)
         /\ keep \cup (nfs.xid + 1 .. nfs.xid + n) \subseteq 1 .. nfs.xid + n
<1> DEFINE fresh == nfs.xid + 1 .. nfs.xid + n
           g == [x \in keep \cup fresh |-> IF x \in fresh THEN f[x] ELSE nfs.inflight[x]]
<1>1. nfs.xid \in Nat /\ InFlight \subseteq 1 .. nfs.xid
  BY DEF NfsType, Clients
<1>2. nfs.inflight \in [InFlight -> Flights]
  BY InflightIs
<1>3. fresh \in SUBSET Nat /\ fresh \subseteq 1 .. nfs.xid + n
  BY <1>1
<1>4. keep \subseteq 1 .. nfs.xid + n
  BY <1>1
<1>5. f \in [fresh -> Flights]
  OBVIOUS
<1> HIDE DEF fresh
<1>6. g \in [keep \cup fresh -> Flights]
  BY <1>2, <1>5
<1>7. keep \cup fresh \in SUBSET Nat
  BY <1>3, <1>4
<1>8. g \in Inflights /\ DOMAIN g = keep \cup fresh
  BY <1>6, <1>7, InflightsBy
<1> QED  BY <1>3, <1>4, <1>8 DEF fresh, Refilled

\* A refill keeps the invariant: new ids are nobody's, and each new datagram
\* is about the block its id stands for.
LEMMA WholeRefills ==
  ASSUME WholeInv, Reading, NEW n \in Nat, NEW keep \in SUBSET InFlight,
         NEW f \in [nfs.xid + 1 .. nfs.xid + n -> Flights],
         Refills(n, keep, f), nfs' \in Clients
  PROVE  WholeInv'
<1> USE DEF WholeInv
<1> DEFINE fresh == nfs.xid + 1 .. nfs.xid + n
           g == [x \in keep \cup fresh |-> IF x \in fresh THEN f[x] ELSE nfs.inflight[x]]
<1>1. /\ nfs'.xid = nfs.xid + n /\ nfs'.inflight = g
      /\ wire' = wire \cup {Message(x, "read", f[x].block) : x \in fresh}
      /\ nfs'.session = nfs.session /\ nfs'.phase = nfs.phase
      /\ nfs'.got = nfs.got /\ nfs'.out = nfs.out /\ UNCHANGED <<listens, lost>>
  BY DEF Refills, Refilled
<1>2. /\ nfs.xid \in Nat /\ nfs.portmap \in {1, 2} /\ nfs.session \in Nat /\ nfs.attempt \in Nat
      /\ InFlight \subseteq 1 .. nfs.xid /\ nfs.phase = "read"
  BY DEF NfsType, Clients, Reading
<1>3. DOMAIN g = keep \cup fresh /\ keep \cup fresh \subseteq 1 .. nfs.xid + n
  BY <1>2, RefilledIs DEF Refilled
<1>4. InFlight' = keep \cup fresh
  BY <1>1, <1>3 DEF InFlight
<1>5. \A x \in fresh : f[x].block \in Nat /\ x \in Nat /\ x > nfs.xid /\ x <= nfs.xid + n
  <2>1. ASSUME NEW x \in fresh PROVE f[x].block \in Nat
    <3>1. f[x] \in Flights
      OBVIOUS
    <3>2. f[x].block \in BlockSet
      BY <3>1 DEF Flights
    <3> QED  BY <3>2 DEF BlockSet
  <2>2. ASSUME NEW x \in fresh PROVE x \in Nat /\ x > nfs.xid /\ x <= nfs.xid + n
    BY <1>2
  <2> QED  BY <2>1, <2>2
<1>6. \A x \in fresh : g[x] = f[x]
  OBVIOUS
<1>7. \A x \in keep \cup fresh : x \notin fresh => x \in InFlight /\ g[x] = nfs.inflight[x]
  OBVIOUS
<1> HIDE DEF fresh, g
<1>8. \A x \in fresh : Message(x, "read", f[x].block) \in Messages
  BY <1>2, <1>5 DEF Message, Messages, Whats
<1>9. wire' \subseteq Messages
  BY <1>1, <1>8 DEF NfsType
<1>10. NfsType'
  BY <1>1, <1>2, <1>3, <1>4, <1>9 DEF NfsType, Calling
<1>11. ASSUME NEW m \in wire' PROVE m.file = nfs'.session /\ m.xid <= nfs'.xid
  <2>1. CASE m \in wire
    <3>1. m.file = nfs.session /\ m.xid <= nfs.xid /\ m.xid \in Nat
      BY <2>1 DEF MessagesAreOurs, NfsType, Messages
    <3> QED  BY <1>1, <1>2, <3>1
  <2>2. CASE \E x \in fresh : m = Message(x, "read", f[x].block)
    BY <1>1, <1>5, <2>2 DEF Message
  <2> QED  BY <1>1, <2>1, <2>2
<1>12. ASSUME NEW m \in wire', NEW x \in InFlight', m.xid = x
       PROVE  m.what = "read" /\ m.block = nfs'.inflight[x].block
  <2>1. CASE m \in wire
    <3>1. m.xid <= nfs.xid /\ m.xid \in Nat
      BY <2>1 DEF MessagesAreOurs, NfsType, Messages
    <3>2. x \notin fresh
      BY <1>2, <1>5, <1>12, <3>1
    <3>3. x \in InFlight /\ nfs'.inflight[x] = nfs.inflight[x]
      BY <1>1, <1>4, <1>7, <3>2
    <3> QED  BY <1>12, <2>1, <3>3 DEF MessagesAreOurs
  <2>2. CASE \E y \in fresh : m = Message(y, "read", f[y].block)
    BY <1>1, <1>6, <1>12, <2>2 DEF Message
  <2> QED  BY <1>1, <2>1, <2>2
<1>13. MessagesAreOurs'
  BY <1>11, <1>12 DEF MessagesAreOurs
<1>14. GotIsRight'
  BY <1>1 DEF GotIsRight
<1> QED  BY <1>10, <1>13, <1>14

\* Filling the window is a refill that gives nothing up; its reads are first sends.
LEMMA FillRefills ==
  ASSUME NfsType, FillWindow
  PROVE  \E n \in Nat : \E f \in [nfs.xid + 1 .. nfs.xid + n -> Flights] :
           /\ Refills(n, InFlight, f) /\ nfs' \in Clients
           /\ \A x \in nfs.xid + 1 .. nfs.xid + n : f[x].retries = 0
           /\ nfs'.tooSoon = nfs.tooSoon
<1> DEFINE c  == Cardinality(InFlight)
           up == Min({Blocks, nfs.next + Window - c})
           n  == up - nfs.next
           fresh == nfs.xid + 1 .. nfs.xid + n
           f == [x \in fresh |-> [block |-> nfs.next + x - nfs.xid - 1, retries |-> 0]]
           g == [x \in InFlight \cup fresh |-> IF x \in fresh THEN f[x] ELSE nfs.inflight[x]]
<1>1. nfs \in Clients /\ nfs.xid \in Nat /\ nfs.next \in 0 .. Blocks /\ Blocks \in Nat /\ Window \in Nat
  BY DEF NfsType, Clients
<1>2. c \in Nat
  BY InFlightIsFinite
<1>3. Reading /\ nfs.next < Blocks /\ c < Window
  BY DEF FillWindow
<1> HIDE DEF c
<1>4. nfs.next + Window - c \in Nat
  BY <1>1, <1>2, <1>3
<1>5. up \in {Blocks, nfs.next + Window - c} /\ up <= Blocks
  BY <1>1, <1>4, MinOfTwo
<1>6. up \in 0 .. Blocks /\ up > nfs.next
  BY <1>1, <1>2, <1>3, <1>4, <1>5
<1>7. n \in Nat /\ nfs.xid + up - nfs.next = nfs.xid + n
  BY <1>1, <1>6
<1>8. nfs' = [nfs EXCEPT !.next = up, !.xid = nfs.xid + n, !.inflight = g]
  <2>1. nfs' = [nfs EXCEPT !.next = up, !.xid = nfs.xid + up - nfs.next,
          !.inflight = [x \in InFlight \cup (nfs.xid + 1 .. nfs.xid + up - nfs.next) |->
             IF x \in nfs.xid + 1 .. nfs.xid + up - nfs.next
             THEN [block |-> nfs.next + x - nfs.xid - 1, retries |-> 0]
             ELSE nfs.inflight[x]]]
    BY DEF FillWindow, c
  <2> HIDE DEF up
  <2>2. [x \in InFlight \cup fresh |-> IF x \in fresh
             THEN [block |-> nfs.next + x - nfs.xid - 1, retries |-> 0] ELSE nfs.inflight[x]] = g
    OBVIOUS
  <2> QED  BY <1>7, <2>1, <2>2
<1>9. wire' = wire \cup {Message(x, "read", f[x].block) : x \in fresh} /\ UNCHANGED <<listens, lost>>
  <2>1. wire' = wire \cup {Message(x, "read", nfs.next + x - nfs.xid - 1) :
                             x \in nfs.xid + 1 .. nfs.xid + up - nfs.next}
        /\ UNCHANGED <<listens, lost>>
    BY DEF FillWindow, c
  <2> HIDE DEF up
  <2>2. \A x \in fresh : f[x].block = nfs.next + x - nfs.xid - 1
    OBVIOUS
  <2>3. fresh = nfs.xid + 1 .. nfs.xid + up - nfs.next
    BY <1>7
  <2> HIDE DEF f, fresh
  <2> QED  BY <2>1, <2>2, <2>3
<1> HIDE DEF up
<1>10. f \in [fresh -> Flights]
  <2>1. \A x \in fresh : nfs.next + x - nfs.xid - 1 \in 0 .. Blocks - 1
    BY <1>1, <1>6
  <2> QED  BY <2>1 DEF Flights, BlockSet
<1> HIDE DEF n, f
<1>11. g \in Inflights
  <2>1. g = Refilled(n, InFlight, f)
    BY DEF Refilled
  <2>2. f \in [nfs.xid + 1 .. nfs.xid + n -> Flights]
    BY <1>10
  <2> HIDE DEF g
  <2> QED  BY <1>7, <2>1, <2>2, RefilledIs
<1> HIDE DEF g, fresh
<1>12. nfs' \in Clients
  <2>1. nfs.xid + n \in Nat
    BY <1>1, <1>7
  <2> QED  BY <1>1, <1>6, <1>8, <1>11, <2>1 DEF Clients
<1>13. /\ nfs'.xid = nfs.xid + n /\ nfs'.inflight = g /\ nfs'.session = nfs.session
       /\ nfs'.phase = nfs.phase /\ nfs'.got = nfs.got /\ nfs'.out = nfs.out
       /\ nfs'.tooSoon = nfs.tooSoon
  BY <1>1, <1>8 DEF Clients
<1>14. Refills(n, InFlight, f)
  BY <1>9, <1>13 DEF Refills, Refilled, g, fresh
<1>15. \A x \in fresh : f[x].retries = 0
  BY DEF f
<1> QED  BY <1>7, <1>10, <1>12, <1>13, <1>14, <1>15 DEF fresh

\* A read timeout fails the load, or is a refill that gives up what is stale and
\* sends each of its blocks once more.
LEMMA TimeoutRefills ==
  ASSUME NfsType, ReadTimeout
  PROVE  \E stale \in SUBSET InFlight :
           /\ nfs'.tooSoon = (nfs.tooSoon \/ Coming(stale)) /\ nfs' \in Clients
           /\ \/ /\ \E x \in stale : nfs.inflight[x].retries >= Resends
                 /\ nfs' = [nfs EXCEPT !.phase = "failed", !.tooSoon = nfs.tooSoon \/ Coming(stale)]
                 /\ UNCHANGED <<wire, listens, lost>>
              \/ \E n \in Nat : \E f \in [nfs.xid + 1 .. nfs.xid + n -> Flights] :
                   /\ Refills(n, InFlight \ stale, f)
                   /\ \A x \in nfs.xid + 1 .. nfs.xid + n :
                        \E y \in stale : f[x].retries = nfs.inflight[y].retries + 1
<1>1. PICK last \in InFlight :
       LET stale == {x \in InFlight : x <= last}
           fresh == nfs.xid + 1 .. nfs.xid + Cardinality(stale)
           soon  == nfs.tooSoon \/ Coming(stale) IN
       IF \E x \in stale : nfs.inflight[x].retries >= Resends
       THEN nfs' = [nfs EXCEPT !.phase = "failed", !.tooSoon = soon] /\ UNCHANGED wire
       ELSE \E old \in Bijection(fresh, stale) :
            /\ nfs' = [nfs EXCEPT !.tooSoon = soon, !.xid = @ + Cardinality(stale),
                 !.inflight = [x \in (InFlight \ stale) \cup fresh |->
                    IF x \in fresh THEN [nfs.inflight[old[x]] EXCEPT !.retries = @ + 1]
                    ELSE nfs.inflight[x]]]
            /\ wire' = wire \cup {Message(x, "read", nfs.inflight[old[x]].block) : x \in fresh}
  BY DEF ReadTimeout
<1> DEFINE stale == {x \in InFlight : x <= last}
           n     == Cardinality(stale)
           fresh == nfs.xid + 1 .. nfs.xid + n
           soon  == nfs.tooSoon \/ Coming(stale)
<1>2. nfs \in Clients /\ nfs.xid \in Nat /\ nfs.tooSoon \in BOOLEAN
  BY DEF NfsType, Clients
<1>3. stale \in SUBSET InFlight /\ n \in Nat
  BY InFlightIsFinite
<1>4. soon \in BOOLEAN
  BY <1>2
<1>5. nfs.inflight \in [InFlight -> Flights]
  BY InflightIs
<1>6. UNCHANGED <<listens, lost>>
  BY DEF ReadTimeout
<1>7. CASE \E x \in stale : nfs.inflight[x].retries >= Resends
  <2>1. nfs' = [nfs EXCEPT !.phase = "failed", !.tooSoon = soon] /\ UNCHANGED wire
    BY <1>1, <1>7
  <2> HIDE DEF soon
  <2>2. nfs' \in Clients /\ nfs'.tooSoon = soon
    BY <1>2, <1>4, <2>1 DEF Clients
  <2> QED  BY <1>3, <1>6, <1>7, <2>1, <2>2 DEF soon
<1>8. CASE ~\E x \in stale : nfs.inflight[x].retries >= Resends
  <2>1. PICK old \in Bijection(fresh, stale) :
            /\ nfs' = [nfs EXCEPT !.tooSoon = soon, !.xid = @ + n,
                 !.inflight = [x \in (InFlight \ stale) \cup fresh |->
                    IF x \in fresh THEN [nfs.inflight[old[x]] EXCEPT !.retries = @ + 1]
                    ELSE nfs.inflight[x]]]
            /\ wire' = wire \cup {Message(x, "read", nfs.inflight[old[x]].block) : x \in fresh}
    BY <1>1, <1>8
  <2> DEFINE f == [x \in fresh |-> [nfs.inflight[old[x]] EXCEPT !.retries = @ + 1]]
             g == [x \in (InFlight \ stale) \cup fresh |->
                     IF x \in fresh THEN f[x] ELSE nfs.inflight[x]]
  <2>2. \A x \in fresh : old[x] \in stale
    BY DEF Bijection, Injection, Surjection
  <2> HIDE DEF soon, n, fresh, stale
  <2>3. \A x \in fresh : /\ f[x] \in Flights /\ f[x].block = nfs.inflight[old[x]].block
                         /\ f[x].retries = nfs.inflight[old[x]].retries + 1
    BY <1>3, <1>5, <2>2 DEF Flights
  <2>4. f \in [fresh -> Flights]
    BY <2>3
  <2>5. g = [x \in (InFlight \ stale) \cup fresh |->
               IF x \in fresh THEN [nfs.inflight[old[x]] EXCEPT !.retries = @ + 1]
               ELSE nfs.inflight[x]]
    OBVIOUS
  <2> HIDE DEF f
  <2>6. nfs' = [nfs EXCEPT !.tooSoon = soon, !.xid = nfs.xid + n, !.inflight = g]
    BY <1>2, <2>1, <2>5 DEF Clients
  <2>7. wire' = wire \cup {Message(x, "read", f[x].block) : x \in fresh}
    BY <2>1, <2>3
  <2>8. InFlight \ stale \in SUBSET InFlight /\ f \in [nfs.xid + 1 .. nfs.xid + n -> Flights]
    BY <2>4 DEF fresh
  <2>9. g \in Inflights
    <3>1. g = Refilled(n, InFlight \ stale, f)
      BY DEF Refilled, fresh
    <3> HIDE DEF g
    <3> QED  BY <1>3, <2>8, <3>1, RefilledIs
  <2> HIDE DEF g
  <2>10. nfs' \in Clients
    <3>1. nfs.xid + n \in Nat
      BY <1>2, <1>3
    <3> QED  BY <1>2, <1>4, <2>6, <2>9, <3>1 DEF Clients
  <2>11. /\ nfs'.xid = nfs.xid + n /\ nfs'.inflight = g /\ nfs'.session = nfs.session
         /\ nfs'.phase = nfs.phase /\ nfs'.got = nfs.got /\ nfs'.out = nfs.out
         /\ nfs'.tooSoon = soon
    BY <1>2, <2>6 DEF Clients
  <2>12. Refills(n, InFlight \ stale, f)
    BY <1>6, <2>7, <2>11 DEF Refills, Refilled, g, fresh
  <2>13. \A x \in nfs.xid + 1 .. nfs.xid + n :
           \E y \in stale : f[x].retries = nfs.inflight[y].retries + 1
    BY <2>2, <2>3 DEF fresh
  <2>14. nfs'.tooSoon = (nfs.tooSoon \/ Coming(stale))
    BY <2>11 DEF soon
  <2>15. stale \in SUBSET InFlight
    BY DEF stale
  <2>16. f \in [nfs.xid + 1 .. nfs.xid + n -> Flights] /\ n \in Nat
    BY <1>3, <2>8
  <2>17. \E k \in Nat : \E h \in [nfs.xid + 1 .. nfs.xid + k -> Flights] :
           /\ Refills(k, InFlight \ stale, h)
           /\ \A x \in nfs.xid + 1 .. nfs.xid + k :
                \E y \in stale : h[x].retries = nfs.inflight[y].retries + 1
    BY Zenon, <2>12, <2>13, <2>16
  <2> QED  BY Zenon, <2>10, <2>14, <2>15, <2>17
<1> QED  BY <1>7, <1>8

\* What a block heard does to the client, when its id is in flight.
LEMMA HeardIs ==
  ASSUME WholeInv, NEW r \in wire, r.xid \in InFlight,
         nfs' = [nfs EXCEPT
                 !.inflight = [x \in InFlight \ {r.xid} |-> @[x]],
                 !.phase = IF r.what # "read" THEN "failed" ELSE @,
                 !.out[nfs.inflight[r.xid].block] = <<r.file, r.block>>,
                 !.got = @ \cup {nfs.inflight[r.xid].block}]
  PROVE  LET b == nfs.inflight[r.xid].block IN
         /\ nfs' \in Clients /\ InFlight' = InFlight \ {r.xid}
         /\ nfs'.xid = nfs.xid /\ nfs'.session = nfs.session /\ nfs'.phase = nfs.phase
         /\ nfs'.got = nfs.got \cup {b} /\ nfs'.out = [nfs.out EXCEPT ![b] = <<nfs.session, b>>]
         /\ b \in BlockSet /\ nfs'.tooSoon = nfs.tooSoon
         /\ \A x \in InFlight' : nfs'.inflight[x] = nfs.inflight[x]
<1> DEFINE b == nfs.inflight[r.xid].block
           g == [x \in InFlight \ {r.xid} |-> nfs.inflight[x]]
           o == [nfs.out EXCEPT ![b] = <<nfs.session, b>>]
<1>1. nfs \in Clients /\ nfs.session \in Nat /\ nfs.phase \in {"call", "read", "ok", "failed"}
      /\ nfs.out \in [BlockSet -> {<<>>} \cup (Nat \X Nat)] /\ nfs.got \in SUBSET BlockSet
  BY DEF WholeInv, NfsType, Clients
<1>2. r.what = "read" /\ r.block = b /\ r.file = nfs.session
  BY DEF WholeInv, MessagesAreOurs
<1>3. nfs.inflight \in [InFlight -> Flights] /\ InFlight \subseteq Nat
  BY InflightIs DEF WholeInv
<1>4. b \in BlockSet /\ b \in Nat
  BY <1>3 DEF Flights, BlockSet
<1>5. g \in [InFlight \ {r.xid} -> Flights]
  BY <1>3
<1>6. g \in Inflights /\ DOMAIN g = InFlight \ {r.xid}
  <2> HIDE DEF g
  <2> QED  BY <1>3, <1>5, InflightsBy
<1>7. \A x \in InFlight \ {r.xid} : g[x] = nfs.inflight[x]
  OBVIOUS
<1>8. o \in [BlockSet -> {<<>>} \cup (Nat \X Nat)]
  BY <1>1, <1>4
<1>9. nfs' = [nfs EXCEPT !.inflight = g, !.phase = nfs.phase, !.out = o,
                         !.got = nfs.got \cup {b}]
  BY <1>1, <1>2 DEF Clients
<1>10. nfs.got \cup {b} \in SUBSET BlockSet
  BY <1>1, <1>4
<1> HIDE DEF b, g, o
<1>11. nfs' \in Clients
  BY <1>1, <1>6, <1>8, <1>9, <1>10 DEF Clients
<1>12. /\ nfs'.inflight = g /\ nfs'.xid = nfs.xid /\ nfs'.session = nfs.session
       /\ nfs'.phase = nfs.phase /\ nfs'.got = nfs.got \cup {b} /\ nfs'.out = o
       /\ nfs'.tooSoon = nfs.tooSoon
  BY <1>1, <1>9 DEF Clients
<1>13. InFlight' = InFlight \ {r.xid}
  BY <1>6, <1>12 DEF InFlight
<1> QED  BY <1>4, <1>7, <1>11, <1>12, <1>13 DEF b, o

\* Hearing a block: it goes where the block of its id goes.
LEMMA WholeHears == WholeInv /\ HearBlock => WholeInv'
<1> SUFFICES ASSUME WholeInv, HearBlock PROVE WholeInv'
  OBVIOUS
<1>1. nfs \in Clients /\ lost \in Nat /\ (nfs.phase = "ok" => nfs.got = BlockSet)
  BY DEF WholeInv, NfsType, GotIsRight
<1>2. PICK r \in wire :
       /\ wire' = wire \ {r}
       /\ IF r.xid \notin InFlight THEN UNCHANGED nfs
          ELSE LET b == nfs.inflight[r.xid].block IN
               nfs' = [nfs EXCEPT
                 !.inflight = [x \in InFlight \ {r.xid} |-> @[x]],
                 !.phase = IF r.what # "read" THEN "failed" ELSE @,
                 !.out[b] = <<r.file, r.block>>, !.got = @ \cup {b}]
  BY DEF HearBlock
<1>3. UNCHANGED <<listens, lost>> /\ nfs.phase = "read"
  BY DEF HearBlock, Reading
<1>4. CASE r.xid \notin InFlight
  BY <1>1, <1>2, <1>3, <1>4, WholeQuiet
<1>5. CASE r.xid \in InFlight
  <2> DEFINE b == nfs.inflight[r.xid].block
  <2>1. /\ nfs' \in Clients /\ InFlight' = InFlight \ {r.xid}
        /\ nfs'.xid = nfs.xid /\ nfs'.session = nfs.session /\ nfs'.phase = nfs.phase
        /\ nfs'.got = nfs.got \cup {b} /\ nfs'.out = [nfs.out EXCEPT ![b] = <<nfs.session, b>>]
        /\ b \in BlockSet /\ \A x \in InFlight' : nfs'.inflight[x] = nfs.inflight[x]
    BY <1>2, <1>5, HeardIs
  <2>2. nfs.out \in [BlockSet -> {<<>>} \cup (Nat \X Nat)] /\ nfs.got \in SUBSET BlockSet
    BY <1>1 DEF Clients
  <2> HIDE DEF b
  <2>3. NfsType'
    BY <1>2, <1>3, <2>1 DEF WholeInv, NfsType, Calling
  <2>4. MessagesAreOurs'
    BY <1>2, <2>1 DEF WholeInv, MessagesAreOurs
  <2>5. GotIsRight'
    BY <1>3, <2>1, <2>2 DEF WholeInv, GotIsRight
  <2> QED  BY <2>3, <2>4, <2>5 DEF WholeInv
<1> QED  BY <1>4, <1>5

\* The invariant is inductive when a session's socket is its own.
LEMMA WholeStep ==
  ASSUME SamePort = FALSE
  PROVE  WholeInv /\ [NfsNext]_nfsVars => WholeInv'
<1> SUFFICES ASSUME WholeInv, [NfsNext]_nfsVars PROVE WholeInv'
  OBVIOUS
<1>1. CASE FillWindow
  <2>1. NfsType /\ Reading
    BY <1>1 DEF WholeInv, FillWindow
  <2>2. PICK n \in Nat : \E f \in [nfs.xid + 1 .. nfs.xid + n -> Flights] :
          Refills(n, InFlight, f) /\ nfs' \in Clients
    BY <1>1, <2>1, FillRefills
  <2>3. InFlight \in SUBSET InFlight
    OBVIOUS
  <2> QED  BY <2>1, <2>2, <2>3, WholeRefills
<1>2. CASE ReadTimeout
  <2>1. NfsType /\ Reading /\ UNCHANGED <<listens, lost>>
    BY <1>2 DEF WholeInv, ReadTimeout
  <2>2. PICK stale \in SUBSET InFlight :
           /\ nfs' \in Clients
           /\ \/ /\ nfs' = [nfs EXCEPT !.phase = "failed", !.tooSoon = nfs.tooSoon \/ Coming(stale)]
                 /\ UNCHANGED <<wire, listens, lost>>
              \/ \E n \in Nat : \E f \in [nfs.xid + 1 .. nfs.xid + n -> Flights] :
                   Refills(n, InFlight \ stale, f)
    BY <1>2, <2>1, TimeoutRefills
  <2>3. CASE nfs' = [nfs EXCEPT !.phase = "failed", !.tooSoon = nfs.tooSoon \/ Coming(stale)]
             /\ UNCHANGED <<wire, listens, lost>>
    <3>1. nfs \in Clients /\ lost \in Nat
      BY DEF WholeInv, NfsType
    <3> DEFINE soon == nfs.tooSoon \/ Coming(stale)
    <3>2. nfs' = [nfs EXCEPT !.phase = "failed", !.tooSoon = soon]
      BY <2>3
    <3> HIDE DEF soon
    <3>3. /\ nfs'.session = nfs.session /\ nfs'.xid = nfs.xid /\ nfs'.inflight = nfs.inflight
          /\ nfs'.got = nfs.got /\ nfs'.out = nfs.out /\ nfs'.phase = "failed"
      BY <3>1, <3>2 DEF Clients
    <3> QED  BY <2>2, <2>3, <3>1, <3>3, WholeQuiet
  <2>4. CASE \E n \in Nat : \E f \in [nfs.xid + 1 .. nfs.xid + n -> Flights] :
                   Refills(n, InFlight \ stale, f)
    <3>1. InFlight \ stale \in SUBSET InFlight
      OBVIOUS
    <3> QED  BY <2>1, <2>2, <2>4, <3>1, WholeRefills
  <2> QED  BY <2>2, <2>3, <2>4
<1>3. CASE UNCHANGED nfsVars
  BY <1>3 DEF nfsVars, WholeInv, NfsType, MessagesAreOurs, GotIsRight, InFlight, Calling
<1> QED
  BY <1>1, <1>2, <1>3, WholeSend, WholeCalls, WholeSessions, WholeHears DEF NfsNext, Client

\* A file that was read is that file, block by block, however many blocks it has,
\* whatever the window and whatever is lost, late or answered twice (read_file
\* matches replies to blocks by transaction id alone), provided that no session
\* is given the socket of another (NfsRead.SamePort).
THEOREM FileWhole ==
  ASSUME SamePort = FALSE
  PROVE  NfsSpec => []FileIsWhole
<1>1. WholeInv => FileIsWhole
  BY DEF WholeInv, GotIsRight, FileIsWhole
<1> QED  BY <1>1, WholeInit, WholeStep, PTL DEF NfsSpec

---------------------------------------------------------------------------
(* Only losses fail a load. *)

\* A session that opens has sent nothing and lost nothing.
LEMMA LossOpens ==
  ASSUME wire = {}, nfs.phase = "call", nfs.attempt = 0, lost \in Nat,
         nfs.portmap = 2 /\ listens = 1 /\ ~nfs.tooSoon => lost >= Attempts
  PROVE  EachWasLost
BY DEF EachWasLost, CallsLost, Calling, Reading

\* A call: what the attempt sends is on the wire until it is heard or lost.
LEMMA LossSend == LossInv /\ SendCall => EachWasLost'
<1> SUFFICES ASSUME LossInv, SendCall, ~nfs'.tooSoon PROVE EachWasLost'
  BY DEF EachWasLost
<1> DEFINE x == IF nfs.attempt = 0 THEN nfs.xid + 1 ELSE nfs.xid
           m == Message(x, Calls[nfs.step], 0)
<1>1. /\ nfs' = [nfs EXCEPT !.xid = x, !.attempt = @ + 1, !.waiting = TRUE]
      /\ wire' = wire \cup Answers(m) /\ UNCHANGED <<listens, lost>>
      /\ nfs.phase = "call" /\ nfs.attempt < Attempts /\ ~nfs.waiting
  BY DEF SendCall, Calling
<1>2. nfs \in Clients /\ nfs.attempt \in Nat /\ lost \in Nat /\ nfs.step \in 1 .. 5
  BY DEF LossInv, WholeInv, NfsType, Clients
<1>3. /\ nfs'.xid = x /\ nfs'.attempt = nfs.attempt + 1 /\ nfs'.waiting
      /\ nfs'.phase = "call" /\ nfs'.step = nfs.step /\ nfs'.portmap = nfs.portmap
      /\ nfs'.session = nfs.session /\ nfs'.tooSoon = nfs.tooSoon
  BY <1>1, <1>2 DEF Clients
<1>4. CallsLost
  BY <1>1, <1>3 DEF LossInv, EachWasLost, Calling
<1>5. wire = {} /\ (~Unheard => lost >= nfs.attempt)
      /\ (nfs.portmap = 2 /\ listens = 1 => lost >= Attempts)
  BY <1>1, <1>4 DEF CallsLost
<1>6. m = [Attempted' EXCEPT !.copy = nfs.attempt]
  BY <1>3 DEF Attempted, Message
<1>7. Answers(m) \subseteq {m} /\ (~Unheard => Answers(m) = {m})
  <2>1. Answers(m) \subseteq {m}
    BY DEF Answers
  <2>2. ASSUME ~Unheard PROVE Answers(m) = {m}
    <3>1. m.what = Calls[nfs.step] /\ m.to = nfs.portmap
      BY DEF Message
    <3>2. Calls[nfs.step] \in {"mountPort", "nfsPort"} => nfs.step \in {1, 2}
      BY <1>2 DEF Calls
    <3> QED  BY <2>2, <3>1, <3>2 DEF Answers, Unheard
  <2> QED  BY <2>1, <2>2
<1> HIDE DEF m, x
<1>8. (Unheard)' = Unheard
  BY <1>1, <1>3 DEF Unheard
<1>9. CallsLost'
  <2>1. wire' \subseteq {[Attempted EXCEPT !.copy = nfs.attempt - 1]}'
    BY <1>1, <1>2, <1>3, <1>5, <1>6, <1>7
  <2>2. (~Unheard => lost >= nfs.attempt - 1 /\ (wire = {} => lost >= nfs.attempt))'
    BY <1>1, <1>2, <1>3, <1>5, <1>7, <1>8
  <2> QED  BY <1>1, <1>2, <1>3, <1>5, <2>1, <2>2 DEF CallsLost
<1> QED  BY <1>3, <1>9 DEF EachWasLost, CallsLost, Calling, Reading

\* The end of a wait: nobody else is heard, an answer that is not too late ends
\* the call, and silence means that the attempt was lost.
LEMMA LossCalls == LossInv /\ (HearOther \/ HearReply \/ CallTimeout) => EachWasLost'
<1> SUFFICES ASSUME LossInv, HearOther \/ HearReply \/ CallTimeout, ~nfs'.tooSoon
             PROVE  EachWasLost'
  BY DEF EachWasLost
<1>1. /\ nfs \in Clients /\ nfs.attempt \in Nat /\ lost \in Nat /\ nfs.step \in 1 .. 5
      /\ InFlight = {} /\ nfs.phase = "call" /\ UNCHANGED <<listens, lost>>
  <2>1. nfs \in Clients /\ lost \in Nat /\ (Calling => InFlight = {})
    BY DEF LossInv, WholeInv, NfsType
  <2>2. nfs.attempt \in Nat /\ nfs.step \in 1 .. 5
    BY <2>1 DEF Clients
  <2>3. Calling /\ UNCHANGED <<listens, lost>>
    BY DEF HearOther, HearReply, CallTimeout
  <2> QED  BY <2>1, <2>2, <2>3 DEF Calling
<1>3. ~nfs.tooSoon => CallsLost
  BY <1>1 DEF LossInv, EachWasLost, Calling
<1>4. [Attempted EXCEPT !.copy = nfs.attempt - 1].xid = nfs.xid
      /\ [Attempted EXCEPT !.copy = nfs.attempt - 1].what = Calls[nfs.step]
  BY DEF Attempted, Message
<1>5. CASE HearOther
  <2>1. ~nfs.tooSoon
    BY <1>1, <1>5 DEF HearOther, Clients
  <2> QED  BY <1>3, <1>4, <1>5, <2>1 DEF HearOther, CallsLost
<1>6. CASE HearReply
  <2>1. PICK r \in wire :
       /\ r.xid = nfs.xid /\ wire' = wire \ {r}
       /\ nfs' = [nfs EXCEPT
            !.attempt = 0, !.waiting = FALSE,
            !.step = IF @ = Len(Calls) THEN @ ELSE @ + 1,
            !.phase = IF r.what # Calls[nfs.step] THEN "failed"
                      ELSE IF nfs.step = Len(Calls) THEN "read" ELSE @]
    BY <1>6 DEF HearReply
  <2>2. /\ nfs'.attempt = 0 /\ nfs'.inflight = nfs.inflight /\ nfs'.portmap = nfs.portmap
        /\ nfs'.tooSoon = nfs.tooSoon
        /\ r.what = Calls[nfs.step] => nfs'.phase \in {"read", "call"}
    BY <1>1, <2>1 DEF Clients
  <2>3. CallsLost
    BY <1>3, <2>2
  <2>4. r = [Attempted EXCEPT !.copy = nfs.attempt - 1]
    BY <2>3 DEF CallsLost
  <2>5. wire' = {} /\ nfs'.phase \in {"read", "call"}
    BY <1>4, <2>1, <2>2, <2>3, <2>4 DEF CallsLost
  <2>6. CASE nfs'.phase = "call"
    BY <1>1, <2>2, <2>3, <2>5, <2>6 DEF CallsLost, EachWasLost, Calling, Reading
  <2>7. CASE nfs'.phase = "read"
    <3>1. InFlight' = {}
      BY <1>1, <2>2 DEF InFlight
    <3> QED  BY <2>7, <3>1 DEF EachWasLost, ReadsLost, Calling, Reading
  <2> QED  BY <2>5, <2>6, <2>7
<1>7. CASE CallTimeout
  <2> DEFINE soon == nfs.tooSoon \/ Coming({nfs.xid})
  <2>1. nfs' = [nfs EXCEPT !.waiting = FALSE, !.tooSoon = soon] /\ UNCHANGED wire
    BY <1>7 DEF CallTimeout
  <2>2. nfs'.tooSoon = soon /\ ~soon
    <3> HIDE DEF soon
    <3> QED  BY <1>1, <2>1 DEF Clients
  <2>3. ~nfs.tooSoon /\ \A m \in wire : m.xid # nfs.xid
    BY <2>2 DEF Coming
  <2>4. wire = {}
    BY <1>3, <1>4, <2>3 DEF CallsLost
  <2> HIDE DEF soon
  <2>5. /\ nfs'.attempt = nfs.attempt /\ nfs'.step = nfs.step /\ nfs'.portmap = nfs.portmap
        /\ nfs'.phase = "call"
    BY <1>1, <2>1 DEF Clients
  <2> QED  BY <1>1, <1>3, <2>1, <2>3, <2>4, <2>5
           DEF CallsLost, EachWasLost, Calling, Reading, Unheard
<1> QED  BY <1>5, <1>6, <1>7

\* A call given up was lost as often as it was sent, or went to a portmapper
\* nobody listens on.
LEMMA LossSessions ==
  ASSUME SamePort = FALSE
  PROVE  LossInv /\ (GiveUpCall \/ ReadDone \/ NextSession) => EachWasLost'
<1> SUFFICES ASSUME LossInv, GiveUpCall \/ ReadDone \/ NextSession, ~nfs'.tooSoon
             PROVE  EachWasLost'
  BY DEF EachWasLost
<1>1. /\ nfs \in Clients /\ nfs.session \in Nat /\ nfs.attempt \in Nat /\ lost \in Nat
      /\ nfs.portmap \in {1, 2} /\ listens \in {1, 2} /\ nfs.tooSoon \in BOOLEAN
  BY DEF LossInv, WholeInv, NfsType, Clients
<1>2. CASE GiveUpCall
  <2>1. /\ nfs.phase = "call" /\ ~nfs.waiting /\ nfs.attempt = Attempts
        /\ UNCHANGED <<listens, lost>>
    BY <1>2 DEF GiveUpCall, Calling
  <2>2. ~nfs.tooSoon => CallsLost
    BY <2>1 DEF LossInv, EachWasLost, Calling
  <2>3. CASE nfs.step \in {1, 2} /\ nfs.portmap = 1
    <3>1. nfs' = Opened(nfs.session, 2, nfs.tooSoon) /\ wire' = {}
      BY <1>2, <2>3 DEF GiveUpCall, Opened
    <3>2. /\ nfs'.phase = "call" /\ nfs'.attempt = 0 /\ nfs'.portmap = 2 /\ nfs'.step = 1
          /\ (nfs'.tooSoon <=> nfs.tooSoon)
      BY <1>1, <3>1, OpenedIs
    <3>3. listens = 1 => lost >= Attempts
      BY <2>1, <2>2, <2>3, <3>2 DEF CallsLost, Unheard
    <3>4. wire' = {} /\ lost' = lost /\ listens' = listens
      BY <2>1, <3>1
    <3> QED  BY <1>1, <3>2, <3>3, <3>4 DEF EachWasLost, CallsLost, Calling, Reading
  <2>4. CASE ~(nfs.step \in {1, 2} /\ nfs.portmap = 1)
    <3>1. nfs' = [nfs EXCEPT !.phase = "failed"] /\ UNCHANGED wire
      BY <1>2, <2>4 DEF GiveUpCall
    <3>2. nfs'.phase = "failed" /\ nfs'.tooSoon = nfs.tooSoon
      BY <1>1, <3>1 DEF Clients
    <3>3. lost >= Attempts
      BY <1>1, <2>1, <2>2, <2>4, <3>2 DEF CallsLost, Unheard
    <3> QED  BY <2>1, <3>2, <3>3 DEF EachWasLost, Calling, Reading
  <2> QED  BY <2>3, <2>4
<1>3. CASE ReadDone
  <2>1. nfs'.phase = "ok"
    BY <1>1, <1>3 DEF ReadDone, Clients
  <2> QED  BY <2>1 DEF EachWasLost, Calling, Reading
<1>4. CASE NextSession
  <2>1. nfs' = Connected(nfs.session + 1, 1) /\ wire' = {} /\ UNCHANGED <<listens, lost>>
    BY <1>4 DEF NextSession
  <2>2. nfs.session + 1 \in Nat /\ 1 \in {1, 2}
    BY <1>1
  <2>3. nfs'.phase = "call" /\ nfs'.attempt = 0 /\ nfs'.portmap = 1
    BY <2>1, <2>2, ConnectedIs
  <2> QED  BY <1>1, <2>1, <2>3 DEF EachWasLost, CallsLost, Calling, Reading
<1> QED  BY <1>2, <1>3, <1>4

\* A new read's datagram is on the wire; a resend is of one that was lost.
LEMMA LossRefills ==
  ASSUME LossInv, Reading, NEW n \in Nat, NEW keep \in SUBSET InFlight,
         NEW f \in [nfs.xid + 1 .. nfs.xid + n -> Flights], Refills(n, keep, f),
         ~nfs.tooSoon, \A x \in nfs.xid + 1 .. nfs.xid + n : lost >= f[x].retries
  PROVE  EachWasLost'
<1> DEFINE fresh == nfs.xid + 1 .. nfs.xid + n
<1>1. NfsType /\ lost \in Nat
  BY DEF LossInv, WholeInv, NfsType
<1>2. nfs'.inflight = Refilled(n, keep, f) /\ InFlight' = keep \cup fresh
  BY ZenonT(40), <1>1, RefilledIs DEF Refills, InFlight
<1>3. \A x \in InFlight' :
        /\ x \in fresh => nfs'.inflight[x] = f[x]
        /\ x \notin fresh => x \in InFlight /\ nfs'.inflight[x] = nfs.inflight[x]
  BY <1>2 DEF Refilled
<1>4. /\ wire' = wire \cup {Message(x, "read", f[x].block) : x \in fresh}
      /\ nfs'.phase = nfs.phase /\ nfs.phase = "read" /\ lost' = lost
  BY DEF Refills, Reading
<1>5. \A x \in fresh : \E m \in wire' : m.xid = x
  <2> SUFFICES ASSUME NEW x \in fresh PROVE \E m \in wire' : m.xid = x
    OBVIOUS
  <2> DEFINE m == Message(x, "read", f[x].block)
  <2>1. m.xid = x
    BY DEF Message
  <2> HIDE DEF fresh
  <2>2. m \in wire'
    BY <1>4
  <2> QED  BY <2>1, <2>2
<1>6. ReadsLost
  BY DEF LossInv, EachWasLost
<1>7. \A x \in fresh : lost >= f[x].retries
  OBVIOUS
<1> HIDE DEF fresh
<1>8. ReadsLost'
  BY <1>3, <1>4, <1>5, <1>6, <1>7 DEF ReadsLost
<1> QED  BY <1>4, <1>8 DEF EachWasLost, Calling, Reading

\* The steps of reading: filling the window, a block heard, a timeout.
LEMMA LossReads == LossInv /\ (FillWindow \/ HearBlock \/ ReadTimeout) => EachWasLost'
<1> SUFFICES ASSUME LossInv, FillWindow \/ HearBlock \/ ReadTimeout, ~nfs'.tooSoon
             PROVE  EachWasLost'
  BY DEF EachWasLost
<1>1. WholeInv /\ NfsType /\ nfs \in Clients /\ lost \in Nat /\ nfs.phase = "read" /\ Reading
      /\ UNCHANGED <<listens, lost>> /\ nfs.tooSoon \in BOOLEAN
  <2>1. WholeInv /\ NfsType /\ nfs \in Clients /\ lost \in Nat
    BY DEF LossInv, WholeInv, NfsType
  <2>2. nfs.tooSoon \in BOOLEAN
    BY <2>1 DEF Clients
  <2>3. Reading /\ UNCHANGED <<listens, lost>>
    BY DEF FillWindow, HearBlock, ReadTimeout
  <2> QED  BY <2>1, <2>2, <2>3 DEF Reading
<1>2. ~nfs.tooSoon => ReadsLost
  BY <1>1 DEF LossInv, EachWasLost
<1>3. nfs.inflight \in [InFlight -> Flights]
  BY <1>1, InflightIs
<1>4. CASE FillWindow
  <2>1. PICK n \in Nat : \E f \in [nfs.xid + 1 .. nfs.xid + n -> Flights] :
           /\ Refills(n, InFlight, f) /\ nfs' \in Clients
           /\ \A x \in nfs.xid + 1 .. nfs.xid + n : f[x].retries = 0
           /\ nfs'.tooSoon = nfs.tooSoon
    BY <1>1, <1>4, FillRefills
  <2>2. PICK f \in [nfs.xid + 1 .. nfs.xid + n -> Flights] :
           /\ Refills(n, InFlight, f)
           /\ \A x \in nfs.xid + 1 .. nfs.xid + n : f[x].retries = 0
           /\ nfs'.tooSoon = nfs.tooSoon
    BY <2>1
  <2>3. ~nfs.tooSoon /\ \A x \in nfs.xid + 1 .. nfs.xid + n : lost >= f[x].retries
    BY <1>1, <2>2
  <2> QED  BY <1>1, <2>2, <2>3, LossRefills
<1>5. CASE HearBlock
  <2>1. PICK r \in wire :
       /\ wire' = wire \ {r}
       /\ IF r.xid \notin InFlight THEN UNCHANGED nfs
          ELSE LET b == nfs.inflight[r.xid].block IN
               nfs' = [nfs EXCEPT
                 !.inflight = [x \in InFlight \ {r.xid} |-> @[x]],
                 !.phase = IF r.what # "read" THEN "failed" ELSE @,
                 !.out[b] = <<r.file, r.block>>, !.got = @ \cup {b}]
    BY <1>5 DEF HearBlock
  <2>2. /\ InFlight' = InFlight \ {r.xid} /\ nfs'.tooSoon = nfs.tooSoon /\ nfs'.phase = "read"
        /\ \A x \in InFlight' : nfs'.inflight[x] = nfs.inflight[x]
    <3>1. CASE r.xid \notin InFlight
      BY <1>1, <2>1, <3>1 DEF InFlight
    <3>2. CASE r.xid \in InFlight
      BY <1>1, <2>1, <3>2, HeardIs
    <3> QED  BY <3>1, <3>2
  <2>3. ReadsLost'
    BY <1>1, <1>2, <2>1, <2>2 DEF ReadsLost
  <2> QED  BY <2>2, <2>3 DEF EachWasLost, Calling, Reading
<1>6. CASE ReadTimeout
  <2>1. PICK stale \in SUBSET InFlight :
           /\ nfs'.tooSoon = (nfs.tooSoon \/ Coming(stale)) /\ nfs' \in Clients
           /\ \/ /\ \E x \in stale : nfs.inflight[x].retries >= Resends
                 /\ nfs' = [nfs EXCEPT !.phase = "failed", !.tooSoon = nfs.tooSoon \/ Coming(stale)]
                 /\ UNCHANGED <<wire, listens, lost>>
              \/ \E n \in Nat : \E f \in [nfs.xid + 1 .. nfs.xid + n -> Flights] :
                   /\ Refills(n, InFlight \ stale, f)
                   /\ \A x \in nfs.xid + 1 .. nfs.xid + n :
                        \E y \in stale : f[x].retries = nfs.inflight[y].retries + 1
    BY <1>1, <1>6, TimeoutRefills
  <2>2. ~nfs.tooSoon /\ ~Coming(stale)
    BY <1>1, <2>1
  <2>3. \A y \in stale : lost > nfs.inflight[y].retries /\ nfs.inflight[y].retries \in Nat
    BY <1>2, <1>3, <2>2 DEF ReadsLost, Coming, Flights
  <2>4. CASE /\ \E x \in stale : nfs.inflight[x].retries >= Resends
             /\ nfs' = [nfs EXCEPT !.phase = "failed", !.tooSoon = nfs.tooSoon \/ Coming(stale)]
    <3>1. lost > Resends
      BY <1>1, <2>3, <2>4
    <3> DEFINE soon == nfs.tooSoon \/ Coming(stale)
    <3>2. nfs' = [nfs EXCEPT !.phase = "failed", !.tooSoon = soon]
      BY <2>4
    <3> HIDE DEF soon
    <3>3. nfs'.phase = "failed"
      BY <1>1, <3>2 DEF Clients
    <3> QED  BY <1>1, <3>1, <3>3 DEF EachWasLost, Calling, Reading
  <2>5. CASE \E n \in Nat : \E f \in [nfs.xid + 1 .. nfs.xid + n -> Flights] :
                   /\ Refills(n, InFlight \ stale, f)
                   /\ \A x \in nfs.xid + 1 .. nfs.xid + n :
                        \E y \in stale : f[x].retries = nfs.inflight[y].retries + 1
    <3>0. PICK n \in Nat : \E f \in [nfs.xid + 1 .. nfs.xid + n -> Flights] :
                   /\ Refills(n, InFlight \ stale, f)
                   /\ \A x \in nfs.xid + 1 .. nfs.xid + n :
                        \E y \in stale : f[x].retries = nfs.inflight[y].retries + 1
      BY <2>5
    <3>1. PICK f \in [nfs.xid + 1 .. nfs.xid + n -> Flights] :
                   /\ Refills(n, InFlight \ stale, f)
                   /\ \A x \in nfs.xid + 1 .. nfs.xid + n :
                        \E y \in stale : f[x].retries = nfs.inflight[y].retries + 1
      BY <3>0
    <3>2. ASSUME NEW x \in nfs.xid + 1 .. nfs.xid + n PROVE lost >= f[x].retries
      <4>1. PICK y \in stale : f[x].retries = nfs.inflight[y].retries + 1
        BY <3>1
      <4>2. lost > nfs.inflight[y].retries /\ nfs.inflight[y].retries \in Nat
        BY <2>3
      <4> QED  BY <1>1, <4>1, <4>2
    <3>3. InFlight \ stale \in SUBSET InFlight
      OBVIOUS
    <3> QED  BY <1>1, <2>2, <3>1, <3>2, <3>3, LossRefills
  <2> QED  BY <2>1, <2>4, <2>5
<1> QED  BY <1>4, <1>5, <1>6

\* A datagram lost is counted.
LEMMA LossLoses == LossInv /\ Lose => EachWasLost'
<1> SUFFICES ASSUME LossInv, Lose, ~nfs.tooSoon PROVE EachWasLost'
  BY DEF EachWasLost, Lose
<1>1. /\ nfs \in Clients /\ nfs.attempt \in Nat /\ lost \in Nat /\ UNCHANGED <<nfs, listens>>
      /\ lost' = lost + 1
  BY DEF LossInv, WholeInv, NfsType, Clients, Lose
<1>2. PICK m \in wire : wire' = wire \ {m}
  BY DEF Lose
<1>3. ASSUME Calling PROVE CallsLost'
  <2>1. CallsLost
    BY <1>3 DEF LossInv, EachWasLost
  <2>2. wire' = {}
    BY <1>2, <2>1 DEF CallsLost
  <2> QED  BY <1>1, <2>1, <2>2 DEF CallsLost, Unheard
<1>4. ASSUME Reading PROVE ReadsLost'
  <2>1. ReadsLost /\ nfs.inflight \in [InFlight -> Flights] /\ InFlight' = InFlight
    BY <1>1, <1>4, InflightIs DEF LossInv, WholeInv, EachWasLost, InFlight
  <2>2. \A x \in InFlight : nfs.inflight[x].retries \in Nat
    BY <2>1 DEF Flights
  <2> QED  BY <1>1, <2>1, <2>2 DEF ReadsLost
<1>5. nfs.phase = "failed" => lost >= Attempts \/ lost > Resends
  BY DEF LossInv, EachWasLost
<1> QED  BY <1>1, <1>3, <1>4, <1>5 DEF EachWasLost, Calling, Reading

\* It holds at the start and every step keeps it.
LEMMA LossInit == NfsInit => LossInv
<1> SUFFICES ASSUME NfsInit PROVE LossInv
  OBVIOUS
<1>1. nfs = Connected(1, 1) /\ wire = {} /\ lost = 0
  BY DEF NfsInit
<1>2. nfs.phase = "call" /\ nfs.attempt = 0 /\ nfs.portmap = 1
  BY <1>1, ConnectedIs
<1> QED  BY <1>1, <1>2, WholeInit, LossOpens DEF LossInv

\* Every step keeps what accounts for the losses.
LEMMA LossStep ==
  ASSUME SamePort = FALSE
  PROVE  LossInv /\ [NfsNext]_nfsVars => LossInv'
<1> SUFFICES ASSUME LossInv, [NfsNext]_nfsVars PROVE LossInv'
  OBVIOUS
<1>1. WholeInv'
  BY WholeStep DEF LossInv
<1>2. CASE UNCHANGED nfsVars
  <2>1. EachWasLost'
    BY <1>2 DEF nfsVars, LossInv, EachWasLost, CallsLost, ReadsLost, Attempted, Unheard, Message,
                InFlight, Calling, Reading
  <2> QED  BY <1>1, <2>1 DEF LossInv
<1>3. CASE NfsNext
  BY <1>1, <1>3, LossSend, LossCalls, LossSessions, LossReads, LossLoses
     DEF NfsNext, Client, LossInv
<1> QED  BY <1>2, <1>3

\* Fewer losses than there are sends of a call, or of a block, never fail a load,
\* unless an answer was slower than the wait for it: whatever those bounds are,
\* call and read_file send again as often as the losses they are to survive, and
\* connect_any finds the portmapper that listens.
THEOREM OnlyLossesFail ==
  ASSUME SamePort = FALSE
  PROVE  NfsSpec => []LossIsRepaired
<1>1. LossInv => LossIsRepaired
  <2> SUFFICES ASSUME LossInv, nfs.phase = "failed", ~nfs.tooSoon
               PROVE  lost >= Min({Attempts, Resends + 1})
    BY DEF LossIsRepaired
  <2>1. lost \in Nat /\ (lost >= Attempts \/ lost > Resends)
    BY DEF LossInv, EachWasLost, WholeInv, NfsType
  <2>2. Attempts \in Nat /\ Resends + 1 \in Nat
    OBVIOUS
  <2>3. /\ Min({Attempts, Resends + 1}) \in {Attempts, Resends + 1}
        /\ Min({Attempts, Resends + 1}) <= Attempts
        /\ Min({Attempts, Resends + 1}) <= Resends + 1
    BY <2>2, MinOfTwo
  <2> QED  BY <2>1, <2>2, <2>3
<1> QED  BY <1>1, LossInit, LossStep, PTL DEF NfsSpec

---------------------------------------------------------------------------
(* A list is one menu. *)

Kinds   == {"root", "playlists", "tracks", "artists", "tracksOf"}
Rows    == {"PLAYLIST", "ARTIST", "ALBUM", "TRACK", "FILENAME"}
             \cup [track : Nat, name : Nat] \cup [id : Nat, name : Nat]
Asks    == [txid : Nat, kind : {"menu", "render"}, menu : Kinds, arg : Nat]
Replies == [txid : Nat, kind : {"header", "items", "footer", "available"}, rows : SUBSET Rows]
SessionType ==
  [slot : Slots \cup {"none"}, alive : BOOLEAN, txid : Nat,
   asks : Seq(Asks), answers : Seq(Replies), pending : SUBSET Rows]
RequestType ==
  [kind : Kinds \cup {"none"}, arg : Nat, stage : {"idle", "menu", "rows"},
   rows : SUBSET Rows, since : Nat, clean : BOOLEAN]
PaneType == [request : RequestType, title : Nat, rows : SUBSET Rows, ok : BOOLEAN, until : Nat]

DbType ==
  /\ pane \in PaneType /\ session \in SessionType /\ now \in 1 .. Len(Libraries)
  /\ pane.request.since <= now /\ pane.until <= now
  /\ pane.request.kind # "none" => pane.request.since >= 1
  /\ ~Idle => pane.request.kind # "none"

\* The menus the list being fetched may be: one per state of the library so far.
Menus(request) ==
  {MenuRows(request.kind, request.arg, Libraries[v]) : v \in request.since .. now}

\* Of the first n of a queue, all have ids below x.
Below(queue, n, x) == \A i \in 1 .. n : queue[i].txid < x

\* A session whose questions and answers are none of the future.
QuietQueues(s) ==
  /\ Below(s.asks, Len(s.asks), s.txid + 1)
  /\ Below(s.answers, Len(s.answers), s.txid + 1)

\* A menu was asked for, last of all, and what is before it is older.
AskedFor(s, kind, arg) ==
  LET n == Len(s.asks) IN
  /\ n > 0 /\ Below(s.asks, n - 1, s.txid)
  /\ s.asks[n].txid = s.txid /\ s.asks[n].kind = "menu"
  /\ s.asks[n].menu = kind /\ s.asks[n].arg = arg
  /\ Below(s.answers, Len(s.answers), s.txid)
MenuAsked == AskedFor(session, pane.request.kind, pane.request.arg)

\* The menu was answered, last of all, and its rows are pending.
MenuAnswered ==
  LET n == Len(session.answers) IN
  /\ session.asks = <<>> /\ n > 0 /\ Below(session.answers, n - 1, session.txid)
  /\ session.answers[n].txid = session.txid /\ session.answers[n].kind = "available"
  /\ session.answers[n].rows = session.pending /\ session.pending \in Menus(pane.request)

\* The rendering is the only question, and the pending rows are one menu.
RowsAsked ==
  /\ Len(session.asks) = 1 /\ session.asks[1].kind = "render" /\ session.answers = <<>>
  /\ session.pending \in Menus(pane.request) /\ pane.request.rows = {}

\* The rendering is answered: what is left of header, items and footer, and what
\* was taken of it, are one menu.
RowsComing ==
  LET n == Len(session.answers)
      Kind(i) == session.answers[i].kind
  IN
  /\ session.asks = <<>> /\ n \in 1 .. 3 /\ Kind(n) = "footer"
  /\ n > 1 => /\ Kind(n - 1) = "items" /\ pane.request.rows = {}
              /\ session.answers[n - 1].rows \in Menus(pane.request)
  /\ n = 3 => Kind(1) = "header"
  /\ n = 1 => pane.request.rows \in Menus(pane.request)

FetchInv ==
  /\ QuietQueues(session)
  /\ ~session.alive => Idle /\ session.asks = <<>> /\ session.answers = <<>>
  /\ pane.request.kind = "root" => pane.request.arg = 0
  /\ pane.request.kind = "tracksOf" => pane.title = pane.request.arg
  /\ pane.request.stage = "menu" => pane.request.rows = {} /\ (MenuAsked \/ MenuAnswered)
  /\ pane.request.stage = "rows" => RowsAsked \/ RowsComing

DbInv == DbType /\ FetchInv /\ ListIsOneMenu

HIDE NfsAssumption DEF NfsAssumption

\* A menu is a finite set of rows.
LEMMA MenuRowsAre ==
  ASSUME NEW kind \in Kinds, NEW arg \in Nat, NEW v \in 1 .. Len(Libraries)
  PROVE  MenuRows(kind, arg, Libraries[v]) \in SUBSET Rows
         /\ IsFiniteSet(MenuRows(kind, arg, Libraries[v]))
<1> DEFINE lib == Libraries[v]
<1>1. lib \in Seq(Nat) /\ Len(lib) = Len(Libraries[1]) /\ Libraries[1] \in Seq(Nat)
  BY DbAssumption DEF DbAssumption
<1>2. Tracks = 1 .. Len(lib) /\ Tracks \subseteq Nat /\ Len(lib) \in Nat
  BY <1>1 DEF Tracks
<1>3. \A t \in Tracks : lib[t] \in Nat
  <2> HIDE DEF lib
  <2> QED  BY <1>1, <1>2, ElementOfSeq
<1>4. IsFiniteSet(Tracks)
  <2>1. 1 \in Int /\ Len(lib) \in Int
    BY <1>2
  <2> QED  BY <1>2, <2>1, FS_Interval
<1> HIDE DEF lib
<1>5. ASSUME NEW T \in SUBSET Tracks, NEW f, f = [t \in T |-> f[t]]
      PROVE  IsFiniteSet({f[t] : t \in T})
  <2>1. IsFiniteSet(T)
    BY <1>4, FS_Subset
  <2>2. f \in Surjection(T, {f[t] : t \in T})
    BY <1>5 DEF Surjection
  <2> QED  BY <2>1, <2>2, FS_Surjection
<1>6. CASE kind = "root"
  <2> DEFINE R == {"PLAYLIST", "ARTIST", "ALBUM", "TRACK", "FILENAME"}
  <2>1. MenuRows(kind, arg, lib) = R
    BY <1>6 DEF MenuRows
  <2>2. IsFiniteSet(R)
    <3>1. \A S, x : IsFiniteSet(S) => IsFiniteSet(S \cup {x})
      BY FS_AddElement
    <3>2. IsFiniteSet({} \cup {"PLAYLIST"})
      BY <3>1, FS_EmptySet
    <3>3. IsFiniteSet(({} \cup {"PLAYLIST"}) \cup {"ARTIST"})
      BY <3>1, <3>2
    <3>4. IsFiniteSet((({} \cup {"PLAYLIST"}) \cup {"ARTIST"}) \cup {"ALBUM"})
      BY <3>1, <3>3
    <3>5. IsFiniteSet(((({} \cup {"PLAYLIST"}) \cup {"ARTIST"}) \cup {"ALBUM"}) \cup {"TRACK"})
      BY <3>1, <3>4
    <3>6. IsFiniteSet((((({} \cup {"PLAYLIST"}) \cup {"ARTIST"}) \cup {"ALBUM"}) \cup {"TRACK"})
                        \cup {"FILENAME"})
      BY <3>1, <3>5
    <3>7. (((({} \cup {"PLAYLIST"}) \cup {"ARTIST"}) \cup {"ALBUM"}) \cup {"TRACK"})
                        \cup {"FILENAME"} = R
      OBVIOUS
    <3> HIDE DEF R
    <3> QED  BY <3>6, <3>7
  <2> QED  BY <2>1, <2>2 DEF Rows, lib
<1>7. CASE kind = "playlists"
  BY <1>7, FS_EmptySet DEF MenuRows, lib
<1>8. CASE kind = "tracks"
  <2> DEFINE f == [t \in Tracks |-> [track |-> t, name |-> lib[t]]]
  <2>1. MenuRows(kind, arg, lib) = {f[t] : t \in Tracks}
    BY <1>8 DEF MenuRows
  <2>2. \A t \in Tracks : f[t] \in Rows
    BY <1>2, <1>3 DEF Rows
  <2>3. f = [t \in Tracks |-> f[t]]
    OBVIOUS
  <2> HIDE DEF f
  <2>4. IsFiniteSet({f[t] : t \in Tracks})
    BY <1>5, <2>3
  <2> QED  BY <2>1, <2>2, <2>4 DEF lib
<1>9. CASE kind = "artists"
  <2> DEFINE f == [t \in Tracks |-> [id |-> NameId(lib[t], lib), name |-> lib[t]]]
  <2>1. MenuRows(kind, arg, lib) = {f[t] : t \in Tracks}
    BY <1>9 DEF MenuRows
  <2>2. \A t \in Tracks : f[t] \in Rows
    BY <1>3 DEF Rows, NameId
  <2>3. f = [t \in Tracks |-> f[t]]
    OBVIOUS
  <2> HIDE DEF f
  <2>4. IsFiniteSet({f[t] : t \in Tracks})
    BY <1>5, <2>3
  <2> QED  BY <2>1, <2>2, <2>4 DEF lib
<1>10. CASE kind = "tracksOf"
  <2> DEFINE T == {u \in Tracks : NameId(lib[u], lib) = arg}
             f == [t \in T |-> [track |-> t, name |-> lib[t]]]
  <2>1. MenuRows(kind, arg, lib) = {f[t] : t \in T}
    BY <1>10 DEF MenuRows
  <2>2. \A t \in T : f[t] \in Rows
    BY <1>2, <1>3 DEF Rows
  <2>3. f = [t \in T |-> f[t]] /\ T \in SUBSET Tracks
    OBVIOUS
  <2> HIDE DEF f, T
  <2>4. IsFiniteSet({f[t] : t \in T})
    BY <1>5, <2>3
  <2> QED  BY <2>1, <2>2, <2>4 DEF lib
<1> QED  BY <1>6, <1>7, <1>8, <1>9, <1>10 DEF Kinds

\* What the rows of a menu say: an artist's id is the name, and an artist's tracks
\* are of that artist.
LEMMA NamesAreIds ==
  ASSUME NEW arg, NEW v \in 1 .. Len(Libraries)
  PROVE  /\ \A row \in MenuRows("artists", arg, Libraries[v]) :
              row.id = row.name /\ row.name \in Nat
         /\ \A row \in MenuRows("tracksOf", arg, Libraries[v]) : row.name = arg
<1>1. Libraries[v] \in Seq(Nat) /\ Len(Libraries[v]) = Len(Libraries[1])
      /\ Libraries[1] \in Seq(Nat)
  BY DbAssumption DEF DbAssumption
<1>2. \A t \in Tracks : Libraries[v][t] \in Nat
  BY <1>1 DEF Tracks
<1> QED  BY <1>2 DEF MenuRows, NameId

\* A queue without its head.
LEMMA QueueTail ==
  ASSUME NEW S, NEW q \in Seq(S), q # <<>>
  PROVE  /\ Head(q) = q[1] /\ Len(q) > 0 /\ Tail(q) \in Seq(S) /\ Len(Tail(q)) = Len(q) - 1
         /\ \A i \in 1 .. Len(Tail(q)) : Tail(q)[i] = q[i + 1]
         /\ \A n \in 0 .. Len(q), x \in Int : Below(q, n, x) => Below(Tail(q), n - 1, x)
<1>1. /\ Head(q) = q[1] /\ Len(q) > 0 /\ Tail(q) \in Seq(S) /\ Len(Tail(q)) = Len(q) - 1
      /\ \A i \in 1 .. Len(Tail(q)) : Tail(q)[i] = q[i + 1]
  BY HeadTailProperties
<1> QED  BY <1>1 DEF Below

\* A queue with one more at its end.
LEMMA QueueAppend ==
  ASSUME NEW S, NEW q \in Seq(S), NEW e \in S
  PROVE  /\ Append(q, e) \in Seq(S) /\ Len(Append(q, e)) = Len(q) + 1
         /\ Append(q, e)[Len(q) + 1] = e
         /\ \A i \in 1 .. Len(q) : Append(q, e)[i] = q[i]
         /\ \A n \in 0 .. Len(q), x \in Int : Below(q, n, x) => Below(Append(q, e), n, x)
<1>1. /\ Append(q, e) \in Seq(S) /\ Len(Append(q, e)) = Len(q) + 1
      /\ Append(q, e)[Len(q) + 1] = e
      /\ \A i \in 1 .. Len(q) : Append(q, e)[i] = q[i]
  BY AppendProperties
<1> QED  BY <1>1 DEF Below

\* A queue with three more at its end, as a rendering is answered.
LEMMA QueueThreeMore ==
  ASSUME NEW S, NEW q \in Seq(S), NEW a \in S, NEW b \in S, NEW c \in S
  PROVE  /\ q \o <<a, b, c>> \in Seq(S) /\ Len(q \o <<a, b, c>>) = Len(q) + 3
         /\ (q \o <<a, b, c>>)[Len(q) + 1] = a /\ (q \o <<a, b, c>>)[Len(q) + 2] = b
         /\ (q \o <<a, b, c>>)[Len(q) + 3] = c
         /\ \A i \in 1 .. Len(q) : (q \o <<a, b, c>>)[i] = q[i]
<1>1. <<a, b, c>> \in Seq(S) /\ Len(<<a, b, c>>) = 3 /\ <<a, b, c>>[1] = a
      /\ <<a, b, c>>[2] = b /\ <<a, b, c>>[3] = c
  OBVIOUS
<1> DEFINE t == <<a, b, c>>
<1>2. t \in Seq(S) /\ Len(t) = 3 /\ t[1] = a /\ t[2] = b /\ t[3] = c
  BY <1>1
<1> HIDE DEF t
<1>3. /\ q \o t \in Seq(S) /\ Len(q \o t) = Len(q) + 3
      /\ \A i \in 1 .. Len(q) + 3 : (q \o t)[i] = IF i <= Len(q) THEN q[i] ELSE t[i - Len(q)]
  <2>1. /\ q \o t \in Seq(S) /\ Len(q \o t) = Len(q) + Len(t)
        /\ \A i \in 1 .. Len(q) + Len(t) : (q \o t)[i] = IF i <= Len(q) THEN q[i] ELSE t[i - Len(q)]
    BY <1>2, ConcatProperties
  <2> QED  BY <1>2, <2>1
<1>4. Len(q) \in Nat
  BY LenProperties
<1>5. (q \o t)[Len(q) + 1] = a /\ (q \o t)[Len(q) + 2] = b /\ (q \o t)[Len(q) + 3] = c
  BY <1>2, <1>3, <1>4
<1> QED  BY <1>3, <1>4, <1>5 DEF t

\* Asking for a menu: it is the last question, and everything else is older.
LEMMA AskedIs ==
  ASSUME NEW s \in SessionType, QuietQueues(s), NEW kind \in Kinds, NEW arg \in Nat,
         NEW what \in {"menu", "render"}
  PROVE  LET t == Asked(s, what, kind, arg)
             m == [txid |-> s.txid + 1, kind |-> what, menu |-> kind, arg |-> arg]
         IN  /\ t \in SessionType /\ t.alive = s.alive /\ QuietQueues(t)
             /\ t.answers = s.answers /\ t.pending = s.pending /\ t.asks = Append(s.asks, m)
             /\ m \in Asks /\ t.txid = s.txid + 1
             /\ what = "menu" => AskedFor(t, kind, arg)
<1> DEFINE m == [txid |-> s.txid + 1, kind |-> what, menu |-> kind, arg |-> arg]
           q == Append(s.asks, m)
           t == Asked(s, what, kind, arg)
<1>1. s.asks \in Seq(Asks) /\ s.txid \in Nat /\ s.answers \in Seq(Replies)
  BY DEF SessionType
<1>2. m \in Asks /\ m.txid = s.txid + 1 /\ m.kind = what /\ m.menu = kind /\ m.arg = arg
  BY <1>1 DEF Asks
<1>3. t = [s EXCEPT !.txid = s.txid + 1, !.asks = q]
  BY DEF Asked, SessionType
<1> HIDE DEF m, t
<1>4. /\ q \in Seq(Asks) /\ Len(q) = Len(s.asks) + 1 /\ q[Len(s.asks) + 1] = m
      /\ \A i \in 1 .. Len(s.asks) : q[i] = s.asks[i]
  BY <1>1, <1>2, QueueAppend
<1> HIDE DEF q
<1>5. t \in SessionType /\ t.alive = s.alive /\ t.answers = s.answers /\ t.pending = s.pending
      /\ t.asks = q /\ t.txid = s.txid + 1
  <2>1. s.txid + 1 \in Nat
    BY <1>1
  <2>2. q \in Seq(Asks)
    BY <1>4
  <2>3. t \in SessionType
    BY <1>3, <2>1, <2>2 DEF SessionType
  <2>4. t.answers = s.answers /\ t.pending = s.pending /\ t.asks = q /\ t.txid = s.txid + 1
    BY <1>3 DEF SessionType
  <2>5. t.alive = s.alive
    BY <1>3 DEF SessionType
  <2> QED  BY <2>3, <2>4, <2>5
<1>6. /\ \A i \in 1 .. Len(s.asks) : s.asks[i].txid < s.txid + 1 /\ s.asks[i].txid \in Nat
      /\ \A i \in 1 .. Len(s.answers) : s.answers[i].txid < s.txid + 1 /\ s.answers[i].txid \in Nat
  <2>1. \A i \in 1 .. Len(s.asks) : s.asks[i] \in Asks
    BY <1>1, ElementOfSeq
  <2>2. \A i \in 1 .. Len(s.answers) : s.answers[i] \in Replies
    BY <1>1, ElementOfSeq
  <2> QED  BY <2>1, <2>2 DEF QuietQueues, Below, Asks, Replies
<1>7. Len(s.asks) \in Nat /\ Len(s.answers) \in Nat
  BY <1>1, LenProperties
<1>8. \A i \in 1 .. Len(q) : q[i].txid < s.txid + 1 + 1
  <2> SUFFICES ASSUME NEW i \in 1 .. Len(q) PROVE q[i].txid < s.txid + 1 + 1
    OBVIOUS
  <2>1. CASE i \in 1 .. Len(s.asks)
    <3>1. q[i].txid < s.txid + 1 /\ q[i].txid \in Nat
      BY <1>4, <1>6, <2>1
    <3> QED  BY <1>1, <3>1
  <2>2. CASE i = Len(s.asks) + 1
    <3>1. q[i].txid = s.txid + 1
      BY <1>2, <1>4, <2>2
    <3> QED  BY <1>1, <3>1
  <2>3. i \in 1 .. Len(s.asks) \/ i = Len(s.asks) + 1
    BY <1>4, <1>7
  <2> QED  BY <2>1, <2>2, <2>3
<1>9. \A i \in 1 .. Len(s.answers) : s.answers[i].txid < s.txid + 1 + 1
  BY <1>1, <1>6
<1>10. QuietQueues(t)
  BY <1>5, <1>8, <1>9 DEF QuietQueues, Below
<1>11. \A i \in 1 .. Len(q) - 1 : q[i].txid < s.txid + 1
  BY <1>4, <1>6, <1>7
<1>12. Len(q) > 0 /\ q[Len(q)] = m
  BY <1>4, <1>7
<1>13. what = "menu" => AskedFor(t, kind, arg)
  BY <1>2, <1>5, <1>6, <1>11, <1>12 DEF AskedFor, Below
<1> QED  BY <1>2, <1>5, <1>10, <1>13 DEF m, t, q

\* The step after which the browser waits for a menu it has just asked for.
LEMMA DbAsksMenu ==
  ASSUME DbInv, NEW s \in SessionType, s.alive, QuietQueues(s), NEW kind \in Kinds,
         NEW arg \in Nat, session' = Asked(s, "menu", kind, arg), pane' \in PaneType,
         pane'.request.stage = "menu", pane'.request.kind = kind, pane'.request.arg = arg,
         pane'.request.rows = {},
         pane'.request.since \in 1 .. now, pane'.until <= now, now' = now,
         kind = "root" => arg = 0, kind = "tracksOf" => pane'.title = arg
  PROVE  DbInv'
<1>1. session' \in SessionType /\ session'.alive = s.alive /\ QuietQueues(session')
      /\ AskedFor(session', kind, arg)
  BY AskedIs
<1>2. now \in 1 .. Len(Libraries)
  BY DEF DbInv, DbType
<1>3. DbType'
  BY <1>1, <1>2 DEF DbType, Kinds
<1>4. FetchInv'
  BY <1>1 DEF FetchInv, Idle, MenuAsked, QuietQueues, AskedFor, Below
<1>5. ListIsOneMenu'
  BY DEF ListIsOneMenu, Idle
<1> QED  BY <1>3, <1>4, <1>5 DEF DbInv

\* The step after which the browser waits for nothing.
LEMMA DbIdles ==
  ASSUME DbInv, session' \in SessionType, QuietQueues(session'),
         ~session'.alive => session'.asks = <<>> /\ session'.answers = <<>>,
         pane' \in PaneType, pane'.request.stage = "idle",
         pane'.request.since <= now', pane'.until <= now', now' \in 1 .. Len(Libraries),
         pane'.request.kind # "none" => pane'.request.since >= 1,
         pane'.request.kind = "root" => pane'.request.arg = 0,
         pane'.request.kind = "tracksOf" => pane'.title = pane'.request.arg,
         ListIsOneMenu'
  PROVE  DbInv'
<1>1. DbType'
  BY DEF DbType, Idle
<1>2. FetchInv'
  BY DEF FetchInv, Idle, QuietQueues, Below
<1> QED  BY <1>1, <1>2 DEF DbInv

\* What the invariant says of the parts of the state.
LEMMA DbParts ==
  ASSUME DbInv
  PROVE  /\ pane.request \in RequestType /\ pane.request.arg \in Nat /\ pane.request.since \in Nat
         /\ pane.request.kind \in Kinds \cup {"none"} /\ pane.rows \in SUBSET Rows
         /\ pane.request.rows \in SUBSET Rows /\ pane.title \in Nat /\ pane.until \in Nat
         /\ pane.request.stage \in {"idle", "menu", "rows"}
         /\ session.asks \in Seq(Asks) /\ session.answers \in Seq(Replies) /\ session.txid \in Nat
         /\ session.pending \in SUBSET Rows /\ QuietQueues(session) /\ session \in SessionType
         /\ now \in 1 .. Len(Libraries) /\ now \in Nat /\ pane.until <= now
         /\ pane.request.since <= now /\ pane \in PaneType
         /\ Len(session.asks) \in Nat /\ Len(session.answers) \in Nat
<1>1. pane \in PaneType /\ session \in SessionType /\ now \in 1 .. Len(Libraries)
      /\ QuietQueues(session) /\ pane.until <= now /\ pane.request.since <= now
  BY DEF DbInv, DbType, FetchInv
<1>2. pane.request \in RequestType /\ pane.rows \in SUBSET Rows /\ pane.title \in Nat
      /\ pane.until \in Nat
  BY <1>1 DEF PaneType
<1>3. /\ pane.request.arg \in Nat /\ pane.request.since \in Nat
      /\ pane.request.kind \in Kinds \cup {"none"} /\ pane.request.rows \in SUBSET Rows
      /\ pane.request.stage \in {"idle", "menu", "rows"}
  BY <1>2 DEF RequestType
<1>4. session.asks \in Seq(Asks) /\ session.answers \in Seq(Replies) /\ session.txid \in Nat
      /\ session.pending \in SUBSET Rows
  BY <1>1 DEF SessionType
<1>5. Len(session.asks) \in Nat /\ Len(session.answers) \in Nat
  BY <1>4, LenProperties
<1>6. now \in Nat
  BY <1>1
<1> QED  BY <1>1, <1>2, <1>3, <1>4, <1>5, <1>6

\* The menus of a request are finite sets of rows.
LEMMA MenusAre ==
  ASSUME DbInv, pane.request.kind # "none", NEW R \in Menus(pane.request)
  PROVE  R \in SUBSET Rows /\ IsFiniteSet(R)
         /\ \E v \in pane.request.since .. now :
              R = MenuRows(pane.request.kind, pane.request.arg, Libraries[v])
<1>1. PICK v \in pane.request.since .. now :
        R = MenuRows(pane.request.kind, pane.request.arg, Libraries[v])
  BY DEF Menus
<1>2. v \in 1 .. Len(Libraries) /\ pane.request.kind \in Kinds /\ pane.request.arg \in Nat
  <2>1. pane.request.since >= 1
    BY DEF DbInv, DbType
  <2> QED  BY <1>1, <2>1, DbParts
<1> QED  BY <1>1, <1>2, MenuRowsAre

\* Opening a list: nothing is asked of a dead session, and the menu of a live one.
LEMMA DbFetches ==
  ASSUME DbInv, NEW s \in SessionType, QuietQueues(s),
         ~s.alive => s.asks = <<>> /\ s.answers = <<>>,
         NEW kind \in Kinds, NEW arg \in Nat, NEW title \in Nat,
         kind = "root" => arg = 0, kind = "tracksOf" => title = arg,
         Fetch(s, kind, arg, title), now' = now
  PROVE  DbInv'
<1> DEFINE k == IF s.alive \/ kind # "root" THEN kind ELSE "playlists"
           r == [kind |-> k, arg |-> arg, stage |-> IF s.alive THEN "menu" ELSE "idle",
                 rows |-> {}, since |-> now, clean |-> TRUE]
<1>1. now \in Nat /\ now \in 1 .. Len(Libraries) /\ pane \in PaneType /\ pane.until <= now
  BY DbParts
<1>2. k \in Kinds
  BY DEF Kinds
<1>3. r \in RequestType
  BY <1>1, <1>2 DEF RequestType
<1>4. pane' = [pane EXCEPT !.title = title, !.ok = FALSE, !.rows = {}, !.request = r]
  BY DEF Fetch
<1>5. r.stage = (IF s.alive THEN "menu" ELSE "idle") /\ r.kind = k /\ r.arg = arg /\ r.since = now
      /\ r.rows = {}
  OBVIOUS
<1> HIDE DEF r
<1>6. pane' \in PaneType /\ pane'.request = r /\ pane'.title = title /\ ~pane'.ok
      /\ pane'.until = pane.until
  BY <1>1, <1>3, <1>4 DEF PaneType
<1>7. now \in 1 .. now
  BY <1>1
<1>8. CASE s.alive
  <2>1. session' = Asked(s, "menu", kind, arg)
    BY <1>8 DEF Fetch
  <2>2. pane'.request.stage = "menu" /\ pane'.request.kind = kind /\ pane'.request.arg = arg
        /\ pane'.request.since = now /\ pane'.request.rows = {}
    BY <1>5, <1>6, <1>8
  <2> QED  BY <1>1, <1>6, <1>7, <1>8, <2>1, <2>2, DbAsksMenu
<1>9. CASE ~s.alive
  <2>1. session' = s
    BY <1>9 DEF Fetch
  <2>2. pane'.request.stage = "idle" /\ pane'.request.kind = k /\ pane'.request.arg = arg
        /\ pane'.request.since = now
    BY <1>5, <1>6, <1>9
  <2>3. ListIsOneMenu'
    BY <1>6 DEF ListIsOneMenu
  <2>4. k # "root" /\ (k = "tracksOf" => title = arg)
    BY <1>9
  <2>5. now <= now /\ now >= 1
    BY <1>1
  <2>6. session' \in SessionType /\ QuietQueues(session') /\ ~session'.alive
        /\ session'.asks = <<>> /\ session'.answers = <<>>
    BY <1>9, <2>1
  <2> HIDE DEF k
  <2>7. pane'.until <= now' /\ now' \in 1 .. Len(Libraries) /\ pane'.request.since <= now'
        /\ pane'.request.since >= 1
    BY <1>1, <1>6, <2>2, <2>5
  <2>8. pane'.request.kind = "tracksOf" => pane'.title = pane'.request.arg
    BY <1>6, <2>2, <2>4
  <2> QED  BY <1>6, <2>2, <2>3, <2>4, <2>6, <2>7, <2>8, DbIdles
<1> QED  BY <1>8, <1>9

\* Entering a slot, a category or an artist: what the DJ picked is what is asked for,
\* and an artist's id is the name that stands in the list.
LEMMA DbEnters ==
  DbInv /\ ((\E slot \in Slots : EnterSlot(slot)) \/ EnterCategory \/ EnterArtist) => DbInv'
<1> SUFFICES ASSUME DbInv, (\E slot \in Slots : EnterSlot(slot)) \/ EnterCategory \/ EnterArtist
             PROVE  DbInv'
  OBVIOUS
<1>1. /\ session \in SessionType /\ QuietQueues(session)
      /\ ~session.alive => session.asks = <<>> /\ session.answers = <<>>
  BY DbParts DEF DbInv, FetchInv
<1>2. ASSUME NEW slot \in Slots, EnterSlot(slot) PROVE DbInv'
  <2> DEFINE n == [NoSession EXCEPT !.slot = slot, !.alive = TRUE]
  <2>1. n \in SessionType /\ n.asks = <<>> /\ n.answers = <<>>
    <3>1. <<>> \in Seq(Asks) /\ <<>> \in Seq(Replies)
      BY EmptySeq
    <3>2. NoSession \in SessionType /\ NoSession.asks = <<>> /\ NoSession.answers = <<>>
      BY <3>1 DEF NoSession, SessionType
    <3> QED  BY <3>2 DEF SessionType
  <2>2. QuietQueues(n)
    <3> HIDE DEF n
    <3> QED  BY <2>1 DEF QuietQueues, Below
  <2>3. Session(slot) = session \/ Session(slot) = n
    BY DEF Session
  <2> HIDE DEF n
  <2>4. /\ Session(slot) \in SessionType /\ QuietQueues(Session(slot))
        /\ ~Session(slot).alive => Session(slot).asks = <<>> /\ Session(slot).answers = <<>>
    BY <1>1, <2>1, <2>2, <2>3
  <2>5. Fetch(Session(slot), "root", 0, 0) /\ now' = now /\ "root" \in Kinds
    BY <1>2 DEF EnterSlot, Kinds
  <2> QED  BY <2>4, <2>5, DbFetches
<1>3. CASE EnterCategory
  <2>1. now' = now /\ \E kind \in {"artists", "tracks"} : Fetch(session, kind, 0, 0)
    BY <1>3 DEF EnterCategory
  <2>2. PICK kind \in {"artists", "tracks"} : Fetch(session, kind, 0, 0)
    BY <2>1
  <2>3. kind \in Kinds /\ kind # "root" /\ kind # "tracksOf"
    BY DEF Kinds
  <2> QED  BY <1>1, <2>1, <2>2, <2>3, DbFetches
<1>4. CASE EnterArtist
  <2>1. PICK row \in pane.rows : Fetch(session, "tracksOf", row.id, row.name)
    BY <1>4 DEF EnterArtist
  <2>2. now' = now /\ pane.request.kind = "artists" /\ Idle /\ pane.ok
    BY <1>4 DEF EnterArtist
  <2>3. PICK v \in pane.request.since .. pane.until :
           pane.rows = MenuRows("artists", pane.request.arg, Libraries[v])
    BY <2>2 DEF DbInv, ListIsOneMenu
  <2>4. v \in 1 .. Len(Libraries)
    <3>1. pane.request.since >= 1
      BY <2>2 DEF DbInv, DbType
    <3> QED  BY <2>3, <3>1, DbParts
  <2>5. row.id = row.name /\ row.name \in Nat
    BY ZenonT(40), <2>1, <2>3, <2>4, NamesAreIds
  <2>6. "tracksOf" \in Kinds /\ "tracksOf" # "root"
    BY DEF Kinds
  <2> QED  BY <1>1, <2>1, <2>2, <2>5, <2>6, DbFetches
<1> QED  BY <1>2, <1>3, <1>4

\* The request of a fetch that goes on has a menu to fetch.
LEMMA DbFetching ==
  ASSUME DbInv, pane.request.stage # "idle"
  PROVE  /\ pane.request.kind \in Kinds /\ pane.request.since \in 1 .. now /\ session.alive
         /\ pane.request.kind = "root" => pane.request.arg = 0
         /\ pane.request.kind = "tracksOf" => pane.title = pane.request.arg
         /\ pane.request.stage = "menu" => pane.request.rows = {} /\ (MenuAsked \/ MenuAnswered)
         /\ pane.request.stage = "rows" => RowsAsked \/ RowsComing
<1>1. pane.request.kind # "none" /\ pane.request.since >= 1
  BY DEF DbInv, DbType, Idle
<1>2. session.alive
  BY DEF DbInv, FetchInv, Idle
<1>3. /\ pane.request.kind = "root" => pane.request.arg = 0
      /\ pane.request.kind = "tracksOf" => pane.title = pane.request.arg
      /\ pane.request.stage = "menu" => pane.request.rows = {} /\ (MenuAsked \/ MenuAnswered)
      /\ pane.request.stage = "rows" => RowsAsked \/ RowsComing
  BY DEF DbInv, FetchInv
<1> QED  BY <1>1, <1>2, <1>3, DbParts

\* The fetch ends with a list: one of the menus it may be, or none.
LEMMA DbShows ==
  ASSUME DbInv, pane.request.stage # "idle", NEW ok \in BOOLEAN, NEW R \in SUBSET Rows,
         ok => R \in Menus(pane.request), pane' = Shown(ok, R), now' = now,
         session' \in SessionType, QuietQueues(session'), session'.alive
  PROVE  DbInv'
<1> DEFINE r == [pane.request EXCEPT !.stage = "idle", !.rows = {}]
<1>1. /\ pane \in PaneType /\ pane.request \in RequestType /\ now \in Nat
      /\ now \in 1 .. Len(Libraries)
  BY DbParts
<1>2. /\ r \in RequestType /\ r.stage = "idle" /\ r.kind = pane.request.kind
      /\ r.arg = pane.request.arg /\ r.since = pane.request.since
  BY <1>1 DEF RequestType
<1>3. pane' = [pane EXCEPT !.request = r, !.rows = R, !.ok = ok, !.until = now]
  BY <1>1 DEF Shown, PaneType, RequestType
<1> HIDE DEF r
<1>4. pane' \in PaneType /\ pane'.request = r /\ pane'.rows = R /\ pane'.until = now
      /\ pane'.title = pane.title
  BY <1>1, <1>2, <1>3 DEF PaneType
<1>5. pane'.ok => ok
  BY <1>1, <1>3 DEF PaneType
<1>6. /\ pane.request.kind \in Kinds /\ pane.request.since \in 1 .. now
      /\ pane.request.kind = "root" => pane.request.arg = 0
      /\ pane.request.kind = "tracksOf" => pane.title = pane.request.arg
  BY DbFetching
<1>7. ListIsOneMenu'
  <2> SUFFICES ASSUME ok
               PROVE  /\ \E v \in pane.request.since .. now :
                           R = MenuRows(pane.request.kind, pane.request.arg, Libraries[v])
                      /\ pane.request.kind = "tracksOf" => \A row \in R : row.name = pane.title
    BY <1>2, <1>4, <1>5 DEF ListIsOneMenu
  <2>1. PICK v \in pane.request.since .. now :
           R = MenuRows(pane.request.kind, pane.request.arg, Libraries[v])
    BY DEF Menus
  <2>2. v \in 1 .. Len(Libraries)
    BY <1>1, <1>6, <2>1
  <2>3. pane.request.kind = "tracksOf" => \A row \in R : row.name = pane.title
    BY <1>6, <2>1, <2>2, NamesAreIds
  <2> QED  BY <2>1, <2>3
<1>8. pane'.request.since <= now' /\ pane'.until <= now' /\ now' \in 1 .. Len(Libraries)
      /\ pane'.request.since >= 1
  BY <1>1, <1>2, <1>4, <1>6
<1> QED  BY <1>2, <1>4, <1>6, <1>7, <1>8, DbIdles

\* The fetch has failed: the playlists are asked for, or the list is not shown.
LEMMA DbFails ==
  ASSUME DbInv, pane.request.stage # "idle", NEW s \in SessionType, s.alive, QuietQueues(s),
         Failed(s), now' = now
  PROVE  DbInv'
<1>1. CASE pane.request.kind = "root"
  <2> DEFINE r == [pane.request EXCEPT !.kind = "playlists", !.stage = "menu", !.rows = {}]
  <2>1. pane \in PaneType /\ pane.request \in RequestType /\ pane.until <= now
    BY DbParts
  <2>2. pane' = [pane EXCEPT !.request = r] /\ session' = Asked(s, "menu", "playlists", 0)
    BY <1>1, <2>1 DEF Failed, Playlists, PaneType, RequestType
  <2>3. /\ r \in RequestType /\ r.stage = "menu" /\ r.kind = "playlists"
        /\ r.arg = pane.request.arg /\ r.since = pane.request.since /\ r.rows = {}
    BY <2>1 DEF RequestType, Kinds
  <2> HIDE DEF r
  <2>4. pane' \in PaneType /\ pane'.request = r /\ pane'.until = pane.until
    BY <2>1, <2>2, <2>3 DEF PaneType
  <2>5. pane.request.arg = 0 /\ pane.request.since \in 1 .. now
    BY <1>1, DbFetching
  <2>6. "playlists" \in Kinds /\ "playlists" # "root" /\ "playlists" # "tracksOf" /\ 0 \in Nat
    BY DEF Kinds
  <2>7. pane'.request.stage = "menu" /\ pane'.request.kind = "playlists" /\ pane'.request.arg = 0
        /\ pane'.request.since \in 1 .. now /\ pane'.until <= now /\ pane'.request.rows = {}
    BY <2>1, <2>3, <2>4, <2>5
  <2> QED  BY <2>2, <2>4, <2>6, <2>7, DbAsksMenu
<1>2. CASE pane.request.kind # "root"
  <2>1. pane' = Shown(FALSE, {}) /\ session' = s /\ {} \in SUBSET Rows
    BY <1>2 DEF Failed
  <2> QED  BY <2>1, DbShows
<1> QED  BY <1>1, <1>2

\* Taking an answer off the queue.
LEMMA AnswerTaken ==
  ASSUME DbInv, session.answers # <<>>
  PROVE  LET s == [session EXCEPT !.answers = Tail(@)] IN
         /\ s \in SessionType /\ s.alive = session.alive /\ s.asks = session.asks
         /\ s.txid = session.txid /\ s.pending = session.pending /\ QuietQueues(s)
         /\ s.answers = Tail(session.answers) /\ Len(s.answers) = Len(session.answers) - 1
         /\ Len(session.answers) > 0 /\ Head(session.answers) = session.answers[1]
         /\ \A i \in 1 .. Len(s.answers) : s.answers[i] = session.answers[i + 1]
<1> DEFINE q == Tail(session.answers)
           s == [session EXCEPT !.answers = q]
           n == Len(session.answers)
<1>1. /\ session.answers \in Seq(Replies) /\ session.txid \in Nat /\ QuietQueues(session)
      /\ session \in SessionType /\ n \in Nat
  BY DbParts
<1>2. /\ Head(session.answers) = session.answers[1] /\ n > 0 /\ q \in Seq(Replies)
      /\ Len(q) = n - 1 /\ \A i \in 1 .. Len(q) : q[i] = session.answers[i + 1]
      /\ \A k \in 0 .. n, x \in Int :
           Below(session.answers, k, x) => Below(q, k - 1, x)
  BY <1>1, QueueTail
<1>3. Below(q, Len(q), session.txid + 1)
  <2>1. Below(session.answers, n, session.txid + 1)
    BY <1>1 DEF QuietQueues
  <2>2. n \in 0 .. n /\ session.txid + 1 \in Int
    BY <1>1
  <2> QED  BY <1>2, <2>1, <2>2
<1> HIDE DEF q
<1>4. s \in SessionType
  BY <1>1, <1>2 DEF SessionType
<1>5. s.asks = session.asks /\ s.txid = session.txid /\ s.pending = session.pending /\ s.answers = q
  BY <1>1 DEF SessionType
<1>6. s.alive = session.alive
  BY <1>1 DEF SessionType
<1> HIDE DEF s, n
<1>7. QuietQueues(s)
  BY <1>1, <1>3, <1>5 DEF QuietQueues
<1> QED  BY <1>2, <1>4, <1>5, <1>6, <1>7 DEF s, q, n

\* An answer to the menu: it is the answer to the last question, for its id is, so
\* nothing else is under way; any other answer fails the fetch.
LEMMA DbHearsMenu == DbInv /\ HearMenu => DbInv'
<1> SUFFICES ASSUME DbInv, HearMenu PROVE DbInv'
  OBVIOUS
<1> DEFINE s == [session EXCEPT !.answers = Tail(@)]
           answer == Head(session.answers)
           n == Len(session.answers)
<1>1. /\ pane.request.stage = "menu" /\ session.answers # <<>> /\ now' = now
      /\ IF ~Answered(session, answer) \/ answer.kind # "available" THEN Failed(s)
         ELSE IF Cardinality(answer.rows) = 0 THEN pane' = Shown(TRUE, {}) /\ session' = s
         ELSE /\ pane' = [pane EXCEPT !.request.stage = "rows"]
              /\ session' = Asked(s, "render", pane.request.kind, pane.request.arg)
  BY DEF HearMenu
<1>2. /\ s \in SessionType /\ s.alive = session.alive /\ s.asks = session.asks
      /\ s.txid = session.txid /\ s.pending = session.pending /\ QuietQueues(s)
      /\ Len(s.answers) = n - 1 /\ n > 0 /\ answer = session.answers[1]
      /\ \A i \in 1 .. Len(s.answers) : s.answers[i] = session.answers[i + 1]
  BY <1>1, AnswerTaken
<1>3. /\ pane.request.kind \in Kinds /\ pane.request.since \in 1 .. now /\ session.alive
      /\ pane.request.kind = "root" => pane.request.arg = 0
      /\ pane.request.kind = "tracksOf" => pane.title = pane.request.arg
      /\ MenuAsked \/ MenuAnswered
      /\ pane.request.rows = {}
  BY <1>1, DbFetching
<1>4. /\ pane \in PaneType /\ pane.request \in RequestType /\ pane.request.arg \in Nat
      /\ session.txid \in Nat /\ now \in Nat /\ now \in 1 .. Len(Libraries) /\ n \in Nat
      /\ pane.until <= now /\ session.answers \in Seq(Replies) /\ s.answers \in Seq(Replies)
      /\ pane.request.since <= now
  BY <1>2, DbParts DEF SessionType
<1> HIDE DEF s, answer
<1>5. CASE ~Answered(session, answer) \/ answer.kind # "available"
  BY <1>1, <1>2, <1>3, <1>5, DbFails
<1>6. CASE Answered(session, answer) /\ answer.kind = "available"
  <2>1. answer.txid = session.txid
    BY <1>6 DEF Answered
  <2>2. MenuAnswered /\ n = 1
    <3>1. 1 \in 1 .. n /\ answer = session.answers[1]
      BY <1>2, <1>4
    <3>2. ASSUME MenuAsked PROVE FALSE
      <4>1. Below(session.answers, n, session.txid)
        BY <3>2 DEF MenuAsked, AskedFor
      <4>2. answer.txid < session.txid
        BY <3>1, <4>1 DEF Below
      <4> QED  BY <1>4, <2>1, <4>2
    <3>3. MenuAnswered
      BY <1>3, <3>2
    <3>4. ASSUME n # 1 PROVE FALSE
      <4>1. Below(session.answers, n - 1, session.txid)
        BY <3>3 DEF MenuAnswered
      <4>3. 1 \in 1 .. n - 1
        <5> HIDE DEF n
        <5> QED  BY <1>2, <1>4, <3>4
      <4>2. answer.txid < session.txid
        BY <3>1, <4>1, <4>3 DEF Below
      <4> QED  BY <1>4, <2>1, <4>2
    <3> QED  BY <3>3, <3>4
  <2>3. /\ session.asks = <<>> /\ answer.rows = session.pending
        /\ session.pending \in Menus(pane.request) /\ Len(s.answers) = 0 /\ s.answers = <<>>
    <3>1. /\ session.asks = <<>> /\ answer.rows = session.pending
          /\ session.pending \in Menus(pane.request) /\ Len(s.answers) = 0
      BY <1>2, <2>2 DEF MenuAnswered
    <3>2. s.answers = <<>>
      BY <1>4, <3>1, EmptySeq
    <3> QED  BY <3>1, <3>2
  <2>4. pane.request.kind # "none"
    BY <1>3 DEF Kinds
  <2>5. CASE Cardinality(answer.rows) = 0
    <3>1. pane' = Shown(TRUE, {}) /\ session' = s
      BY <1>1, <1>6, <2>5
    <3>2. answer.rows = {}
      BY <2>3, <2>4, <2>5, MenusAre, FS_EmptySet
    <3>3. {} \in SUBSET Rows /\ {} \in Menus(pane.request)
      BY <2>3, <3>2
    <3> QED  BY <1>1, <1>2, <1>3, <3>1, <3>3, DbShows
  <2>6. CASE Cardinality(answer.rows) # 0
    <3> DEFINE r == [pane.request EXCEPT !.stage = "rows"]
               t == Asked(s, "render", pane.request.kind, pane.request.arg)
               m == [txid |-> s.txid + 1, kind |-> "render", menu |-> pane.request.kind,
                     arg |-> pane.request.arg]
    <3>1. pane' = [pane EXCEPT !.request = r] /\ session' = t
      BY <1>1, <1>4, <1>6, <2>6 DEF PaneType, RequestType
    <3>2. /\ r \in RequestType /\ r.stage = "rows" /\ r.kind = pane.request.kind
          /\ r.arg = pane.request.arg /\ r.since = pane.request.since
          /\ r.rows = pane.request.rows
      BY <1>4 DEF RequestType
    <3> HIDE DEF r
    <3>3. pane' \in PaneType /\ pane'.request = r /\ pane'.until = pane.until
          /\ pane'.title = pane.title
      BY <1>4, <3>1, <3>2 DEF PaneType
    <3>4. /\ t \in SessionType /\ t.alive = s.alive /\ QuietQueues(t) /\ t.answers = s.answers
          /\ t.pending = s.pending /\ t.asks = Append(s.asks, m) /\ m \in Asks
      <4>1. "render" \in {"menu", "render"}
        OBVIOUS
      <4> QED  BY ZenonT(40), <1>2, <1>3, <1>4, <4>1, AskedIs
    <3>5. m.kind = "render"
      OBVIOUS
    <3> HIDE DEF t, m
    <3>6. Len(t.asks) = 1 /\ t.asks[1] = m
      <4>1. <<>> \in Seq(Asks) /\ Len(<<>>) = 0
        BY EmptySeq
      <4> QED  BY <1>2, <2>3, <3>4, <4>1, QueueAppend
    <3>7. Menus(pane.request)' = Menus(pane.request)
      BY <1>1, <3>2, <3>3 DEF Menus
    <3>8. RowsAsked'
      BY <1>2, <1>3, <2>3, <3>1, <3>2, <3>3, <3>4, <3>5, <3>6, <3>7 DEF RowsAsked
    <3>9. DbType'
      BY <1>1, <1>3, <1>4, <2>4, <3>1, <3>2, <3>3, <3>4 DEF DbType, Idle
    <3>10. ListIsOneMenu'
      BY <3>2, <3>3 DEF ListIsOneMenu, Idle
    <3>11. FetchInv'
      <4>1. pane'.request.stage = "rows" /\ session'.alive /\ QuietQueues(session')
        BY <1>2, <1>3, <3>1, <3>2, <3>3, <3>4
      <4>2. /\ pane'.request.kind = "root" => pane'.request.arg = 0
            /\ pane'.request.kind = "tracksOf" => pane'.title = pane'.request.arg
        BY <1>3, <3>2, <3>3
      <4> QED  BY <3>8, <4>1, <4>2 DEF FetchInv, QuietQueues, Below
    <3> QED  BY <3>9, <3>10, <3>11 DEF DbInv
  <2> QED  BY <2>5, <2>6
<1> QED  BY <1>5, <1>6

\* A message of the rendering: header, items, footer, of the menu that was pending.
LEMMA DbHearsRows == DbInv /\ HearRows => DbInv'
<1> SUFFICES ASSUME DbInv, HearRows PROVE DbInv'
  OBVIOUS
<1> DEFINE s == [session EXCEPT !.answers = Tail(@)]
           answer == Head(session.answers)
           n == Len(session.answers)
<1>1. /\ pane.request.stage = "rows" /\ session.answers # <<>> /\ now' = now
      /\ \/ /\ answer.kind = "header" /\ session' = s /\ UNCHANGED pane
         \/ /\ answer.kind = "items" /\ session' = s
            /\ pane' = [pane EXCEPT !.request.rows = @ \cup answer.rows]
         \/ /\ answer.kind = "footer" /\ session' = s /\ pane' = Shown(TRUE, pane.request.rows)
         \/ /\ answer.kind = "available" /\ Failed(s)
  BY DEF HearRows
<1>2. /\ s \in SessionType /\ s.alive = session.alive /\ s.asks = session.asks
      /\ s.txid = session.txid /\ s.pending = session.pending /\ QuietQueues(s)
      /\ Len(s.answers) = n - 1 /\ n > 0 /\ answer = session.answers[1]
      /\ \A i \in 1 .. Len(s.answers) : s.answers[i] = session.answers[i + 1]
  BY <1>1, AnswerTaken
<1>3. /\ pane.request.kind \in Kinds /\ pane.request.since \in 1 .. now /\ session.alive
      /\ pane.request.kind = "root" => pane.request.arg = 0
      /\ pane.request.kind = "tracksOf" => pane.title = pane.request.arg
      /\ RowsAsked \/ RowsComing
  BY <1>1, DbFetching
<1>4. /\ pane \in PaneType /\ pane.request \in RequestType /\ pane.request.arg \in Nat
      /\ session.txid \in Nat /\ now \in Nat /\ now \in 1 .. Len(Libraries) /\ n \in Nat
      /\ pane.until <= now /\ session.answers \in Seq(Replies) /\ s.answers \in Seq(Replies)
      /\ pane.request.since <= now /\ pane.request.rows \in SUBSET Rows
  BY <1>2, DbParts DEF SessionType
<1>5. /\ session.asks = <<>> /\ n \in 1 .. 3 /\ session.answers[n].kind = "footer"
      /\ n > 1 => /\ session.answers[n - 1].kind = "items" /\ pane.request.rows = {}
                  /\ session.answers[n - 1].rows \in Menus(pane.request)
      /\ n = 3 => session.answers[1].kind = "header"
      /\ n = 1 => pane.request.rows \in Menus(pane.request)
  BY <1>1, <1>3 DEF RowsAsked, RowsComing
<1> HIDE DEF s, answer, n
\* What is left is the rest of the same rendering.
<1>6. ASSUME n > 1, session' = s, pane' \in PaneType, pane'.request \in RequestType,
             pane'.request.stage = "rows",
             pane'.request.kind = pane.request.kind, pane'.request.arg = pane.request.arg,
             pane'.request.since = pane.request.since, pane'.title = pane.title,
             pane'.until = pane.until,
             n = 3 => pane'.request.rows = {},
             n = 2 => pane'.request.rows = session.answers[1].rows
      PROVE  DbInv'
  <2>1. Menus(pane.request)' = Menus(pane.request)
    BY <1>1, <1>6 DEF Menus
  <2>2. Len(session'.answers) = n - 1 /\ session'.asks = <<>>
        /\ \A i \in 1 .. n - 1 : session'.answers[i] = session.answers[i + 1]
    BY <1>2, <1>5, <1>6
  <2>3. RowsComing'
    <3>1. CASE n = 3
      <4>1. session'.answers[1] = session.answers[2] /\ session'.answers[2] = session.answers[3]
            /\ Len(session'.answers) = 2
        BY <2>2, <3>1
      <4> QED  BY <1>5, <1>6, <2>1, <2>2, <3>1, <4>1 DEF RowsComing
    <3>2. CASE n = 2
      <4>1. session'.answers[1] = session.answers[2] /\ Len(session'.answers) = 1
        BY <2>2, <3>2
      <4> QED  BY <1>5, <1>6, <2>1, <2>2, <3>2, <4>1 DEF RowsComing
    <3>3. n = 2 \/ n = 3
      BY <1>5, <1>6
    <3> QED  BY <3>1, <3>2, <3>3
  <2>4. pane.request.kind # "none" /\ pane.request.since >= 1
    BY <1>3, <1>4 DEF Kinds
  <2>5. DbType'
    BY <1>1, <1>2, <1>4, <1>6, <2>4 DEF DbType, Idle
  <2>6. ListIsOneMenu'
    BY <1>6 DEF ListIsOneMenu, Idle
  <2>7. FetchInv'
    <3>1. pane'.request.stage = "rows" /\ session'.alive /\ QuietQueues(session')
      BY <1>2, <1>3, <1>6
    <3>2. /\ pane'.request.kind = "root" => pane'.request.arg = 0
          /\ pane'.request.kind = "tracksOf" => pane'.title = pane'.request.arg
      BY <1>3, <1>6
    <3> QED  BY <2>3, <3>1, <3>2 DEF FetchInv, QuietQueues, Below
  <2> QED  BY <2>5, <2>6, <2>7 DEF DbInv
<1>7. CASE answer.kind = "header" /\ session' = s /\ UNCHANGED pane
  <2>1. n = 3
    BY <1>2, <1>5, <1>7
  <2> QED  BY <1>1, <1>4, <1>5, <1>6, <1>7, <2>1
<1>8. CASE answer.kind = "items" /\ session' = s
           /\ pane' = [pane EXCEPT !.request.rows = @ \cup answer.rows]
  <2>1. n = 2 /\ pane.request.rows = {}
    BY <1>2, <1>5, <1>8
  <2> DEFINE r == [pane.request EXCEPT !.rows = answer.rows]
  <2>2. answer \in Replies
    <3>1. 1 \in 1 .. Len(session.answers)
      BY <2>1 DEF n
    <3> QED  BY <1>2, <1>4, <3>1, ElementOfSeq
  <2>3. answer.rows \in SUBSET Rows
    BY <2>2 DEF Replies
  <2>4. pane' = [pane EXCEPT !.request = r]
    BY <1>4, <1>8, <2>1 DEF PaneType, RequestType
  <2>5. /\ r \in RequestType /\ r.stage = pane.request.stage /\ r.kind = pane.request.kind
        /\ r.arg = pane.request.arg /\ r.since = pane.request.since /\ r.rows = answer.rows
    BY <1>4, <2>3 DEF RequestType
  <2> HIDE DEF r
  <2>6. pane' \in PaneType /\ pane'.request = r /\ pane'.until = pane.until
        /\ pane'.title = pane.title
    BY <1>4, <2>4, <2>5 DEF PaneType
  <2> QED  BY <1>1, <1>2, <1>6, <1>8, <2>1, <2>5, <2>6
<1>9. CASE answer.kind = "footer" /\ session' = s /\ pane' = Shown(TRUE, pane.request.rows)
  <2>1. n = 1
    BY <1>2, <1>5, <1>9
  <2> QED  BY <1>1, <1>2, <1>3, <1>4, <1>5, <1>9, <2>1, DbShows
<1>10. CASE answer.kind = "available" /\ Failed(s)
  BY <1>1, <1>2, <1>3, <1>10, DbFails
<1> QED  BY <1>1, <1>7, <1>8, <1>9, <1>10

\* What serving a request does to the session.
LEMMA ServedIs ==
  ASSUME DbInv, Serve
  PROVE  LET m == session.asks[1]
             rows == MenuRows(m.menu, m.arg, Libraries[now])
             n == Len(session.answers)
         IN  /\ session' \in SessionType /\ session'.alive /\ session'.txid = session.txid
             /\ QuietQueues(session') /\ session.asks # <<>> /\ session.alive
             /\ session'.asks = Tail(session.asks) /\ Len(session'.asks) = Len(session.asks) - 1
             /\ \A i \in 1 .. Len(session'.asks) : session'.asks[i] = session.asks[i + 1]
             /\ \A i \in 1 .. n : session'.answers[i] = session.answers[i]
             /\ \A i \in n + 1 .. Len(session'.answers) : session'.answers[i].txid = m.txid
             /\ m.kind = "render" =>
                  /\ Len(session'.answers) = n + 3 /\ session'.pending = session.pending
                  /\ session'.answers[n + 1].kind = "header"
                  /\ session'.answers[n + 2].kind = "items"
                  /\ session'.answers[n + 2].rows = session.pending
                  /\ session'.answers[n + 3].kind = "footer"
             /\ m.kind = "menu" =>
                  /\ Len(session'.answers) = n + 1 /\ session'.pending = rows
                  /\ session'.answers[n + 1].kind = "available"
                  /\ session'.answers[n + 1].rows = rows
                  /\ session'.answers[n + 1].txid = m.txid
<1> DEFINE m == session.asks[1]
           rows == MenuRows(m.menu, m.arg, Libraries[now])
           n == Len(session.answers)
           q == Tail(session.asks)
           h == [txid |-> m.txid, kind |-> "header", rows |-> {}]
           i == [txid |-> m.txid, kind |-> "items", rows |-> session.pending]
           f == [txid |-> m.txid, kind |-> "footer", rows |-> {}]
           a == [txid |-> m.txid, kind |-> "available", rows |-> rows]
           rendered == session.answers \o <<h, i, f>>
           counted  == Append(session.answers, a)
<1>1. /\ session.asks \in Seq(Asks) /\ session.answers \in Seq(Replies) /\ session.txid \in Nat
      /\ session.pending \in SUBSET Rows /\ QuietQueues(session) /\ session \in SessionType
      /\ now \in 1 .. Len(Libraries) /\ Len(session.asks) \in Nat /\ n \in Nat
  BY DbParts
<1>2. session.alive /\ session.asks # <<>>
  BY DEF Serve
<1>3. /\ Head(session.asks) = m /\ Len(session.asks) > 0 /\ q \in Seq(Asks)
      /\ Len(q) = Len(session.asks) - 1
      /\ \A j \in 1 .. Len(q) : q[j] = session.asks[j + 1]
  BY <1>1, <1>2, QueueTail
<1>4. 1 \in 1 .. Len(session.asks)
  BY <1>1, <1>3
<1>5. m \in Asks
  BY <1>1, <1>4, ElementOfSeq
<1>6. m.txid \in Nat /\ m.kind \in {"menu", "render"} /\ m.menu \in Kinds /\ m.arg \in Nat
  BY <1>5 DEF Asks
<1>7. m.txid < session.txid + 1
  BY <1>1, <1>4 DEF QuietQueues, Below
<1>8. session' = IF m.kind = "render"
                 THEN [session EXCEPT !.asks = q, !.answers = rendered]
                 ELSE [session EXCEPT !.asks = q, !.pending = rows, !.answers = counted]
  <2> HIDE DEF m, q
  <2>1. session' = IF m.kind = "render"
       THEN [session EXCEPT !.asks = Tail(@),
              !.answers = @ \o <<[txid |-> m.txid, kind |-> "header", rows |-> {}],
                                 [txid |-> m.txid, kind |-> "items", rows |-> session.pending],
                                 [txid |-> m.txid, kind |-> "footer", rows |-> {}]>>]
       ELSE [session EXCEPT !.asks = Tail(@), !.pending = rows,
              !.answers = Append(@, [txid |-> m.txid, kind |-> "available", rows |-> rows])]
    BY <1>3 DEF Serve
  <2> HIDE DEF rows
  <2> QED  BY <1>1, <2>1 DEF SessionType, q
<1> HIDE DEF m, q, rows
<1>9. rows \in SUBSET Rows
  BY <1>1, <1>6, MenuRowsAre DEF rows
<1>10. h \in Replies /\ i \in Replies /\ f \in Replies /\ a \in Replies
  BY <1>1, <1>6, <1>9 DEF Replies
<1>11. /\ h.txid = m.txid /\ i.txid = m.txid /\ f.txid = m.txid /\ a.txid = m.txid
       /\ h.kind = "header" /\ i.kind = "items" /\ f.kind = "footer" /\ a.kind = "available"
       /\ i.rows = session.pending /\ a.rows = rows
  OBVIOUS
<1> HIDE DEF h, i, f, a, n
<1>12. /\ rendered \in Seq(Replies) /\ Len(rendered) = n + 3 /\ rendered[n + 1] = h
       /\ rendered[n + 2] = i /\ rendered[n + 3] = f
       /\ \A j \in 1 .. n : rendered[j] = session.answers[j]
  BY <1>1, <1>10, QueueThreeMore DEF n
<1>13. /\ counted \in Seq(Replies) /\ Len(counted) = n + 1 /\ counted[n + 1] = a
       /\ \A j \in 1 .. n : counted[j] = session.answers[j]
  BY <1>1, <1>10, QueueAppend DEF n
<1> HIDE DEF rendered, counted
<1>14. \A j \in 1 .. Len(q) : q[j].txid < session.txid + 1
  <2>1. \A j \in 1 .. Len(q) : j + 1 \in 1 .. Len(session.asks)
    BY <1>1, <1>3
  <2> QED  BY <1>1, <1>3, <2>1 DEF QuietQueues, Below
<1>15. \A j \in 1 .. n : session.answers[j].txid < session.txid + 1
  BY <1>1 DEF QuietQueues, Below, n
<1>16. CASE m.kind = "render"
  <2>1. session' = [session EXCEPT !.asks = q, !.answers = rendered]
    BY <1>8, <1>16
  <2>2. session' \in SessionType
    BY <1>1, <1>3, <1>12, <2>1 DEF SessionType
  <2>3. session'.asks = q /\ session'.answers = rendered /\ session'.txid = session.txid
        /\ session'.pending = session.pending
    BY <1>1, <2>1 DEF SessionType
  <2>4. session'.alive = session.alive
    BY <1>1, <2>1 DEF SessionType
  <2>5. \A j \in 1 .. Len(rendered) : rendered[j].txid < session.txid + 1
    <3> SUFFICES ASSUME NEW j \in 1 .. Len(rendered) PROVE rendered[j].txid < session.txid + 1
      OBVIOUS
    <3>1. n \in Nat /\ j \in 1 .. n + 3
      BY <1>1, <1>12
    <3>2. j \in 1 .. n \/ j = n + 1 \/ j = n + 2 \/ j = n + 3
      BY <3>1
    <3> QED  BY <1>7, <1>11, <1>12, <1>15, <3>2
  <2>6. QuietQueues(session')
    BY <1>14, <2>3, <2>5 DEF QuietQueues, Below
  <2>7. \A j \in n + 1 .. Len(session'.answers) : session'.answers[j].txid = m.txid
    <3>1. \A j \in n + 1 .. n + 3 : j = n + 1 \/ j = n + 2 \/ j = n + 3
      BY <1>1
    <3> QED  BY <1>11, <1>12, <2>3, <3>1
  <2> QED  BY <1>2, <1>3, <1>11, <1>12, <1>16, <2>2, <2>3, <2>4, <2>6, <2>7 DEF n, m, q
<1>17. CASE m.kind = "menu"
  <2>1. session' = [session EXCEPT !.asks = q, !.pending = rows, !.answers = counted]
    BY <1>8, <1>17
  <2>2. session' \in SessionType
    BY <1>1, <1>3, <1>9, <1>13, <2>1 DEF SessionType
  <2>3. session'.asks = q /\ session'.answers = counted /\ session'.txid = session.txid
        /\ session'.pending = rows
    BY <1>1, <2>1 DEF SessionType
  <2>4. session'.alive = session.alive
    BY <1>1, <2>1 DEF SessionType
  <2>5. \A j \in 1 .. Len(counted) : counted[j].txid < session.txid + 1
    <3> SUFFICES ASSUME NEW j \in 1 .. Len(counted) PROVE counted[j].txid < session.txid + 1
      OBVIOUS
    <3>1. j \in 1 .. n \/ j = n + 1
      BY <1>1, <1>13
    <3> QED  BY <1>7, <1>11, <1>13, <1>15, <3>1
  <2>6. QuietQueues(session')
    BY <1>14, <2>3, <2>5 DEF QuietQueues, Below
  <2>7. \A j \in n + 1 .. Len(session'.answers) : session'.answers[j].txid = m.txid
    <3>1. \A j \in n + 1 .. n + 1 : j = n + 1
      BY <1>1
    <3> QED  BY <1>11, <1>13, <2>3, <3>1
  <2> QED  BY <1>2, <1>3, <1>11, <1>13, <1>17, <2>2, <2>3, <2>4, <2>6, <2>7 DEF n, m, q, rows
<1> QED  BY <1>6, <1>16, <1>17

\* The server answers in order: an older question's answer is older, the menu's is
\* of the library as it is now, and a rendering is of the menu asked for before it.
LEMMA DbServes == DbInv /\ Serve => DbInv'
<1> SUFFICES ASSUME DbInv, Serve PROVE DbInv'
  OBVIOUS
<1> DEFINE m == session.asks[1]
           rows == MenuRows(m.menu, m.arg, Libraries[now])
           n == Len(session.answers)
           k == Len(session.asks)
<1>1. /\ session' \in SessionType /\ session'.alive /\ session'.txid = session.txid
      /\ QuietQueues(session') /\ session.asks # <<>> /\ session.alive
      /\ Len(session'.asks) = k - 1
      /\ \A i \in 1 .. Len(session'.asks) : session'.asks[i] = session.asks[i + 1]
      /\ \A i \in 1 .. n : session'.answers[i] = session.answers[i]
      /\ \A i \in n + 1 .. Len(session'.answers) : session'.answers[i].txid = m.txid
      /\ m.kind = "render" =>
           /\ Len(session'.answers) = n + 3 /\ session'.pending = session.pending
           /\ session'.answers[n + 1].kind = "header"
           /\ session'.answers[n + 2].kind = "items"
           /\ session'.answers[n + 2].rows = session.pending
           /\ session'.answers[n + 3].kind = "footer"
      /\ m.kind = "menu" =>
           /\ Len(session'.answers) = n + 1 /\ session'.pending = rows
           /\ session'.answers[n + 1].kind = "available"
           /\ session'.answers[n + 1].rows = rows
           /\ session'.answers[n + 1].txid = m.txid
  BY ServedIs
<1>2. UNCHANGED <<pane, now>>
  BY DEF Serve
<1>3. /\ n \in Nat /\ k \in Nat /\ session.txid \in Nat /\ now \in Nat
      /\ session'.answers \in Seq(Replies) /\ session'.asks \in Seq(Asks)
      /\ session.asks \in Seq(Asks) /\ session.answers \in Seq(Replies)
  BY <1>1, DbParts DEF SessionType
<1>4. k > 0
  BY <1>1, <1>3, EmptySeq
<1>5. m.kind \in {"menu", "render"}
  <2>1. 1 \in 1 .. k
    BY <1>3, <1>4
  <2>2. m \in Asks
    BY <1>3, <2>1, ElementOfSeq
  <2> QED  BY <2>2 DEF Asks
<1>6. DbType' /\ ListIsOneMenu'
  <2>1. DbType'
    BY <1>1, <1>2 DEF DbInv, DbType, Idle
  <2>2. ListIsOneMenu'
    BY <1>2 DEF DbInv, ListIsOneMenu, Idle
  <2> QED  BY <2>1, <2>2
<1>7. Menus(pane.request)' = Menus(pane.request)
  BY <1>2 DEF Menus
<1>8. Len(session'.asks) = 0 => session'.asks = <<>>
  BY <1>3, EmptySeq
<1>9. Len(session'.answers) \in Nat
  BY <1>3, LenProperties
<1> HIDE DEF m, rows, n, k
<1>10. ASSUME pane.request.stage = "menu" PROVE (MenuAsked \/ MenuAnswered)'
  <2>1. MenuAsked \/ MenuAnswered
    BY <1>10 DEF DbInv, FetchInv
  <2>2. MenuAsked
    BY <1>1, <2>1 DEF MenuAnswered
  <2>3. /\ Below(session.asks, k - 1, session.txid)
        /\ session.asks[k].txid = session.txid /\ session.asks[k].kind = "menu"
        /\ session.asks[k].menu = pane.request.kind /\ session.asks[k].arg = pane.request.arg
        /\ Below(session.answers, n, session.txid)
    BY <2>2 DEF MenuAsked, AskedFor, k, n
  <2>4. CASE k = 1
    <3>1. m.kind = "menu" /\ m.txid = session.txid /\ m.menu = pane.request.kind
          /\ m.arg = pane.request.arg
      BY <2>3, <2>4 DEF m
    <3>2. rows \in Menus(pane.request)
      <4>1. now \in pane.request.since .. now
        <5>1. pane.request.since \in Nat /\ pane.request.since <= now
          BY DbParts
        <5> QED  BY <1>3, <5>1
      <4> QED  BY <3>1, <4>1 DEF Menus, rows
    <3>4. \A i \in 1 .. n : session'.answers[i].txid < session.txid
      BY <1>1, <2>3 DEF Below
    <3>5. Len(session'.answers) = n + 1 /\ n + 1 - 1 = n /\ n + 1 > 0
      BY <1>1, <1>3, <3>1
    <3>6. session'.asks = <<>>
      BY <1>1, <1>8, <2>4
    <3>7. /\ session'.pending = rows /\ session'.answers[n + 1].kind = "available"
          /\ session'.answers[n + 1].rows = rows /\ session'.answers[n + 1].txid = session.txid
      BY <1>1, <3>1
    <3> DEFINE l == Len(session'.answers)
    <3>8. l = n + 1 /\ l - 1 = n /\ l > 0
      BY <1>3, <3>5
    <3> HIDE DEF l
    <3>9. \A i \in 1 .. l - 1 : session'.answers[i].txid < session'.txid
      BY <1>1, <3>4, <3>8
    <3>10. session'.answers[l].txid = session'.txid /\ session'.answers[l].kind = "available"
           /\ session'.answers[l].rows = session'.pending
      BY <1>1, <3>7, <3>8
    <3>11. session'.pending \in Menus(pane.request)'
      BY <1>7, <3>2, <3>7
    <3> QED  BY <3>6, <3>8, <3>9, <3>10, <3>11 DEF MenuAnswered, Below, l
  <2>5. CASE k > 1
    <3>1. m.txid < session.txid /\ m.txid \in Nat
      <4>1. 1 \in 1 .. k - 1 /\ 1 \in 1 .. Len(session.asks)
        BY <1>3, <2>5 DEF k
      <4>2. m \in Asks
        BY <1>3, <4>1, ElementOfSeq DEF m
      <4> QED  BY <2>3, <4>1, <4>2 DEF Below, m, Asks
    <3>2. Len(session'.asks) = k - 1 /\ k - 1 > 0 /\ k - 1 - 1 \in Nat
      BY <1>1, <1>3, <2>5
    <3>3. session'.asks[k - 1] = session.asks[k]
      <4>1. k - 1 \in 1 .. Len(session'.asks) /\ k - 1 + 1 = k
        BY <1>3, <3>2
      <4> QED  BY <1>1, <4>1
    <3>4. \A i \in 1 .. k - 1 - 1 : session'.asks[i].txid < session.txid
      <4>1. \A i \in 1 .. k - 1 - 1 : i + 1 \in 1 .. k - 1 /\ i \in 1 .. Len(session'.asks)
        BY <1>3, <3>2
      <4> QED  BY <1>1, <2>3, <4>1 DEF Below
    <3>5. \A i \in 1 .. Len(session'.answers) : session'.answers[i].txid < session.txid
      <4> SUFFICES ASSUME NEW i \in 1 .. Len(session'.answers)
                   PROVE  session'.answers[i].txid < session.txid
        OBVIOUS
      <4>1. CASE i \in 1 .. n
        BY <1>1, <2>3, <4>1 DEF Below
      <4>2. CASE i > n
        <5>1. i \in n + 1 .. Len(session'.answers)
          BY <1>3, <1>9, <4>2
        <5>2. session'.answers[i].txid = m.txid
          BY <1>1, <5>1
        <5> QED  BY <3>1, <5>2
      <4>3. i \in 1 .. n \/ i > n
        BY <1>3
      <4> QED  BY <4>1, <4>2, <4>3
    <3>6. AskedFor(session', pane.request.kind, pane.request.arg)
      BY <1>1, <2>3, <3>2, <3>3, <3>4, <3>5 DEF AskedFor, Below
    <3> QED  BY <1>2, <3>6 DEF MenuAsked
  <2> QED  BY <1>3, <1>4, <2>4, <2>5
<1>11. ASSUME pane.request.stage = "rows" PROVE (RowsAsked \/ RowsComing)'
  <2>1. RowsAsked \/ RowsComing
    BY <1>11 DEF DbInv, FetchInv
  <2>2. /\ k = 1 /\ m.kind = "render" /\ n = 0 /\ session.pending \in Menus(pane.request)
        /\ pane.request.rows = {}
    <3>1. RowsAsked
      BY <1>1, <2>1 DEF RowsComing
    <3>2. Len(<<>>) = 0
      OBVIOUS
    <3> QED  BY <3>1, <3>2 DEF RowsAsked, m, n, k
  <2>3. session'.asks = <<>> /\ Len(session'.answers) = 3
    BY <1>1, <1>8, <2>2
  <2>4. /\ session'.answers[1].kind = "header" /\ session'.answers[2].kind = "items"
        /\ session'.answers[2].rows = session.pending /\ session'.answers[3].kind = "footer"
    BY <1>1, <2>2
  <2>5. RowsComing'
    BY <1>2, <1>7, <2>2, <2>3, <2>4 DEF RowsComing
  <2> QED  BY <2>5
<1>12. FetchInv'
  <2>1. (QuietQueues(session))' /\ session'.alive
    BY <1>1 DEF QuietQueues, Below
  <2>2. pane.request.stage = "menu" => pane.request.rows = {}
    BY DEF DbInv, FetchInv
  <2>3. /\ pane.request.kind = "root" => pane.request.arg = 0
        /\ pane.request.kind = "tracksOf" => pane.title = pane.request.arg
    BY DEF DbInv, FetchInv
  <2> QED  BY <1>2, <1>10, <1>11, <2>1, <2>2, <2>3 DEF FetchInv
<1> QED  BY <1>6, <1>12 DEF DbInv

\* Late answers and broken connections: the fetch starts again for the playlists, or
\* ends with nothing.
LEMMA DbFaults == DbInv /\ (AnswerLate \/ ConnectionBreaks) => DbInv'
<1> SUFFICES ASSUME DbInv, AnswerLate \/ ConnectionBreaks PROVE DbInv'
  OBVIOUS
<1>1. /\ pane.request \in RequestType /\ pane.request.since <= now /\ pane.until <= now
      /\ pane.request.since \in Nat /\ pane.request.kind \in Kinds \cup {"none"}
      /\ pane \in PaneType /\ session \in SessionType /\ QuietQueues(session)
      /\ now \in 1 .. Len(Libraries) /\ now \in Nat
  BY DbParts
<1>2. /\ pane.request.kind # "none" => pane.request.since >= 1
      /\ pane.request.kind = "root" => pane.request.arg = 0
      /\ pane.request.kind = "tracksOf" => pane.title = pane.request.arg
  BY DEF DbInv, DbType, FetchInv
<1>3. now' = now
  BY DEF AnswerLate, ConnectionBreaks
<1> DEFINE over == [Shown(FALSE, {}) EXCEPT !.request.clean = FALSE]
           overKind == IF pane.request.kind = "root" THEN "playlists" ELSE pane.request.kind
           gone == [pane.request EXCEPT !.stage = "idle", !.rows = {}, !.clean = FALSE]
<1>4. gone \in RequestType /\ gone.stage = "idle" /\ gone.since = pane.request.since
      /\ gone.kind = pane.request.kind /\ gone.arg = pane.request.arg
  BY <1>1 DEF RequestType
<1>5. over = [pane EXCEPT !.request = gone, !.rows = {}, !.ok = FALSE, !.until = now]
  BY <1>1 DEF Shown, PaneType, RequestType
<1> HIDE DEF over, gone
<1>6. over \in PaneType /\ over.request = gone /\ ~over.ok /\ over.until = now
      /\ over.title = pane.title
  <2>1. over \in PaneType
    BY <1>1, <1>4, <1>5 DEF PaneType
  <2>2. over.request = gone /\ over.until = now /\ over.title = pane.title
    BY <1>1, <1>5 DEF PaneType
  <2>3. ~over.ok
    BY <1>1, <1>5 DEF PaneType
  <2> QED  BY <2>1, <2>2, <2>3
<1>7. CASE AnswerLate /\ pane.request.kind = "root"
  <2> DEFINE next == [pane.request EXCEPT !.kind = "playlists", !.stage = "menu", !.rows = {},
                                          !.clean = FALSE]
  <2>1. pane' = [pane EXCEPT !.request = next]
    <3>1. pane' = Playlists(Muddied)
      BY <1>7 DEF AnswerLate
    <3> QED  BY <1>1, <3>1 DEF Playlists, Muddied, PaneType, RequestType
  <2>2. /\ next \in RequestType /\ next.stage = "menu" /\ next.since = pane.request.since
        /\ next.kind = "playlists" /\ next.rows = {} /\ next.arg = pane.request.arg
        /\ next.arg = 0
    BY <1>1, <1>2, <1>7 DEF RequestType, Kinds
  <2> HIDE DEF next
  <2>3. pane' \in PaneType /\ pane'.request = next /\ pane'.until = pane.until
    BY <1>1, <2>1, <2>2 DEF PaneType
  <2>4. session' = Asked(session, "menu", "playlists", 0) /\ session.alive
    BY <1>7 DEF AnswerLate
  <2>5. next.since \in 1 .. now
    BY <1>1, <1>2, <1>7, <2>2
  <2>6. "playlists" \in Kinds /\ 0 \in Nat
    BY DEF Kinds
  <2> QED  BY <1>1, <1>3, <2>2, <2>3, <2>4, <2>5, <2>6, DbAsksMenu
<1>8. CASE AnswerLate /\ pane.request.kind # "root"
  <2>1. pane' = over /\ session' = session
    BY <1>8 DEF AnswerLate, over
  <2>2. session.alive
    BY <1>8 DEF AnswerLate
  <2>3. ListIsOneMenu'
    BY <1>6, <2>1 DEF ListIsOneMenu
  <2> QED  BY <1>1, <1>2, <1>3, <1>4, <1>6, <2>1, <2>2, <2>3, DbIdles
<1>9. CASE ConnectionBreaks
  <2>1. session' = [session EXCEPT !.alive = FALSE, !.asks = <<>>, !.answers = <<>>]
    BY <1>9 DEF ConnectionBreaks
  <2>2. session' \in SessionType
    <3>1. <<>> \in Seq(Asks) /\ <<>> \in Seq(Replies)
      OBVIOUS
    <3> DEFINE none == <<>>
    <3>2. none \in Seq(Asks) /\ none \in Seq(Replies)
      BY <3>1
    <3>3. session' = [session EXCEPT !.alive = FALSE, !.asks = none, !.answers = none]
      BY <2>1
    <3> HIDE DEF none
    <3> QED  BY <1>1, <3>2, <3>3 DEF SessionType
  <2>3. session'.asks = <<>> /\ session'.answers = <<>>
    BY <1>1, <2>1 DEF SessionType
  <2>4. QuietQueues(session')
    BY <2>3 DEF QuietQueues, Below
  <2>5. CASE Idle
    <3>1. pane' = pane
      BY <1>9, <2>5 DEF ConnectionBreaks
    <3>2. ListIsOneMenu'
      BY <1>3, <3>1 DEF DbInv, ListIsOneMenu, Idle
    <3> QED  BY <1>1, <1>2, <1>3, <2>2, <2>3, <2>4, <2>5, <3>1, <3>2, DbIdles DEF Idle
  <2>6. CASE ~Idle
    <3> DEFINE last == [gone EXCEPT !.kind = overKind]
    <3>1. pane' = [over EXCEPT !.request = last]
      <4>1. pane' = [Shown(FALSE, {}) EXCEPT !.request.clean = FALSE,
                       !.request.kind = IF @ = "root" THEN "playlists" ELSE @]
        BY <1>9, <2>6 DEF ConnectionBreaks
      <4> QED  BY <1>1, <4>1 DEF Shown, over, gone, PaneType, RequestType
    <3>2. last \in RequestType /\ last.stage = "idle" /\ last.since = pane.request.since
          /\ last.kind = overKind /\ last.arg = pane.request.arg
      BY <1>1, <1>4 DEF RequestType, Kinds
    <3> HIDE DEF last
    <3>3. pane' \in PaneType /\ pane'.request = last /\ pane'.until = now
          /\ pane'.title = pane.title
      BY <1>6, <3>1, <3>2 DEF PaneType
    <3>4. ~pane'.ok
      BY <1>6, <3>1 DEF PaneType
    <3>5. ListIsOneMenu'
      BY <3>4 DEF ListIsOneMenu
    <3>6. overKind # "root" /\ (overKind # "none" => pane.request.kind # "none")
          /\ (overKind = "tracksOf" => pane.request.kind = "tracksOf")
      OBVIOUS
    <3> HIDE DEF overKind
    <3> QED  BY <1>1, <1>2, <1>3, <2>2, <2>3, <2>4, <3>2, <3>3, <3>5, <3>6, DbIdles
  <2> QED  BY <2>5, <2>6
<1> QED  BY <1>7, <1>8, <1>9

\* The library goes on: what a fetch may show is only more.
LEMMA DbAnalysed == DbInv /\ Analysed => DbInv'
<1> SUFFICES ASSUME DbInv, Analysed PROVE DbInv'
  OBVIOUS
<1>1. now' = now + 1 /\ now < Len(Libraries) /\ pane' = pane /\ session' = session
  BY DEF Analysed
<1>2. now \in 1 .. Len(Libraries) /\ now \in Nat /\ pane.until \in Nat /\ pane.until <= now
      /\ pane.request.since <= now /\ pane.request.since \in Nat
  BY DbParts
<1>3. Len(Libraries) \in Nat
  BY DbAssumption, LenProperties DEF DbAssumption
<1>4. DbType'
  <2>1. now' \in 1 .. Len(Libraries) /\ pane'.request.since <= now' /\ pane'.until <= now'
    BY <1>1, <1>2, <1>3
  <2> QED  BY <1>1, <2>1 DEF DbInv, DbType, Idle
<1>5. Menus(pane.request) \subseteq Menus(pane.request)'
  <2>1. \A v \in pane.request.since .. now : v \in pane.request.since .. now + 1
    BY <1>2
  <2> QED  BY <1>1, <2>1 DEF Menus
<1>6. MenuAsked' = MenuAsked
  BY <1>1 DEF MenuAsked
<1>7. MenuAnswered => MenuAnswered'
  BY <1>1, <1>5 DEF MenuAnswered, Below
<1>8. RowsAsked => RowsAsked'
  BY <1>1, <1>5 DEF RowsAsked
<1>9. RowsComing => RowsComing'
  BY <1>1, <1>5 DEF RowsComing
<1>10. FetchInv'
  BY <1>1, <1>6, <1>7, <1>8, <1>9 DEF DbInv, FetchInv, Idle
<1>11. ListIsOneMenu'
  BY <1>1 DEF DbInv, ListIsOneMenu, Idle
<1> QED  BY <1>4, <1>10, <1>11 DEF DbInv

\* Nothing was asked yet.
LEMMA DbInitially == DbInit => DbInv
<1> SUFFICES ASSUME DbInit PROVE DbInv
  OBVIOUS
<1>1. Len(Libraries) \in Nat /\ Len(Libraries) > 0
  BY DbAssumption, LenProperties DEF DbAssumption
<1>2. NoRequest \in RequestType /\ NoRequest.stage = "idle" /\ NoRequest.kind = "none"
      /\ NoRequest.since = 0
  BY DEF NoRequest, RequestType
<1>3. pane \in PaneType /\ pane.request = NoRequest /\ pane.until = 0
  BY <1>2 DEF DbInit, PaneType
<1>4. ~pane.ok
  BY DEF DbInit
<1>5. NoSession \in SessionType /\ NoSession.asks = <<>> /\ NoSession.answers = <<>>
  <2>1. <<>> \in Seq(Asks) /\ <<>> \in Seq(Replies)
    OBVIOUS
  <2> QED  BY <2>1 DEF NoSession, SessionType
<1>6. session = NoSession /\ now = 1
  BY DEF DbInit
<1>7. DbType
  BY <1>1, <1>2, <1>3, <1>5, <1>6 DEF DbType, Idle
<1>8. FetchInv
  BY <1>2, <1>3, <1>5, <1>6 DEF FetchInv, Idle, QuietQueues, Below
<1>9. ListIsOneMenu
  BY <1>4 DEF ListIsOneMenu
<1> QED  BY <1>7, <1>8, <1>9 DEF DbInv

\* A list that is shown is one menu of the library, as it was at one moment of the
\* fetch, and an artist's tracks are of the artist named: for any library and
\* analysis, any late answers and any broken connections.
THEOREM ListsAreOneMenu == DbSpec => []ListIsOneMenu
<1>1. DbInv /\ [DbNext]_dbVars => DbInv'
  <2> SUFFICES ASSUME DbInv, [DbNext]_dbVars PROVE DbInv'
    OBVIOUS
  <2>1. ASSUME NEW slot \in Slots, EnterSlot(slot) PROVE DbInv'
    BY <2>1, DbEnters
  <2>2. CASE EnterCategory \/ EnterArtist
    BY <2>2, DbEnters
  <2>3. CASE HearMenu
    BY <2>3, DbHearsMenu
  <2>4. CASE HearRows
    BY <2>4, DbHearsRows
  <2>5. CASE AnswerLate \/ ConnectionBreaks
    BY <2>5, DbFaults
  <2>6. CASE Serve
    BY <2>6, DbServes
  <2>7. CASE Analysed
    BY <2>7, DbAnalysed
  <2>8. CASE UNCHANGED dbVars
    <3>1. pane' = pane /\ session' = session /\ now' = now
      BY <2>8 DEF dbVars
    <3> QED  BY ZenonT(40), <3>1 DEF DbInv, DbType, FetchInv, ListIsOneMenu, QuietQueues, Below, MenuAsked,
                        MenuAnswered, RowsAsked, RowsComing, Menus, Idle
  <2> QED  BY <2>1, <2>2, <2>3, <2>4, <2>5, <2>6, <2>7, <2>8 DEF DbNext
<1>2. DbInv => ListIsOneMenu
  BY DEF DbInv
<1> QED  BY <1>1, <1>2, DbInitially, PTL DEF DbSpec

---------------------------------------------------------------------------
(* The tempo master between two decks. *)

StatusPackets == [master : BOOLEAN, handoff : Someone, counter : Nat]
FlagPairs     == BOOLEAN \X BOOLEAN
Timers        == [seen : Nat, want : Nat, request : Nat, status : Nat, announce : Nat,
                  flags : FlagPairs]

LinkType ==
  /\ link \in [Players -> LinkState] /\ timer \in [Players -> Timers]
  /\ on \in [Players -> BOOLEAN] /\ beatPort \subseteq Packet
  /\ status \in [Players -> [Players -> Seq(StatusPackets)]]
  /\ spent \in [presses : Nat, power : Nat, lost : Nat] /\ spent.lost <= MaxLosses

\* From its k-th packet on, s is what l, holding the role, has told q of it: the role
\* under its present counter, and once it was offered to q, the offer.
Told(s, k, l, q) ==
  \A i \in k .. Len(s) :
    /\ s[i].master /\ s[i].counter = l.ourSync
    /\ s[i].handoff = q => /\ l.handoffTo = q
                           /\ \A j \in i .. Len(s) : s[j].handoff = q

\* What q hears as a claim: the role, not offered to q.
Claims(x, q) == x.master /\ x.handoff # q

\* p holds the role, and q knows.  What q said of a role it had offers it to p.
Solo(p, q) ==
  /\ link[p].master /\ ~link[q].master
  /\ link[q].handoffTo = None /\ link[q].masterPlayer = p
  /\ Told(status[p][q], 1, link[p], q)
  /\ \A i \in 1 .. Len(status[q][p]) : ~Claims(status[q][p][i], p)

\* p has offered the role to q, which took it; p has not heard q's claim.
Giving(p, q) ==
  /\ link[p].master /\ link[q].master
  /\ link[p].handoffTo = q
  /\ \A i \in 1 .. Len(status[p][q]) : status[p][q][i].master /\ status[p][q][i].handoff = q
  /\ \A k \in 1 .. Len(status[q][p]) :
       Claims(status[q][p][k], p) => Told(status[q][p], k, link[q], p)

Roles == \E p, q \in Players : p # q /\ (Solo(p, q) \/ Giving(p, q))

\* One status period of silence is yet to be heard or lost.
Owed(q, p) == IF timer[q].status >= 1 \/ status[q][p] # <<>> THEN 1 ELSE 0

\* Both are on, who is sent to is known and who sends has turned sending on, and a
\* master is silent for no longer than packets were lost.
Reached(q, p) == p # q /\ link[q].sendFull /\ p \in link[q].peers

Steady ==
  /\ \A p \in Players : on[p] /\ link[p].handoffTo # p /\ p \notin link[p].peers
  /\ \A m \in beatPort : m.from # m.to
  /\ \A p, q \in Players : status[q][p] # <<>> => Reached(q, p)
  /\ \A p, q \in Players :
       link[p].masterPlayer = q => Reached(q, p) /\ timer[p].seen <= spent.lost + Owed(q, p)

\* q is off and p holds the role alone.
Alone(p, q) ==
  /\ on[p] /\ ~on[q] /\ link[q] = Fresh /\ timer[q] = Started
  /\ link[p].master /\ link[p].sendFull
  /\ link[p].handoffTo = None /\ link[p].masterPlayer = None /\ link[p].peers = {}
  /\ beatPort = {} /\ \A a, b \in Players : status[a][b] = <<>>

\* How long q may have wanted the role without a word of its master p: every packet lost
\* costs it an announce period.
Waited(p, q) ==
  IF q \in link[p].peers
  THEN timer[q].want <= spent.lost * AnnounceEvery + Owed(p, q)
  ELSE IF [kind |-> "announce", from |-> q, to |-> p] \in beatPort
  THEN timer[q].want <= spent.lost * AnnounceEvery
  ELSE timer[q].want + AnnounceEvery <= spent.lost * AnnounceEvery + timer[q].announce

\* Both are on, and q, which was switched on, does not know yet that p holds the role.
Meeting(p, q) ==
  /\ \A a \in Players : /\ on[a] /\ link[a].handoffTo = None /\ link[a].masterPlayer = None
                        /\ a \notin link[a].peers
  /\ link[p].master /\ link[p].sendFull /\ ~link[q].master
  /\ \A m \in beatPort : m.kind = "announce" /\ m.from # m.to
  /\ \A a, b \in Players : status[b][a] # <<>> => Reached(b, a)
  /\ Told(status[p][q], 1, link[p], q)
  /\ \A i \in 1 .. Len(status[q][p]) : ~status[q][p][i].master
  /\ timer[q].announce <= AnnounceEvery /\ Waited(p, q)

\* A deck without a role that hears nothing, as one that is off.
Off(p) == ~link[p].master /\ link[p].ourSync = 0 /\ \A q \in Players : status[q][p] = <<>>

\* One is off.
Parted == (\E p \in Players : ~on[p]) /\ \A p \in Players : ~on[p] => Off(p)

\* The switches that bring both decks together.
Joining == IF Absent = {} THEN 0 ELSE 1

Together == Roles /\ Steady /\ spent.power = Joining
Meet     == (\E p, q \in Players : p # q /\ Meeting(p, q)) /\ Joining = 1 /\ spent.power = 1
Begins   == (\E p, q \in Players : p # q /\ Alone(p, q)) /\ Joining = 1 /\ spent.power = 0
Apart    == /\ Parted
            /\ \/ spent.power = Joining + 1
               \/ Joining = 1 /\ spent.power = 1 /\ \A p \in Players : ~on[p]

LinkInv == LinkType /\ (Together \/ Meet \/ Begins \/ Apart)

\* Two decks, one of them master.  The other is on too, or is switched on once, while
\* fewer packets are lost than it takes to make it believe that there is no master; and
\* when one is switched off they do not meet again.
TwoDecks ==
  /\ \E a, b : a # b /\ Players = {a, b}
  /\ Lead # None /\ MaxLosses < MasterGone
  /\ MaxPower <= Joining + 1
  /\ Absent # {} => MaxLosses * AnnounceEvery + 1 < WantWait

\* A queue without its first packet.
LEMMA QueueLess ==
  ASSUME NEW s \in Seq(StatusPackets), s # <<>>
  PROVE  /\ Len(s) \in Nat /\ Len(s) >= 1 /\ 1 \in 1 .. Len(s)
         /\ Head(s) = s[1] /\ s[1] \in StatusPackets
         /\ Tail(s) \in Seq(StatusPackets) /\ Len(Tail(s)) = Len(s) - 1
         /\ \A i \in 1 .. Len(Tail(s)) : i + 1 \in 1 .. Len(s) /\ Tail(s)[i] = s[i + 1]
<1>1. /\ Head(s) = s[1] /\ Tail(s) \in Seq(StatusPackets) /\ Len(Tail(s)) = Len(s) - 1
      /\ \A i \in 1 .. Len(Tail(s)) : Tail(s)[i] = s[i + 1]
  BY HeadTailProperties
<1>2. Len(s) \in Nat /\ Len(s) >= 1 /\ Len(Tail(s)) \in Nat
  BY <1>1, LenProperties, EmptySeq
<1>3. s[1] \in StatusPackets
  BY <1>2, ElementOfSeq
<1> QED  BY <1>1, <1>2, <1>3

\* A queue with one packet more.
LEMMA QueueMore ==
  ASSUME NEW s \in Seq(StatusPackets), NEW x \in StatusPackets
  PROVE  /\ Append(s, x) \in Seq(StatusPackets) /\ Len(s) \in Nat /\ Append(s, x) # <<>>
         /\ Len(Append(s, x)) = Len(s) + 1 /\ Append(s, x)[Len(s) + 1] = x
         /\ \A i \in 1 .. Len(s) : Append(s, x)[i] = s[i]
<1>1. /\ Append(s, x) \in Seq(StatusPackets)
      /\ Len(Append(s, x)) = Len(s) + 1 /\ Append(s, x)[Len(s) + 1] = x
      /\ \A i \in 1 .. Len(s) : Append(s, x)[i] = s[i]
  BY AppendProperties
<1>2. Len(s) \in Nat
  BY LenProperties
<1> QED  BY <1>1, <1>2, EmptySeq

\* What was told stays told when its first packet is gone.
LEMMA ToldLess ==
  ASSUME NEW s \in Seq(StatusPackets), s # <<>>, NEW l, NEW q, NEW k \in 1 .. Len(s),
         Told(s, k + 1, l, q)
  PROVE  Told(Tail(s), k, l, q)
<1>1. k \in Nat /\ k >= 1 /\ Len(s) \in Nat /\ Len(Tail(s)) = Len(s) - 1
      /\ \A i \in 1 .. Len(Tail(s)) : i + 1 \in 1 .. Len(s) /\ Tail(s)[i] = s[i + 1]
  BY QueueLess
<1> SUFFICES ASSUME NEW i \in k .. Len(Tail(s))
             PROVE  /\ Tail(s)[i].master /\ Tail(s)[i].counter = l.ourSync
                    /\ Tail(s)[i].handoff = q =>
                         l.handoffTo = q /\ \A j \in i .. Len(Tail(s)) : Tail(s)[j].handoff = q
  BY DEF Told
<1>2. i + 1 \in k + 1 .. Len(s) /\ i \in 1 .. Len(Tail(s)) /\ Tail(s)[i] = s[i + 1]
  BY <1>1
<1>3. /\ s[i + 1].master /\ s[i + 1].counter = l.ourSync
      /\ s[i + 1].handoff = q => l.handoffTo = q /\ \A j \in i + 1 .. Len(s) : s[j].handoff = q
  BY <1>2 DEF Told
<1>4. ASSUME NEW j \in i .. Len(Tail(s)), \A h \in i + 1 .. Len(s) : s[h].handoff = q
      PROVE  Tail(s)[j].handoff = q
  <2>1. j + 1 \in i + 1 .. Len(s) /\ Tail(s)[j] = s[j + 1]
    BY <1>1, <1>2, <1>4
  <2> QED  BY <1>4, <2>1
<1> QED  BY <1>2, <1>3, <1>4

\* A holder of the role goes on telling it.
LEMMA ToldMore ==
  ASSUME NEW s \in Seq(StatusPackets), NEW x \in StatusPackets, NEW l, NEW q \in Players,
         NEW k \in 1 .. Len(s) + 1, Told(s, k, l, q),
         x.master, x.counter = l.ourSync, x.handoff = l.handoffTo
  PROVE  Told(Append(s, x), k, l, q)
<1> DEFINE t == Append(s, x)
<1>1. k \in Nat /\ k >= 1 /\ Len(s) \in Nat /\ Len(t) = Len(s) + 1 /\ t[Len(s) + 1] = x
      /\ \A i \in 1 .. Len(s) : t[i] = s[i]
  BY QueueMore
<1> HIDE DEF t
<1> SUFFICES ASSUME NEW i \in k .. Len(t)
             PROVE  /\ t[i].master /\ t[i].counter = l.ourSync
                    /\ t[i].handoff = q =>
                         l.handoffTo = q /\ \A j \in i .. Len(t) : t[j].handoff = q
  BY DEF Told, t
<1>2. CASE i = Len(s) + 1
  <2>1. t[i] = x /\ \A j \in i .. Len(t) : j = i
    BY <1>1, <1>2
  <2> QED  BY <2>1
<1>3. CASE i # Len(s) + 1
  <2>1. i \in k .. Len(s) /\ t[i] = s[i]
    BY <1>1, <1>3
  <2>2. /\ s[i].master /\ s[i].counter = l.ourSync
        /\ s[i].handoff = q => l.handoffTo = q /\ \A j \in i .. Len(s) : s[j].handoff = q
    BY <2>1 DEF Told
  <2>3. ASSUME NEW j \in i .. Len(t), s[i].handoff = q PROVE t[j].handoff = q
    <3>1. CASE j = Len(s) + 1
      BY <1>1, <2>2, <2>3, <3>1
    <3>2. CASE j # Len(s) + 1
      <4>1. j \in i .. Len(s) /\ t[j] = s[j]
        BY <1>1, <2>1, <3>2
      <4> QED  BY <2>2, <2>3, <4>1
    <3> QED  BY <3>1, <3>2
  <2> QED  BY <2>1, <2>2, <2>3
<1> QED  BY <1>2, <1>3

\* What was told is told from a later packet on too.
LEMMA ToldLater ==
  ASSUME NEW s \in Seq(StatusPackets), NEW l, NEW q, NEW k \in Nat, NEW h \in Nat, k <= h,
         Told(s, k, l, q)
  PROVE  Told(s, h, l, q)
<1>1. Len(s) \in Nat
  BY LenProperties
<1>2. \A i \in h .. Len(s) : i \in k .. Len(s)
  BY <1>1
<1> QED  BY <1>2 DEF Told

\* Taking the role: a counter above all those heard, and nothing offered.
LEMMA TakesIt ==
  ASSUME NEW l \in LinkState
  PROVE  /\ TakeMaster(l) \in LinkState /\ TakeMaster(l).master
         /\ TakeMaster(l).ourSync = l.largestSync + 1
         /\ TakeMaster(l).handoffTo = l.handoffTo /\ TakeMaster(l).masterPlayer = l.masterPlayer
         /\ TakeMaster(l).sendFull = l.sendFull /\ TakeMaster(l).peers = l.peers
<1>1. l.largestSync + 1 \in Nat /\ None \in Someone
  BY DEF LinkState, Someone
<1> QED  BY <1>1 DEF TakeMaster, LinkState

\* A counter heard is remembered if it is the largest; nothing else changes.
LEMMA CountsIt ==
  ASSUME NEW l \in LinkState, NEW x \in StatusPackets
  PROVE  /\ Counted(l, x) \in LinkState /\ Counted(l, x).largestSync >= x.counter
         /\ Counted(l, x).master = l.master /\ Counted(l, x).ourSync = l.ourSync
         /\ Counted(l, x).handoffTo = l.handoffTo /\ Counted(l, x).masterPlayer = l.masterPlayer
         /\ Counted(l, x).sendFull = l.sendFull /\ Counted(l, x).peers = l.peers
<1> DEFINE n == IF x.counter > l.largestSync THEN x.counter ELSE l.largestSync
<1>1. n \in Nat /\ n >= x.counter
  BY DEF LinkState, StatusPackets
<1>2. Counted(l, x) = [l EXCEPT !.largestSync = n]
  BY DEF Counted, LinkState
<1> HIDE DEF n
<1> QED  BY <1>1, <1>2 DEF LinkState

\* Named by the master, a deck takes the role unless it has it.
LEMMA HandsOver ==
  ASSUME NEW l \in LinkState, NEW q \in Players
  PROVE  /\ HandedOver(l, q) \in LinkState /\ HandedOver(l, q).master
         /\ HandedOver(l, q).ourSync = (IF l.master THEN l.ourSync ELSE l.largestSync + 1)
         /\ HandedOver(l, q).handoffTo = l.handoffTo /\ HandedOver(l, q).masterPlayer = q
         /\ HandedOver(l, q).sendFull = l.sendFull /\ HandedOver(l, q).peers = l.peers
<1> DEFINE t == IF l.master THEN l ELSE TakeMaster(l)
<1>1. /\ t \in LinkState /\ t.master
      /\ t.ourSync = (IF l.master THEN l.ourSync ELSE l.largestSync + 1)
      /\ t.handoffTo = l.handoffTo /\ t.sendFull = l.sendFull /\ t.peers = l.peers
  BY TakesIt DEF LinkState
<1>2. HandedOver(l, q) = [t EXCEPT !.masterPlayer = q]
  BY DEF HandedOver
<1>3. q \in Someone
  BY DEF Someone
<1> HIDE DEF t
<1> QED  BY <1>1, <1>2, <1>3 DEF LinkState

\* Any other status: who is master, and whether the successor has claimed.
LEMMA NotesIt ==
  ASSUME NEW l \in LinkState, NEW q \in Players, NEW x \in StatusPackets
  PROVE  LET claimed == x.master /\ l.master /\ l.handoffTo = q
             n == NotedMaster(l, q, x) IN
         /\ n \in LinkState /\ n.master = (l.master /\ ~claimed) /\ n.ourSync = l.ourSync
         /\ n.handoffTo = (IF claimed THEN None ELSE l.handoffTo)
         /\ n.masterPlayer = (IF x.master THEN q ELSE IF l.masterPlayer = q THEN None
                              ELSE l.masterPlayer)
         /\ n.sendFull = l.sendFull /\ n.peers = l.peers
<1> DEFINE claimed == x.master /\ l.master /\ l.handoffTo = q
           a == IF x.master THEN q ELSE IF l.masterPlayer = q THEN None ELSE l.masterPlayer
           b == l.master /\ ~claimed
           c == IF claimed THEN None ELSE l.handoffTo
<1>1. a \in Someone /\ b \in BOOLEAN /\ c \in Someone
  BY DEF LinkState, Someone, StatusPackets
<1>2. NotedMaster(l, q, x) = [l EXCEPT !.masterPlayer = a, !.master = b, !.handoffTo = c]
  BY DEF NotedMaster, LinkState
<1>3. NotedMaster(l, q, x) \in LinkState
  <2> HIDE DEF a, b, c
  <2> QED  BY <1>1, <1>2 DEF LinkState
<1>4. NotedMaster(l, q, x).masterPlayer = a /\ NotedMaster(l, q, x).handoffTo = c
      /\ NotedMaster(l, q, x).ourSync = l.ourSync /\ NotedMaster(l, q, x).peers = l.peers
  <2> HIDE DEF a, b, c
  <2> QED  BY <1>2 DEF LinkState
<1>5. NotedMaster(l, q, x).master = b /\ NotedMaster(l, q, x).sendFull = l.sendFull
  <2> HIDE DEF a, b, c
  <2> QED  BY <1>2 DEF LinkState
<1> QED  BY <1>3, <1>4, <1>5

\* One deck's record is replaced.
LEMMA LinkAt ==
  ASSUME LinkType, NEW p \in Players, NEW l, link' = [link EXCEPT ![p] = l]
  PROVE  /\ link'[p] = l /\ \A q \in Players : q # p => link'[q] = link[q]
         /\ l \in LinkState => link' \in [Players -> LinkState]
BY DEF LinkType

\* A status heard or lost leaves the sender's other queues as they are.
LEMMA StatusLess ==
  ASSUME LinkType, NEW q \in Players, NEW p \in Players, status[q][p] # <<>>,
         status' = [status EXCEPT ![q][p] = Tail(@)]
  PROVE  /\ status' \in [Players -> [Players -> Seq(StatusPackets)]]
         /\ status'[q][p] = Tail(status[q][p])
         /\ \A a, b \in Players : a # q \/ b # p => status'[a][b] = status[a][b]
<1>1. status[q][p] \in Seq(StatusPackets) /\ Tail(status[q][p]) \in Seq(StatusPackets)
  BY QueueLess DEF LinkType
<1> QED  BY <1>1 DEF LinkType

\* What hearing a status makes of the hearer.
LEMMA HearsStatus ==
  ASSUME LinkType, NEW q \in Players, NEW p \in Players, HearStatus(q, p)
  PROVE  LET x == status[q][p][1]
             l == link'[p] IN
         /\ status[q][p] # <<>> /\ x \in StatusPackets
         /\ status' = [status EXCEPT ![q][p] = Tail(@)]
         /\ UNCHANGED <<on, beatPort, spent>>
         /\ link' \in [Players -> LinkState] /\ \A a \in Players : a # p => link'[a] = link[a]
         /\ l.sendFull = link[p].sendFull /\ l.peers = link[p].peers
         /\ x.master /\ x.handoff = p =>
              /\ l.master /\ l.handoffTo = link[p].handoffTo /\ l.masterPlayer = q
              /\ link[p].master => l.ourSync = link[p].ourSync
              /\ ~link[p].master => l.ourSync > x.counter
         /\ x.master /\ x.handoff # p /\ link[p].master /\ link[p].handoffTo = q =>
              ~l.master /\ l.handoffTo = None /\ l.masterPlayer = q /\ l.ourSync = link[p].ourSync
         /\ x.master /\ x.handoff # p /\ ~(link[p].master /\ link[p].handoffTo = q) =>
              /\ l.master = link[p].master /\ l.handoffTo = link[p].handoffTo
              /\ l.masterPlayer = q /\ l.ourSync = link[p].ourSync
         /\ ~x.master =>
              /\ l.master = link[p].master /\ l.handoffTo = link[p].handoffTo
              /\ l.ourSync = link[p].ourSync
              /\ l.masterPlayer = (IF link[p].masterPlayer = q THEN None ELSE link[p].masterPlayer)
         /\ timer' = [timer EXCEPT ![p].seen =
                        IF x.master \/ link[p].masterPlayer = q THEN 0 ELSE @]
<1> DEFINE x == status[q][p][1]
           c == Counted(link[p], x)
           new == IF x.master /\ x.handoff = p THEN HandedOver(c, q) ELSE NotedMaster(c, q, x)
<1>1. status[q][p] # <<>> /\ status[q][p] \in Seq(StatusPackets) /\ link[p] \in LinkState
  BY DEF HearStatus, LinkType
<1>2. Head(status[q][p]) = x /\ x \in StatusPackets
  BY <1>1, QueueLess
<1>3. /\ link' = [link EXCEPT ![p] = new] /\ status' = [status EXCEPT ![q][p] = Tail(@)]
      /\ timer' = [timer EXCEPT ![p].seen =
                     IF x.master \/ link[p].masterPlayer = q THEN 0 ELSE @]
      /\ UNCHANGED <<on, beatPort, spent>>
  BY <1>2 DEF HearStatus
<1>4. /\ c \in LinkState /\ c.largestSync >= x.counter
      /\ c.master = link[p].master /\ c.ourSync = link[p].ourSync
      /\ c.handoffTo = link[p].handoffTo /\ c.masterPlayer = link[p].masterPlayer
      /\ c.sendFull = link[p].sendFull /\ c.peers = link[p].peers
  BY <1>1, <1>2, CountsIt
<1>5. c.largestSync \in Nat /\ x.counter \in Nat
  BY <1>2, <1>4 DEF LinkState, StatusPackets
<1> HIDE DEF x, c
<1>6. /\ HandedOver(c, q) \in LinkState /\ HandedOver(c, q).master
      /\ HandedOver(c, q).ourSync = (IF c.master THEN c.ourSync ELSE c.largestSync + 1)
      /\ HandedOver(c, q).handoffTo = c.handoffTo /\ HandedOver(c, q).masterPlayer = q
      /\ HandedOver(c, q).sendFull = c.sendFull /\ HandedOver(c, q).peers = c.peers
  BY <1>4, HandsOver
<1>7. LET claimed == x.master /\ c.master /\ c.handoffTo = q
          n == NotedMaster(c, q, x) IN
      /\ n \in LinkState /\ n.master = (c.master /\ ~claimed) /\ n.ourSync = c.ourSync
      /\ n.handoffTo = (IF claimed THEN None ELSE c.handoffTo)
      /\ n.masterPlayer = (IF x.master THEN q ELSE IF c.masterPlayer = q THEN None
                           ELSE c.masterPlayer)
      /\ n.sendFull = c.sendFull /\ n.peers = c.peers
  BY <1>2, <1>4, NotesIt
<1>8. new \in LinkState
  BY <1>6, <1>7
<1>9. /\ link'[p] = new /\ link' \in [Players -> LinkState]
      /\ \A a \in Players : a # p => link'[a] = link[a]
  BY <1>3, <1>8, LinkAt
<1>10. CASE x.master /\ x.handoff = p
  <2>1. new = HandedOver(c, q)
    BY <1>10
  <2>2. ~c.master => HandedOver(c, q).ourSync > x.counter
    BY <1>4, <1>5, <1>6
  <2> HIDE DEF new
  <2> QED  BY <1>1, <1>2, <1>3, <1>4, <1>6, <1>9, <1>10, <2>1, <2>2 DEF x
<1>11. ~(x.master /\ x.handoff = p) =>
         link'[p] = NotedMaster(c, q, x) /\ link'[p].sendFull = c.sendFull /\ link'[p].peers = c.peers
  BY <1>7, <1>9
<1>12. CASE x.master /\ x.handoff # p /\ link[p].master /\ link[p].handoffTo = q
  <2>1. /\ ~link'[p].master /\ link'[p].handoffTo = None /\ link'[p].masterPlayer = q
        /\ link'[p].ourSync = link[p].ourSync
    BY <1>4, <1>7, <1>11, <1>12
  <2> HIDE DEF new
  <2> QED  BY <1>1, <1>2, <1>3, <1>4, <1>9, <1>11, <1>12, <2>1 DEF x
<1>13. CASE x.master /\ x.handoff # p /\ ~(link[p].master /\ link[p].handoffTo = q)
  <2>1. /\ link'[p].handoffTo = link[p].handoffTo /\ link'[p].masterPlayer = q
        /\ link'[p].ourSync = link[p].ourSync
    BY <1>4, <1>7, <1>11, <1>13
  <2>2. link'[p].master = link[p].master
    BY <1>1, <1>4, <1>7, <1>11, <1>13 DEF LinkState
  <2> HIDE DEF new
  <2> QED  BY <1>1, <1>2, <1>3, <1>4, <1>9, <1>11, <1>13, <2>1, <2>2 DEF x
<1>14. CASE ~x.master
  <2>1. /\ link'[p].handoffTo = link[p].handoffTo /\ link'[p].ourSync = link[p].ourSync
        /\ link'[p].masterPlayer = (IF link[p].masterPlayer = q THEN None ELSE link[p].masterPlayer)
    BY <1>4, <1>7, <1>11, <1>14
  <2>2. link'[p].master = link[p].master
    BY <1>1, <1>4, <1>7, <1>11, <1>14 DEF LinkState
  <2> HIDE DEF new
  <2> QED  BY <1>1, <1>2, <1>3, <1>4, <1>9, <1>11, <1>14, <2>1, <2>2 DEF x
<1> QED  BY <1>10, <1>12, <1>13, <1>14

\* What a sender's status adds to its queues.
LEMMA SendsStatus ==
  ASSUME LinkType, NEW p \in Players, SendStatus(p)
  PROVE  LET x == [master |-> link[p].master, handoff |-> link[p].handoffTo,
                   counter |-> link[p].ourSync] IN
         /\ x \in StatusPackets /\ link[p].sendFull
         /\ status' \in [Players -> [Players -> Seq(StatusPackets)]]
         /\ \A a, b \in Players :
              status'[a][b] = IF a = p /\ b \in link[p].peers /\ on[b]
                              THEN Append(status[a][b], x) ELSE status[a][b]
         /\ timer' = [timer EXCEPT ![p].status = 0, ![p].flags = Flags(link[p])]
         /\ UNCHANGED <<on, link, beatPort, spent>>
<1> DEFINE x == [master |-> link[p].master, handoff |-> link[p].handoffTo,
                 counter |-> link[p].ourSync]
           row == [b \in Players |-> IF b \in link[p].peers /\ on[b] THEN Append(status[p][b], x)
                                     ELSE status[p][b]]
<1>1. x \in StatusPackets
  BY DEF LinkType, LinkState, StatusPackets
<1>2. status' = [status EXCEPT ![p] = row]
  BY DEF SendStatus, LinkType
<1> HIDE DEF x
<1>3. row \in [Players -> Seq(StatusPackets)]
  BY <1>1, QueueMore DEF LinkType
<1>4. \A b \in Players : row[b] = IF b \in link[p].peers /\ on[b] THEN Append(status[p][b], x)
                                 ELSE status[p][b]
  OBVIOUS
<1> HIDE DEF row
<1>5. /\ status' \in [Players -> [Players -> Seq(StatusPackets)]]
      /\ status'[p] = row /\ \A a \in Players : a # p => status'[a] = status[a]
  BY <1>2, <1>3 DEF LinkType
<1>6. /\ timer' = [timer EXCEPT ![p].status = 0, ![p].flags = Flags(link[p])]
      /\ UNCHANGED <<on, link, beatPort, spent>> /\ link[p].sendFull
  BY DEF SendStatus, StatusDue
<1> QED  BY <1>1, <1>4, <1>5, <1>6 DEF x

\* A clock that counts, or counts no more.
LEMMA OlderIs == ASSUME NEW n \in Nat, NEW top \in Nat
                 PROVE  Older(n, top) \in Nat /\ Older(n, top) <= n + 1
  BY DEF Older

\* A timer with one clock set.
LEMMA ClockSet ==
  ASSUME NEW t \in Timers, NEW n \in Nat, NEW f \in FlagPairs,
         NEW a \in Nat, NEW b \in Nat, NEW c \in Nat
  PROVE  /\ [t EXCEPT !.seen = n] \in Timers /\ [t EXCEPT !.want = n] \in Timers
         /\ [t EXCEPT !.request = n] \in Timers /\ [t EXCEPT !.announce = n] \in Timers
         /\ [t EXCEPT !.status = n, !.flags = f] \in Timers
         /\ [t EXCEPT !.seen = n, !.want = a, !.request = b, !.status = 1, !.announce = c]
              \in Timers
<1>1. [t EXCEPT !.seen = n] \in Timers
  BY DEF Timers
<1>2. [t EXCEPT !.want = n] \in Timers
  BY DEF Timers
<1>3. [t EXCEPT !.request = n] \in Timers
  BY DEF Timers
<1>4. [t EXCEPT !.announce = n] \in Timers
  BY DEF Timers
<1>5. [t EXCEPT !.status = n, !.flags = f] \in Timers
  BY DEF Timers
<1>6. [t EXCEPT !.seen = n, !.want = a, !.request = b, !.status = 1, !.announce = c] \in Timers
  BY DEF Timers
<1> QED  BY <1>1, <1>2, <1>3, <1>4, <1>5, <1>6

\* The records are a link's, at every step: for any decks and any bounds.
LEMMA LinkTypes == LinkType /\ [Next]_vars => LinkType'
<1> SUFFICES ASSUME LinkType, [Next]_vars PROVE LinkType'
  OBVIOUS
<1> USE LinkAssumption
<1>1. ASSUME NEW what \in {"presses", "power", "lost"}, Spend(what),
             what = "lost" => spent.lost < MaxLosses
      PROVE  spent' \in [presses : Nat, power : Nat, lost : Nat] /\ spent'.lost <= MaxLosses
  <2>1. spent.presses + 1 \in Nat /\ spent.power + 1 \in Nat /\ spent.lost + 1 \in Nat
        /\ spent.lost \in Nat /\ MaxLosses \in Nat
    <3>1. spent \in [presses : Nat, power : Nat, lost : Nat] /\ MaxLosses \in Nat
      BY DEF LinkType
    <3> QED  BY SMTT(30), <3>1
  <2>2. what = "presses" => spent' = [spent EXCEPT !.presses = spent.presses + 1]
    BY <1>1 DEF Spend, LinkType
  <2>3. what = "power" => spent' = [spent EXCEPT !.power = spent.power + 1]
    BY <1>1 DEF Spend, LinkType
  <2>4. what = "lost" => spent' = [spent EXCEPT !.lost = spent.lost + 1]
    BY <1>1 DEF Spend, LinkType
  <2>5. spent \in [presses : Nat, power : Nat, lost : Nat] /\ spent.lost <= MaxLosses
    BY DEF LinkType
  <2>6. what = "lost" => spent.lost + 1 <= MaxLosses
    BY <1>1, <2>1
  <2>7. spent' \in [presses : Nat, power : Nat, lost : Nat]
    BY SMTT(30), <2>1, <2>2, <2>3, <2>4, <2>5
  <2>8. spent'.lost = IF what = "lost" THEN spent.lost + 1 ELSE spent.lost
    BY SMTT(30), <2>2, <2>3, <2>4, <2>5
  <2> QED  BY <2>1, <2>5, <2>6, <2>7, <2>8
<1>2. ASSUME NEW p \in Players, NEW l \in LinkState, Press(p, l) PROVE LinkType'
  <2>1. spent' \in [presses : Nat, power : Nat, lost : Nat] /\ spent'.lost <= MaxLosses
    BY <1>1, <1>2 DEF Press
  <2>2. link' \in [Players -> LinkState] /\ UNCHANGED <<on, timer, beatPort, status>>
    BY <1>2, LinkAt DEF Press
  <2> QED  BY <2>1, <2>2 DEF LinkType
<1>3. ASSUME NEW p \in Players, Keys(p) PROVE LinkType'
  <2>1. link[p] \in LinkState
    BY DEF LinkType
  <2>2. \E l \in LinkState : Press(p, l)
    <3>1. [link[p] EXCEPT !.sendFull = TRUE, !.want = TRUE] \in LinkState
      BY <2>1 DEF LinkState
    <3>2. [link[p] EXCEPT !.want = TRUE] \in LinkState
      BY <2>1 DEF LinkState
    <3>3. \A b \in BOOLEAN : [link[p] EXCEPT !.sync = b] \in LinkState
      BY <2>1 DEF LinkState
    <3>4. (~link[p].sync) \in BOOLEAN
      OBVIOUS
    <3> QED  BY <1>3, <3>1, <3>2, <3>3, <3>4 DEF Keys, MasterRequest, SyncToggle, SyncControl
  <2> QED  BY <1>2, <2>2
<1>4. ASSUME NEW p \in Players, SwitchOff(p) \/ SwitchOn(p) PROVE LinkType'
  <2>1. spent' \in [presses : Nat, power : Nat, lost : Nat] /\ spent'.lost <= MaxLosses
    BY <1>1, <1>4 DEF SwitchOff, SwitchOn
  <2>2. on' \in [Players -> BOOLEAN]
    BY <1>4 DEF SwitchOff, SwitchOn, LinkType
  <2>3. Fresh \in LinkState
    BY DEF Fresh, LinkState, Someone
  <2>4. Started \in Timers
    BY DEF Started, Timers, FlagPairs
  <2>5. link' \in [Players -> LinkState] /\ timer' \in [Players -> Timers]
    <3>1. \/ UNCHANGED <<link, timer>>
          \/ link' = [link EXCEPT ![p] = Fresh] /\ timer' = [timer EXCEPT ![p] = Started]
      BY <1>4 DEF SwitchOff, SwitchOn
    <3>2. link' \in [Players -> LinkState]
      BY <2>3, <3>1 DEF LinkType
    <3>3. timer' \in [Players -> Timers]
      BY <2>4, <3>1 DEF LinkType
    <3> QED  BY <3>2, <3>3
  <2>6. beatPort' \subseteq Packet
    BY <1>4 DEF SwitchOff, SwitchOn, Without, LinkType
  <2>7. <<>> \in Seq(StatusPackets)
    BY EmptySeq
  <2>8. status' \in [Players -> [Players -> Seq(StatusPackets)]]
    <3>1. \/ status' = status
          \/ status' = [q \in Players |->
                          [r \in Players |-> IF p \in {q, r} THEN <<>> ELSE status[q][r]]]
      BY <1>4 DEF SwitchOff, SwitchOn, Without
    <3>2. \A q, r \in Players : status[q][r] \in Seq(StatusPackets)
      BY DEF LinkType
    <3>3. CASE status' = status
      BY <3>3 DEF LinkType
    <3>4. CASE status' = [q \in Players |->
                            [r \in Players |-> IF p \in {q, r} THEN <<>> ELSE status[q][r]]]
      <4> DEFINE left(q) == [r \in Players |-> IF p \in {q, r} THEN <<>> ELSE status[q][r]]
      <4>1. \A q \in Players : left(q) \in [Players -> Seq(StatusPackets)]
        BY <2>7, <3>2
      <4> HIDE DEF left
      <4>2. status' = [q \in Players |-> left(q)]
        BY <3>4 DEF left
      <4> QED  BY <4>1, <4>2
    <3> QED  BY <3>1, <3>3, <3>4
  <2> QED  BY <2>1, <2>2, <2>5, <2>6, <2>8 DEF LinkType
<1>5. ASSUME NEW p \in Players, ForgetMaster(p) PROVE LinkType'
  <2> DEFINE forgot == [link[p] EXCEPT !.masterPlayer = None, !.yieldedFrom = None]
             l == IF forgot.sync /\ forgot.sendFull THEN TakeMaster(forgot) ELSE forgot
  <2>1. forgot \in LinkState
    <3>1. link[p] \in LinkState /\ None \in Someone
      BY DEF LinkType, Someone
    <3> QED  BY <3>1 DEF LinkState
  <2>2. l \in LinkState
    <3> HIDE DEF forgot
    <3> QED  BY <2>1, TakesIt
  <2>3. link' = [link EXCEPT ![p] = l] /\ timer' = [timer EXCEPT ![p].seen = 0]
        /\ UNCHANGED <<on, beatPort, status, spent>>
    BY <1>5 DEF ForgetMaster
  <2> HIDE DEF l
  <2>4. timer' \in [Players -> Timers]
    BY <2>3 DEF LinkType, Timers
  <2> QED  BY <2>2, <2>3, <2>4, LinkAt DEF LinkType
<1>6. ASSUME NEW p \in Players, TakeUnclaimed(p) PROVE LinkType'
  <2>1. TakeMaster(link[p]) \in LinkState
    BY TakesIt DEF LinkType
  <2>2. timer' \in [Players -> Timers]
    BY <1>6 DEF TakeUnclaimed, LinkType, Timers
  <2>3. link' = [link EXCEPT ![p] = TakeMaster(link[p])]
    BY <1>6 DEF TakeUnclaimed, LinkType
  <2> QED  BY <1>6, <2>1, <2>2, <2>3, LinkAt DEF LinkType, TakeUnclaimed
<1>7. ASSUME NEW p \in Players, RequestMaster(p) \/ Announce(p) PROVE LinkType'
  <2>1. timer' \in [Players -> Timers]
    <3>1. \/ timer' = [timer EXCEPT ![p].request = 0]
          \/ timer' = [timer EXCEPT ![p].announce = 0]
      BY <1>7 DEF RequestMaster, Announce
    <3>2. timer[p] \in Timers /\ 0 \in Nat
      BY DEF LinkType
    <3>3. [timer[p] EXCEPT !.request = 0] \in Timers /\ [timer[p] EXCEPT !.announce = 0] \in Timers
      BY <3>2 DEF Timers
    <3>4. \E t \in Timers : timer' = [timer EXCEPT ![p] = t]
      BY <3>1, <3>3 DEF LinkType
    <3> QED  BY <3>4 DEF LinkType
  <2>2. beatPort' \subseteq Packet
    <3>1. CASE RequestMaster(p)
      <4>1. link[p].masterPlayer \in Players
        BY <3>1 DEF RequestMaster, Asking, LinkType, LinkState
      <4> QED  BY <3>1, <4>1 DEF RequestMaster, LinkType, Packet
    <3>2. CASE Announce(p)
      BY <3>2 DEF Announce, LinkType, Packet, Beside
    <3> QED  BY <1>7, <3>1, <3>2
  <2> QED  BY <1>7, <2>1, <2>2 DEF RequestMaster, Announce, LinkType
<1>8. ASSUME NEW p \in Players, SendStatus(p) PROVE LinkType'
  <2>1. /\ status' \in [Players -> [Players -> Seq(StatusPackets)]]
        /\ timer' = [timer EXCEPT ![p].status = 0, ![p].flags = Flags(link[p])]
        /\ UNCHANGED <<on, link, beatPort, spent>>
    BY <1>8, SendsStatus
  <2>2. Flags(link[p]) \in FlagPairs
    BY DEF Flags, LinkType, LinkState, FlagPairs
  <2>3. timer' \in [Players -> Timers]
    <3> DEFINE f == Flags(link[p])
    <3> HIDE DEF f
    <3>1. timer[p] \in Timers
      BY DEF LinkType
    <3>2. [timer[p] EXCEPT !.status = 0, !.flags = f] \in Timers
      BY <2>2, <3>1 DEF f, Timers
    <3>3. timer' = [timer EXCEPT ![p] = [timer[p] EXCEPT !.status = 0, !.flags = f]]
      BY <2>1 DEF f, LinkType
    <3> QED  BY <3>2, <3>3 DEF LinkType
  <2> QED  BY <2>1, <2>3 DEF LinkType
<1>9. ASSUME NEW m \in beatPort, Hear(m) PROVE LinkType'
  <2>1. m \in Packet /\ m.from \in Players /\ m.to \in Players /\ m.from \in Someone
    BY DEF LinkType, Packet, Someone
  <2>2. link[m.to] \in LinkState
    BY <2>1 DEF LinkType
  <2>3. [link[m.to] EXCEPT !.peers = link[m.to].peers \cup {m.from}] \in LinkState
    BY <2>1, <2>2 DEF LinkState
  <2>4. [link[m.to] EXCEPT !.handoffTo = m.from] \in LinkState
    BY <2>1, <2>2 DEF LinkState
  <2>5. [link[m.to] EXCEPT !.yieldedFrom = m.from] \in LinkState
    BY <2>1, <2>2 DEF LinkState
  <2>6. link' = link \/ \E l \in LinkState : link' = [link EXCEPT ![m.to] = l]
    BY <1>9, <2>1, <2>3, <2>4, <2>5 DEF Hear, HearAnnounce, HearRequest, HearAgree, LinkType
  <2>7. link' \in [Players -> LinkState]
    BY <2>1, <2>6 DEF LinkType
  <2>8. beatPort' \subseteq Packet
    <3>1. [kind |-> "agree", from |-> m.to, to |-> m.from] \in Packet
      BY <2>1 DEF Packet
    <3> QED  BY <1>9, <3>1 DEF Hear, HearAnnounce, HearRequest, HearAgree, LinkType
  <2> QED  BY <1>9, <2>7, <2>8 DEF Hear, LinkType
<1>10. ASSUME NEW p \in Players, NEW q \in Players, HearStatus(q, p) PROVE LinkType'
  <2> DEFINE x == status[q][p][1]
             n == IF x.master \/ link[p].masterPlayer = q THEN 0 ELSE timer[p].seen
  <2>1. /\ status[q][p] # <<>> /\ status' = [status EXCEPT ![q][p] = Tail(@)]
        /\ UNCHANGED <<on, beatPort, spent>> /\ link' \in [Players -> LinkState]
        /\ timer' = [timer EXCEPT ![p].seen =
                       IF x.master \/ link[p].masterPlayer = q THEN 0 ELSE @]
    BY <1>10, HearsStatus
  <2>2. timer' = [timer EXCEPT ![p].seen = n] /\ n \in Nat
    BY <2>1 DEF LinkType, Timers
  <2> HIDE DEF n
  <2>3. timer' \in [Players -> Timers]
    BY <2>2 DEF LinkType, Timers
  <2> QED  BY <2>1, <2>3, StatusLess DEF LinkType
<1>11. CASE LosePacket
  <2>1. spent' \in [presses : Nat, power : Nat, lost : Nat] /\ spent'.lost <= MaxLosses
    BY <1>1, <1>11 DEF LosePacket
  <2>2. status' \in [Players -> [Players -> Seq(StatusPackets)]]
    BY <1>11, StatusLess DEF LosePacket, LinkType
  <2> QED  BY <1>11, <2>1, <2>2 DEF LosePacket, LinkType
<1>12. CASE Tick
  <2>1. ASSUME NEW p \in Players PROVE timer'[p] \in Timers
    <3>1. timer[p] \in Timers
      BY DEF LinkType
    <3> DEFINE seen == IF link[p].masterPlayer = None THEN 0 ELSE Older(timer[p].seen, MasterGone + 1)
               want == IF Wanting(link[p]) THEN Older(timer[p].want, WantWait) ELSE 0
               request == Older(timer[p].request, RequestEvery)
               announce == Older(timer[p].announce, AnnounceEvery)
    <3>2. seen \in Nat /\ want \in Nat /\ request \in Nat /\ announce \in Nat
      <4>1. {timer[p].seen, timer[p].want, timer[p].request, timer[p].announce,
             MasterGone + 1, WantWait, RequestEvery, AnnounceEvery} \subseteq Nat
        BY <3>1 DEF Timers
      <4> QED  BY <4>1, OlderIs
    <3>3. timer'[p] = IF ~on[p] THEN timer[p]
                      ELSE [timer[p] EXCEPT !.seen = seen, !.want = want, !.request = request,
                                            !.status = 1, !.announce = announce]
      BY <1>12, <3>1 DEF Tick, Timers
    <3> HIDE DEF seen, want, request, announce
    <3>4. PICK f \in FlagPairs : TRUE
      BY <3>1 DEF Timers
    <3>5. [timer[p] EXCEPT !.seen = seen, !.want = want, !.request = request,
                           !.status = 1, !.announce = announce] \in Timers
      BY <3>1, <3>2, ClockSet
    <3> QED  BY <3>1, <3>3, <3>5
  <2>2. DOMAIN timer' = Players /\ timer' = [p \in Players |-> timer'[p]]
    BY <1>12 DEF Tick
  <2>3. timer' \in [Players -> Timers]
    BY <2>1, <2>2
  <2> QED  BY <1>12, <2>3 DEF Tick, LinkType
<1>13. CASE UNCHANGED vars
  BY <1>13 DEF vars, LinkType
<1> QED  BY <1>3, <1>4, <1>5, <1>6, <1>7, <1>8, <1>9, <1>10, <1>11, <1>12, <1>13
         DEF Next, Runs, Sender, Listeners

\* What a deck tells of itself.
Telling(p) == [master |-> link[p].master, handoff |-> link[p].handoffTo,
               counter |-> link[p].ourSync]

\* p's queue to q as a step leaves it: as it was, without its first, or with what p
\* tells of itself.
Queue(p, q) ==
  \/ status'[p][q] = status[p][q]
  \/ status[p][q] # <<>> /\ status'[p][q] = Tail(status[p][q])
  \/ /\ status'[p][q] = Append(status[p][q], Telling(p))
     /\ link' = link /\ link[p].handoffTo \in {None, q}

\* What was told of the role is true of whoever has its counter, and offers it no less.
LEMMA ToldStays ==
  ASSUME NEW s, NEW k, NEW l, NEW new, NEW q, Told(s, k, l, q),
         new.ourSync = l.ourSync, new.handoffTo \in {l.handoffTo, q}
  PROVE  Told(s, k, new, q)
BY DEF Told

\* The telling of a holder stays true as its queue moves on.
LEMMA ToldOn ==
  ASSUME LinkType, NEW p \in Players, NEW q \in Players, Queue(p, q),
         Told(status[p][q], 1, link[p], q), link[p].master,
         link'[p].ourSync = link[p].ourSync, link'[p].handoffTo \in {link[p].handoffTo, q}
  PROVE  Told(status'[p][q], 1, link'[p], q)
<1>1. status[p][q] \in Seq(StatusPackets) /\ Len(status[p][q]) \in Nat /\ link[p] \in LinkState
  BY LenProperties DEF LinkType
<1>2. Told(status'[p][q], 1, link[p], q)
  <2>1. CASE status'[p][q] = status[p][q]
    BY <2>1
  <2>2. CASE status[p][q] # <<>> /\ status'[p][q] = Tail(status[p][q])
    <3>1. 1 \in 1 .. Len(status[p][q])
      BY <1>1, <2>2, QueueLess
    <3>2. Told(status[p][q], 2, link[p], q)
      BY <1>1, ToldLater
    <3> QED  BY <1>1, <2>2, <3>1, <3>2, ToldLess
  <2>3. CASE status'[p][q] = Append(status[p][q], Telling(p))
    <3>1. /\ Telling(p) \in StatusPackets /\ Telling(p).master
          /\ Telling(p).counter = link[p].ourSync /\ Telling(p).handoff = link[p].handoffTo
      BY <1>1 DEF Telling, StatusPackets, LinkState
    <3>2. 1 \in 1 .. Len(status[p][q]) + 1
      BY <1>1
    <3> QED  BY <1>1, <2>3, <3>1, <3>2, ToldMore
  <2> QED  BY <2>1, <2>2, <2>3 DEF Queue
<1> QED  BY <1>2, ToldStays

\* A queue without claims gets none from a deck that does not hold the role.
LEMMA NoClaimOn ==
  ASSUME LinkType, NEW p \in Players, NEW q \in Players, Queue(p, q),
         \A i \in 1 .. Len(status[p][q]) : ~Claims(status[p][q][i], q), ~link[p].master
  PROVE  \A i \in 1 .. Len(status'[p][q]) : ~Claims(status'[p][q][i], q)
<1>1. status[p][q] \in Seq(StatusPackets) /\ link[p] \in LinkState
  BY DEF LinkType
<1>2. CASE status'[p][q] = status[p][q]
  BY <1>2
<1>3. CASE status[p][q] # <<>> /\ status'[p][q] = Tail(status[p][q])
  BY <1>1, <1>3, QueueLess
<1>4. CASE status'[p][q] = Append(status[p][q], Telling(p))
  <2>1. Telling(p) \in StatusPackets /\ ~Claims(Telling(p), q)
    BY <1>1 DEF Telling, StatusPackets, LinkState, Claims
  <2>2. \A i \in 1 .. Len(status'[p][q]) : i = Len(status[p][q]) + 1 \/ i \in 1 .. Len(status[p][q])
    BY <1>1, <1>4, <2>1, QueueMore
  <2> QED  BY <1>1, <1>4, <2>1, <2>2, QueueMore
<1> QED  BY <1>2, <1>3, <1>4 DEF Queue

\* A queue of offers gets only offers from the deck that offers the role.
LEMMA OffersOn ==
  ASSUME LinkType, NEW p \in Players, NEW q \in Players, Queue(p, q),
         \A i \in 1 .. Len(status[p][q]) : status[p][q][i].master /\ status[p][q][i].handoff = q,
         link[p].master, link[p].handoffTo = q
  PROVE  \A i \in 1 .. Len(status'[p][q]) : status'[p][q][i].master /\ status'[p][q][i].handoff = q
<1>1. status[p][q] \in Seq(StatusPackets) /\ link[p] \in LinkState
  BY DEF LinkType
<1>2. CASE status'[p][q] = status[p][q]
  BY <1>2
<1>3. CASE status[p][q] # <<>> /\ status'[p][q] = Tail(status[p][q])
  BY <1>1, <1>3, QueueLess
<1>4. CASE status'[p][q] = Append(status[p][q], Telling(p))
  <2>1. Telling(p) \in StatusPackets /\ Telling(p).master /\ Telling(p).handoff = q
    BY <1>1 DEF Telling, StatusPackets, LinkState
  <2>2. \A i \in 1 .. Len(status'[p][q]) : i = Len(status[p][q]) + 1 \/ i \in 1 .. Len(status[p][q])
    BY <1>1, <1>4, <2>1, QueueMore
  <2> QED  BY <1>1, <1>4, <2>1, <2>2, QueueMore
<1> QED  BY <1>2, <1>3, <1>4 DEF Queue

\* From its first claim on, the successor's queue goes on telling of its role.
LEMMA ClaimsOn ==
  ASSUME LinkType, NEW p \in Players, NEW q \in Players, Queue(p, q),
         \A k \in 1 .. Len(status[p][q]) :
           Claims(status[p][q][k], q) => Told(status[p][q], k, link[p], q),
         link[p].master,
         link'[p].ourSync = link[p].ourSync, link'[p].handoffTo \in {link[p].handoffTo, q}
  PROVE  \A k \in 1 .. Len(status'[p][q]) :
           Claims(status'[p][q][k], q) => Told(status'[p][q], k, link'[p], q)
<1>1. status[p][q] \in Seq(StatusPackets) /\ Len(status[p][q]) \in Nat /\ link[p] \in LinkState
  BY LenProperties DEF LinkType
<1> SUFFICES ASSUME NEW k \in 1 .. Len(status'[p][q]), Claims(status'[p][q][k], q)
             PROVE  Told(status'[p][q], k, link[p], q)
  BY ToldStays
<1>2. CASE status'[p][q] = status[p][q]
  BY <1>2
<1>3. CASE status[p][q] # <<>> /\ status'[p][q] = Tail(status[p][q])
  <2>1. k + 1 \in 1 .. Len(status[p][q]) /\ status'[p][q][k] = status[p][q][k + 1]
        /\ k \in 1 .. Len(status[p][q])
    BY <1>1, <1>3, QueueLess
  <2>2. Told(status[p][q], k + 1, link[p], q)
    BY <2>1
  <2> QED  BY <1>1, <1>3, <2>1, <2>2, ToldLess
<1>4. CASE status'[p][q] = Append(status[p][q], Telling(p))
  <2>1. /\ Telling(p) \in StatusPackets /\ Telling(p).master
        /\ Telling(p).counter = link[p].ourSync /\ Telling(p).handoff = link[p].handoffTo
    BY <1>1 DEF Telling, StatusPackets, LinkState
  <2>2. k \in 1 .. Len(status[p][q]) + 1
    BY <1>1, <1>4, <2>1, QueueMore
  <2>3. Told(status[p][q], k, link[p], q)
    <3>1. CASE k \in 1 .. Len(status[p][q])
      BY <1>1, <1>4, <2>1, <3>1, QueueMore
    <3>2. CASE k = Len(status[p][q]) + 1
      BY <1>1, <3>2 DEF Told
    <3> QED  BY <1>1, <2>2, <3>1, <3>2
  <2> QED  BY <1>1, <1>4, <2>1, <2>2, <2>3, ToldMore
<1> QED  BY <1>2, <1>3, <1>4 DEF Queue

\* One deck goes on holding the role, and the other goes on knowing.
LEMMA SoloStays ==
  ASSUME LinkType, NEW p \in Players, NEW q \in Players, Solo(p, q), Queue(p, q), Queue(q, p),
         link'[p].master, link'[p].ourSync = link[p].ourSync,
         link'[p].handoffTo \in {link[p].handoffTo, q},
         ~link'[q].master, link'[q].handoffTo = None, link'[q].masterPlayer = p
  PROVE  Solo(p, q)'
<1>1. Told(status'[p][q], 1, link'[p], q)
  BY ToldOn DEF Solo
<1>2. \A i \in 1 .. Len(status'[q][p]) : ~Claims(status'[q][p][i], p)
  BY NoClaimOn DEF Solo
<1> QED  BY <1>1, <1>2 DEF Solo, Told, Claims

\* The role goes on being given.
LEMMA GivingStays ==
  ASSUME LinkType, NEW p \in Players, NEW q \in Players, Giving(p, q), Queue(p, q), Queue(q, p),
         link'[p].master, link'[q].master, link'[p].handoffTo = q,
         link'[q].ourSync = link[q].ourSync, link'[q].handoffTo \in {link[q].handoffTo, p}
  PROVE  Giving(p, q)'
<1>1. \A i \in 1 .. Len(status'[p][q]) : status'[p][q][i].master /\ status'[p][q][i].handoff = q
  BY OffersOn DEF Giving
<1>2. \A k \in 1 .. Len(status'[q][p]) :
        Claims(status'[q][p][k], p) => Told(status'[q][p], k, link'[q], p)
  BY ClaimsOn DEF Giving
<1> QED  BY <1>1, <1>2 DEF Giving, Told, Claims

\* What only moves packets changes no role.
LEMMA RolesKept ==
  ASSUME LinkType, Roles,
         \A p \in Players : /\ link'[p].master = link[p].master
                            /\ link'[p].ourSync = link[p].ourSync
                            /\ link'[p].handoffTo = link[p].handoffTo
                            /\ link'[p].masterPlayer = link[p].masterPlayer,
         \A p, q \in Players : p # q => Queue(p, q)
  PROVE  Roles'
<1>1. PICK p \in Players, q \in Players : p # q /\ (Solo(p, q) \/ Giving(p, q))
  BY DEF Roles
<1>2. CASE Solo(p, q)
  BY <1>1, <1>2, SoloStays DEF Roles, Solo
<1>3. CASE Giving(p, q)
  <2>1. /\ link'[p].master /\ link'[q].master /\ link'[p].handoffTo = q
        /\ link'[q].ourSync = link[q].ourSync /\ link'[q].handoffTo \in {link[q].handoffTo, p}
    BY <1>3 DEF Giving
  <2>2. Giving(p, q)'
    BY <1>1, <1>3, <2>1, GivingStays
  <2> QED  BY <1>1, <2>2 DEF Roles
<1> QED  BY <1>1, <1>2, <1>3

\* A grant is noted by a deck that holds the role and goes on holding it.
LEMMA GrantsKeepRoles ==
  ASSUME LinkType, Roles, NEW p \in Players, NEW q \in Players, Players = {p, q}, p # q,
         link[p].master, link' = [link EXCEPT ![p].handoffTo = q], status' = status
  PROVE  Roles'
<1>1. /\ link'[p].master /\ link'[p].handoffTo = q /\ link'[p].ourSync = link[p].ourSync
      /\ link'[p].masterPlayer = link[p].masterPlayer /\ link'[q] = link[q]
  BY DEF LinkType, LinkState
<1>2. Queue(p, q) /\ Queue(q, p)
  BY DEF Queue
<1>3. CASE Solo(p, q)
  BY <1>1, <1>2, <1>3, SoloStays DEF Roles, Solo
<1>4. CASE Giving(p, q)
  BY <1>1, <1>2, <1>4, GivingStays DEF Roles, Giving
<1>5. CASE Giving(q, p)
  BY <1>1, <1>2, <1>5, GivingStays DEF Roles, Giving
<1>6. ~Solo(q, p)
  BY DEF Solo
<1> QED  BY <1>3, <1>4, <1>5, <1>6 DEF Roles

\* The master's status is heard: the hearer is told who is master, or takes what it
\* is offered, with a counter above the master's.
LEMMA HearsTheMaster ==
  ASSUME LinkType, NEW q \in Players, NEW p \in Players, p # q, HearStatus(q, p), Solo(q, p)
  PROVE  /\ Solo(q, p)' \/ Giving(q, p)'
         /\ link'[p].master => link'[p].ourSync > link[q].ourSync
<1> DEFINE x == status[q][p][1]
<1>1. /\ status[q][p] # <<>> /\ status[q][p] \in Seq(StatusPackets)
      /\ status' = [status EXCEPT ![q][p] = Tail(@)] /\ link'[q] = link[q]
  BY HearsStatus DEF LinkType
<1>2. /\ status'[q][p] = Tail(status[q][p]) /\ status'[p][q] = status[p][q]
      /\ Queue(q, p) /\ Queue(p, q)
  BY <1>1, StatusLess DEF Queue
<1>3. 1 \in 1 .. Len(status[q][p]) /\ Len(Tail(status[q][p])) = Len(status[q][p]) - 1
      /\ \A i \in 1 .. Len(Tail(status[q][p])) :
           i + 1 \in 1 .. Len(status[q][p]) /\ Tail(status[q][p])[i] = status[q][p][i + 1]
  BY <1>1, QueueLess
<1>4. /\ x.master /\ x.counter = link[q].ourSync
      /\ x.handoff = p => /\ link[q].handoffTo = p
                          /\ \A j \in 1 .. Len(status[q][p]) : status[q][p][j].handoff = p
  BY <1>3 DEF Solo, Told
<1>5. link[q].master /\ ~link[p].master /\ link[p].handoffTo = None
  BY DEF Solo
<1>6. CASE x.handoff = p
  <2>1. link'[p].master /\ link'[p].handoffTo = None /\ link'[p].ourSync > x.counter
    BY <1>4, <1>5, <1>6, HearsStatus
  <2>2. \A i \in 1 .. Len(status'[q][p]) : status'[q][p][i].master /\ status'[q][p][i].handoff = p
    BY <1>2, <1>3, <1>4, <1>6 DEF Solo, Told
  <2>3. \A i \in 1 .. Len(status'[p][q]) : ~Claims(status'[p][q][i], q)
    BY <1>2 DEF Solo
  <2>4. Giving(q, p)'
    BY <1>1, <1>4, <1>5, <1>6, <2>1, <2>2, <2>3 DEF Giving, Claims
  <2> QED  BY <1>4, <2>1, <2>4
<1>7. CASE x.handoff # p
  <2>1. ~link'[p].master /\ link'[p].handoffTo = None /\ link'[p].masterPlayer = q
    BY <1>4, <1>5, <1>7, HearsStatus
  <2>2. Solo(q, p)'
    BY <1>1, <1>2, <1>5, <2>1, SoloStays
  <2> QED  BY <2>1, <2>2
<1> QED  BY <1>6, <1>7

\* The master hears what the other said of a role it had: nothing changes.
LEMMA MasterHears ==
  ASSUME LinkType, NEW q \in Players, NEW p \in Players, p # q, HearStatus(q, p), Solo(p, q)
  PROVE  Solo(p, q)'
<1> DEFINE x == status[q][p][1]
<1>1. /\ status[q][p] # <<>> /\ status[q][p] \in Seq(StatusPackets)
      /\ status' = [status EXCEPT ![q][p] = Tail(@)] /\ link'[q] = link[q]
  BY HearsStatus DEF LinkType
<1>2. Queue(q, p) /\ Queue(p, q)
  BY <1>1, StatusLess DEF Queue
<1>3. 1 \in 1 .. Len(status[q][p])
  BY <1>1, QueueLess
<1>4. ~Claims(x, p)
  BY <1>3 DEF Solo
<1>5. link[p].master /\ ~link[q].master /\ link[q].handoffTo = None /\ link[q].masterPlayer = p
  BY DEF Solo
<1>6. link'[p].master /\ link'[p].ourSync = link[p].ourSync /\ link'[p].handoffTo = link[p].handoffTo
  <2>1. CASE x.master /\ x.handoff = p
    BY <1>5, <2>1, HearsStatus
  <2>2. CASE ~x.master
    <3>1. /\ link'[p].master = link[p].master /\ link'[p].ourSync = link[p].ourSync
          /\ link'[p].handoffTo = link[p].handoffTo
      BY <2>2, HearsStatus
    <3> QED  BY <1>5, <3>1
  <2> QED  BY <1>4, <2>1, <2>2 DEF Claims
<1> QED  BY <1>1, <1>2, <1>5, <1>6, SoloStays

\* The successor hears the offer it took again: nothing changes.
LEMMA SuccessorHears ==
  ASSUME LinkType, NEW q \in Players, NEW p \in Players, p # q, HearStatus(q, p), Giving(q, p)
  PROVE  Giving(q, p)'
<1> DEFINE x == status[q][p][1]
<1>1. /\ status[q][p] # <<>> /\ status[q][p] \in Seq(StatusPackets)
      /\ status' = [status EXCEPT ![q][p] = Tail(@)] /\ link'[q] = link[q]
  BY HearsStatus DEF LinkType
<1>2. Queue(q, p) /\ Queue(p, q)
  BY <1>1, StatusLess DEF Queue
<1>3. 1 \in 1 .. Len(status[q][p])
  BY <1>1, QueueLess
<1>4. x.master /\ x.handoff = p
  BY <1>3 DEF Giving
<1>5. link[p].master /\ link[q].master /\ link[q].handoffTo = p
  BY DEF Giving
<1>6. link'[p].master /\ link'[p].ourSync = link[p].ourSync /\ link'[p].handoffTo = link[p].handoffTo
  BY <1>4, <1>5, HearsStatus
<1> QED  BY <1>1, <1>2, <1>5, <1>6, GivingStays

\* The master hears its successor's claim, and drops the role; until then nothing
\* it hears changes it.
LEMMA MasterHearsTheClaim ==
  ASSUME LinkType, NEW q \in Players, NEW p \in Players, p # q, HearStatus(q, p), Giving(p, q)
  PROVE  Giving(p, q)' \/ Solo(q, p)'
<1> DEFINE x == status[q][p][1]
<1>1. /\ status[q][p] # <<>> /\ status[q][p] \in Seq(StatusPackets)
      /\ status' = [status EXCEPT ![q][p] = Tail(@)] /\ link'[q] = link[q]
  BY HearsStatus DEF LinkType
<1>2. /\ status'[q][p] = Tail(status[q][p]) /\ status'[p][q] = status[p][q]
      /\ Queue(q, p) /\ Queue(p, q)
  BY <1>1, StatusLess DEF Queue
<1>3. 1 \in 1 .. Len(status[q][p])
  BY <1>1, QueueLess
<1>4. link[p].master /\ link[q].master /\ link[p].handoffTo = q
  BY DEF Giving
<1>5. CASE Claims(x, p)
  <2>1. ~link'[p].master /\ link'[p].handoffTo = None /\ link'[p].masterPlayer = q
    BY <1>4, <1>5, HearsStatus DEF Claims
  <2>2. Told(status[q][p], 1, link[q], p)
    BY <1>3, <1>5 DEF Giving
  <2>3. Told(status'[q][p], 1, link'[q], p)
    <3>1. Told(status[q][p], 2, link[q], p)
      BY <1>1, <2>2, ToldLater
    <3> QED  BY <1>1, <1>2, <1>3, <3>1, ToldLess
  <2>4. \A i \in 1 .. Len(status'[p][q]) : ~Claims(status'[p][q][i], q)
    BY <1>2 DEF Giving, Claims
  <2> QED  BY <1>1, <1>4, <2>1, <2>3, <2>4 DEF Solo, Told, Claims
<1>6. CASE ~Claims(x, p)
  <2>1. link'[p].master /\ link'[p].handoffTo = q
    <3>1. CASE x.master /\ x.handoff = p
      BY <1>4, <3>1, HearsStatus
    <3>2. CASE ~x.master
      BY <1>4, <3>2, HearsStatus
    <3> QED  BY <1>6, <3>1, <3>2 DEF Claims
  <2> QED  BY <1>1, <1>2, <1>4, <2>1, GivingStays
<1> QED  BY <1>5, <1>6

\* Whatever status is heard, the role is held, and taken with the newest counter.
LEMMA HearsKeepRoles ==
  ASSUME LinkType, Roles, NEW p \in Players, NEW q \in Players, p # q, Players = {p, q},
         HearStatus(q, p)
  PROVE  /\ Roles'
         /\ ~link[p].master /\ link'[p].master => link'[p].ourSync > link[q].ourSync
<1>1. CASE Solo(q, p)
  BY <1>1, HearsTheMaster DEF Roles
<1>2. CASE Solo(p, q)
  BY <1>2, MasterHears DEF Roles, Solo
<1>3. CASE Giving(q, p)
  BY <1>3, SuccessorHears DEF Roles, Giving
<1>4. CASE Giving(p, q)
  BY <1>4, MasterHearsTheClaim DEF Roles, Giving
<1> QED  BY <1>1, <1>2, <1>3, <1>4 DEF Roles

\* What neither sends nor hears a status, and stops no clock, leaves it steady.
LEMMA SteadyKept ==
  ASSUME LinkType, LinkType', Steady, on' = on, status' = status, spent'.lost >= spent.lost,
         \A p \in Players :
           /\ link[p].peers \subseteq link'[p].peers /\ p \notin link'[p].peers
           /\ link'[p].masterPlayer = link[p].masterPlayer
           /\ link'[p].handoffTo # p /\ (link[p].sendFull => link'[p].sendFull)
           /\ timer'[p].seen = timer[p].seen /\ timer'[p].status = timer[p].status,
         \A m \in beatPort' : m \in beatPort \/ m.from # m.to
  PROVE  Steady'
<1>1. ASSUME NEW p \in Players, NEW q \in Players, link'[p].masterPlayer = q
      PROVE  Reached(q, p)' /\ timer'[p].seen <= spent'.lost + Owed(q, p)'
  <2>1. Reached(q, p)' /\ timer[p].seen <= spent.lost + Owed(q, p)
    BY <1>1 DEF Steady, Reached
  <2>2. Owed(q, p)' = Owed(q, p) /\ Owed(q, p) \in {0, 1}
    BY DEF Owed
  <2>3. timer[p].seen \in Nat /\ spent.lost \in Nat /\ spent'.lost \in Nat
    BY DEF LinkType, Timers
  <2> QED  BY <2>1, <2>2, <2>3
<1> QED  BY <1>1 DEF Steady, Reached

\* A status sent is owed until it is heard.
LEMMA SendsSteady ==
  ASSUME LinkType, LinkType', Steady, NEW p \in Players, SendStatus(p)
  PROVE  Steady'
<1>1. /\ link[p].sendFull /\ UNCHANGED <<on, link, beatPort, spent>>
      /\ timer' = [timer EXCEPT ![p].status = 0, ![p].flags = Flags(link[p])]
      /\ \A a, b \in Players :
           status'[a][b] = IF a = p /\ b \in link[p].peers /\ on[b]
                           THEN Append(status[a][b], Telling(p)) ELSE status[a][b]
      /\ Telling(p) \in StatusPackets
  BY SendsStatus DEF Telling
<1>2. p \notin link[p].peers
  BY DEF Steady
<1>3. ASSUME NEW b \in Players, b \in link[p].peers PROVE status'[p][b] # <<>>
  <2>1. status[p][b] \in Seq(StatusPackets)
    BY DEF LinkType
  <2>2. Append(status[p][b], Telling(p)) # <<>>
    BY <1>1, <2>1, QueueMore
  <2>3. on[b]
    BY DEF Steady
  <2> QED  BY <1>1, <1>3, <2>2, <2>3
<1>4. ASSUME NEW a \in Players, NEW b \in Players, a # p \/ b = p
      PROVE  status'[a][b] = status[a][b]
  BY <1>1, <1>2, <1>4
<1>5. \A a \in Players : timer'[a].seen = timer[a].seen /\ (a # p => timer'[a] = timer[a])
  BY <1>1 DEF LinkType, Timers
<1>6. ASSUME NEW a \in Players, NEW q \in Players, link'[a].masterPlayer = q
      PROVE  Reached(q, a)' /\ timer'[a].seen <= spent'.lost + Owed(q, a)'
  <2>1. Reached(q, a) /\ timer[a].seen <= spent.lost + Owed(q, a)
    BY <1>1, <1>6 DEF Steady
  <2>2. Owed(q, a)' >= Owed(q, a) /\ Owed(q, a)' \in {0, 1} /\ Owed(q, a) \in {0, 1}
    <3>1. CASE q = p
      BY <1>3, <2>1, <3>1 DEF Owed, Reached
    <3>2. CASE q # p
      BY <1>4, <1>5, <3>2 DEF Owed
    <3> QED  BY <3>1, <3>2
  <2>3. timer[a].seen \in Nat /\ spent.lost \in Nat /\ spent' = spent /\ link' = link
    BY <1>1 DEF LinkType, Timers
  <2>4. timer[a].seen <= spent.lost + Owed(q, a)'
    BY <2>1, <2>2, <2>3
  <2> QED  BY <1>5, <2>1, <2>3, <2>4 DEF Reached
<1>7. ASSUME NEW a \in Players, NEW b \in Players, status'[b][a] # <<>> PROVE Reached(b, a)'
  <2>1. CASE status'[b][a] = status[b][a]
    BY <1>1, <1>7, <2>1 DEF Steady, Reached
  <2>2. CASE b = p /\ a \in link[p].peers
    BY <1>1, <1>2, <2>2 DEF Reached
  <2> QED  BY <1>1, <2>1, <2>2
<1> QED  BY <1>1, <1>6, <1>7 DEF Steady

\* A status heard from the master ends its silence.
LEMMA HearsSteady ==
  ASSUME LinkType, LinkType', Steady, NEW p \in Players, NEW q \in Players, HearStatus(q, p)
  PROVE  Steady'
<1> DEFINE x == status[q][p][1]
<1>1. /\ status[q][p] # <<>> /\ status' = [status EXCEPT ![q][p] = Tail(@)]
      /\ UNCHANGED <<on, beatPort, spent>> /\ \A a \in Players : a # p => link'[a] = link[a]
      /\ link'[p].sendFull = link[p].sendFull /\ link'[p].peers = link[p].peers
      /\ timer' = [timer EXCEPT ![p].seen =
                     IF x.master \/ link[p].masterPlayer = q THEN 0 ELSE @]
  BY HearsStatus
<1>2. p # q /\ Reached(q, p) /\ None \notin Players /\ link[p].handoffTo # p
  BY <1>1, LinkAssumption DEF Steady, Reached
<1>3. link'[p].handoffTo \in {link[p].handoffTo, None}
  BY HearsStatus
<1>4. link'[p].masterPlayer = q => x.master
  <2> SUFFICES ASSUME ~x.master PROVE link'[p].masterPlayer # q
    OBVIOUS
  <2>1. link'[p].masterPlayer = IF link[p].masterPlayer = q THEN None ELSE link[p].masterPlayer
    BY HearsStatus
  <2> QED  BY <1>2, <2>1
<1>5. link'[p].masterPlayer \in {q, None, link[p].masterPlayer}
  BY HearsStatus
<1>6. /\ \A a \in Players : timer'[a].status = timer[a].status
      /\ \A a \in Players : a # p => timer'[a].seen = timer[a].seen
      /\ timer'[p].seen \in {0, timer[p].seen} /\ (x.master => timer'[p].seen = 0)
  <2> DEFINE n == IF x.master \/ link[p].masterPlayer = q THEN 0 ELSE timer[p].seen
  <2>1. timer' = [timer EXCEPT ![p].seen = n]
    BY <1>1 DEF LinkType, Timers
  <2>2. n \in {0, timer[p].seen} /\ (x.master => n = 0)
    OBVIOUS
  <2> HIDE DEF n, x
  <2> QED  BY <2>1, <2>2 DEF LinkType, Timers
<1>7. \A a, b \in Players : a # q \/ b # p => status'[a][b] = status[a][b]
  BY <1>1, StatusLess
<1> HIDE DEF x
<1>11. ASSUME NEW a \in Players, NEW b \in Players, Reached(b, a) PROVE Reached(b, a)'
  BY <1>1, <1>11 DEF Reached
<1>8. ASSUME NEW a \in Players, NEW b \in Players, link'[a].masterPlayer = b
      PROVE  Reached(b, a)' /\ timer'[a].seen <= spent'.lost + Owed(b, a)'
  <2>1. /\ timer[a].seen \in Nat /\ spent.lost \in Nat /\ spent' = spent
        /\ Owed(b, a)' \in {0, 1} /\ Owed(b, a) \in {0, 1}
    BY <1>1 DEF LinkType, Timers, Owed
  <2>2. CASE a = p /\ b = q
    BY <1>1, <1>2, <1>4, <1>6, <1>8, <1>11, <2>1, <2>2
  <2>3. CASE a # p \/ b # q
    <3>1. link[a].masterPlayer = b
      BY <1>1, <1>2, <1>5, <1>8, <2>3
    <3>2. Reached(b, a) /\ timer[a].seen <= spent.lost + Owed(b, a)
      BY <3>1 DEF Steady
    <3>3. Owed(b, a)' = Owed(b, a)
      BY <1>6, <1>7, <2>3 DEF Owed
    <3>4. timer'[a].seen \in {0, timer[a].seen}
      BY <1>6
    <3>5. Reached(b, a)'
      BY <1>11, <3>2
    <3> QED  BY <2>1, <3>2, <3>3, <3>4, <3>5
  <2> QED  BY <2>2, <2>3
<1>9. \A a \in Players : on'[a] /\ a \notin link'[a].peers /\ link'[a].handoffTo # a
  BY <1>1, <1>2, <1>3 DEF Steady
<1>10. \A a, b \in Players : status'[b][a] # <<>> => Reached(b, a)'
  BY <1>2, <1>7, <1>11 DEF Steady
<1> QED  BY <1>1, <1>8, <1>9, <1>10 DEF Steady

\* A status lost is a packet lost.
LEMMA LosesSteady ==
  ASSUME LinkType, LinkType', Steady, NEW p \in Players, NEW q \in Players, status[q][p] # <<>>,
         status' = [status EXCEPT ![q][p] = Tail(@)], spent'.lost = spent.lost + 1,
         UNCHANGED <<on, link, timer, beatPort>>
  PROVE  Steady'
<1>1. \A a, b \in Players : a # q \/ b # p => status'[a][b] = status[a][b]
  BY StatusLess
<1>2. ASSUME NEW a \in Players, NEW b \in Players, link'[a].masterPlayer = b
      PROVE  Reached(b, a)' /\ timer'[a].seen <= spent'.lost + Owed(b, a)'
  <2>1. Reached(b, a)' /\ timer[a].seen <= spent.lost + Owed(b, a)
    BY <1>2 DEF Steady, Reached
  <2>2. timer[a].seen \in Nat /\ spent.lost \in Nat /\ Owed(b, a)' \in {0, 1} /\ Owed(b, a) \in {0, 1}
    BY DEF LinkType, Timers, Owed
  <2> QED  BY <2>1, <2>2
<1>3. \A a, b \in Players : status'[b][a] # <<>> => Reached(b, a)'
  BY <1>1 DEF Steady, Reached
<1> QED  BY <1>2, <1>3 DEF Steady

\* A tick begins a status period: what was owed has come or was lost.
LEMMA TicksSteady ==
  ASSUME LinkType, LinkType', Steady, Tick
  PROVE  Steady'
<1>1. /\ UNCHANGED <<on, link, beatPort, status, spent>>
      /\ \A p, q \in Players : status[p][q] = <<>>
      /\ \A p \in Players : ~StatusDue(p) /\ on[p]
  BY DEF Tick, Settled, Steady
<1>2. ASSUME NEW p \in Players
      PROVE  timer'[p].status = 1 /\ timer'[p].seen <= timer[p].seen + 1
  <2>1. timer[p] \in Timers /\ timer[p].seen \in Nat /\ MasterGone + 1 \in Nat
    <3>1. MasterGone \in Nat
      BY LinkAssumption
    <3> QED  BY <3>1 DEF LinkType, Timers
  <2>2. timer'[p].status = 1 /\ timer'[p].seen = IF link[p].masterPlayer = None THEN 0
                                                ELSE Older(timer[p].seen, MasterGone + 1)
    BY <1>1, <2>1 DEF Tick, Timers
  <2>3. Older(timer[p].seen, MasterGone + 1) <= timer[p].seen + 1 /\ 0 <= timer[p].seen + 1
    BY <2>1 DEF Older
  <2> QED  BY <2>2, <2>3
<1>3. ASSUME NEW p \in Players, NEW q \in Players, link'[p].masterPlayer = q
      PROVE  Reached(q, p)' /\ timer'[p].seen <= spent'.lost + Owed(q, p)'
  <2>1. Reached(q, p) /\ Reached(q, p)' /\ timer[p].seen <= spent.lost + Owed(q, p)
    BY <1>1, <1>3 DEF Steady, Reached
  <2>2. ~(timer[q].status >= 1)
    BY <1>1, <2>1 DEF StatusDue, Reached
  <2>3. Owed(q, p) = 0
    BY <1>1, <2>2 DEF Owed
  <2>4. Owed(q, p)' = 1
    BY <1>2 DEF Owed
  <2>5. timer[p].seen \in Nat /\ timer'[p].seen \in Nat /\ spent.lost \in Nat
    BY DEF LinkType, Timers
  <2> QED  BY <1>1, <1>2, <2>1, <2>3, <2>4, <2>5
<1> QED  BY <1>1, <1>3 DEF Steady, Reached

\* No master is silent for as long as makes it forgotten, and whoever is without the
\* role knows who has it.
LEMMA NothingForgotten ==
  ASSUME LinkType, Roles, Steady, TwoDecks, NEW p \in Players
  PROVE  ~Silent(p) /\ ~Unclaimed(p)
<1>1. MasterGone \in Nat /\ MaxLosses \in Nat /\ None \notin Players /\ MaxLosses < MasterGone
  BY LinkAssumption DEF TwoDecks
<1>2. ASSUME link[p].masterPlayer # None PROVE ~(timer[p].seen > MasterGone)
  <2>1. link[p].masterPlayer \in Players
    BY <1>2 DEF LinkType, LinkState, Someone
  <2>2. PICK q \in Players : link[p].masterPlayer = q
    BY <2>1
  <2>3. timer[p].seen <= spent.lost + Owed(q, p) /\ Owed(q, p) \in {0, 1}
    BY <2>2 DEF Steady, Owed
  <2>4. timer[p].seen \in Nat /\ spent.lost \in Nat /\ spent.lost <= MaxLosses
    BY DEF LinkType, Timers
  <2> QED  BY <1>1, <2>3, <2>4
<1>3. ASSUME link[p].masterPlayer = None PROVE link[p].master
  <2>1. PICK a \in Players, b \in Players : a # b /\ (Solo(a, b) \/ Giving(a, b))
    BY DEF Roles
  <2>2. p = a \/ p = b
    BY <2>1 DEF TwoDecks
  <2> QED  BY <1>1, <1>3, <2>1, <2>2 DEF Solo, Giving
<1> QED  BY <1>2, <1>3 DEF Silent, Unclaimed, Wanting

\* The record of the same role, and of no less sending.
Alike(l, new) ==
  /\ new.master = l.master /\ new.handoffTo = l.handoffTo /\ new.masterPlayer = l.masterPlayer
  /\ new.ourSync = l.ourSync /\ new.peers = l.peers /\ (l.sendFull => new.sendFull)

\* What a key or a control makes of a deck's record.
LEMMA KeysAlike ==
  ASSUME NEW l \in LinkState, NEW b
  PROVE  /\ Alike(l, [l EXCEPT !.sendFull = TRUE, !.want = TRUE])
         /\ Alike(l, [l EXCEPT !.sync = b]) /\ Alike(l, [l EXCEPT !.want = TRUE])
<1>1. Alike(l, [l EXCEPT !.sendFull = TRUE, !.want = TRUE])
  BY DEF LinkState, Alike
<1>2. Alike(l, [l EXCEPT !.sync = b])
  BY DEF LinkState, Alike
<1>3. Alike(l, [l EXCEPT !.want = TRUE])
  BY DEF LinkState, Alike
<1> QED  BY <1>1, <1>2, <1>3

\* A key or a control changes that one record, and is a press.
LEMMA KeysPress ==
  ASSUME LinkType, NEW p \in Players, Keys(p)
  PROVE  /\ UNCHANGED <<on, timer, beatPort, status>> /\ on[p]
         /\ spent'.lost = spent.lost /\ spent'.power = spent.power
         /\ Alike(link[p], link'[p]) /\ \A q \in Players : q # p => link'[q] = link[q]
<1>1. link[p] \in LinkState
  BY DEF LinkType
<1>2. PICK l : Press(p, l) /\ Alike(link[p], l)
  <2>1. CASE MasterRequest(p)
    BY <1>1, <2>1, KeysAlike DEF MasterRequest
  <2>2. CASE SyncToggle(p)
    <3>1. Press(p, [link[p] EXCEPT !.sync = ~link[p].sync])
      BY <1>1, <2>2 DEF SyncToggle
    <3> QED  BY <1>1, <3>1, KeysAlike
  <2>3. CASE SyncControl(p)
    BY <1>1, <2>3, KeysAlike DEF SyncControl
  <2> QED  BY <2>1, <2>2, <2>3 DEF Keys
<1>3. link' = [link EXCEPT ![p] = l] /\ Spend("presses") /\ on[p]
      /\ UNCHANGED <<on, timer, beatPort, status>>
  BY <1>2 DEF Press
<1>4. link'[p] = l /\ \A q \in Players : q # p => link'[q] = link[q]
  BY <1>3, LinkAt
<1>5. spent'.lost = spent.lost /\ spent'.power = spent.power
  BY <1>3 DEF Spend, LinkType
<1> QED  BY <1>2, <1>3, <1>4, <1>5

\* A key or a control changes neither who holds the role nor what is owed.
LEMMA KeysKeep ==
  ASSUME LinkType, LinkType', Roles, Steady, NEW p \in Players, Keys(p)
  PROVE  Roles' /\ Steady' /\ \A q \in Players : link'[q].master = link[q].master
<1>1. \A q \in Players :
        /\ link'[q].master = link[q].master /\ link'[q].handoffTo = link[q].handoffTo
        /\ link'[q].masterPlayer = link[q].masterPlayer /\ link'[q].ourSync = link[q].ourSync
        /\ link'[q].peers = link[q].peers /\ (link[q].sendFull => link'[q].sendFull)
  BY KeysPress DEF Alike
<1>2. UNCHANGED <<on, timer, beatPort, status>> /\ spent'.lost = spent.lost /\ spent.lost \in Nat
  BY KeysPress DEF LinkType
<1>3. \A a, b \in Players : Queue(a, b)
  BY <1>2 DEF Queue
<1>4. Roles'
  BY <1>1, <1>3, RolesKept
<1>5. \A q \in Players : link[q].handoffTo # q /\ q \notin link[q].peers
  BY DEF Steady
<1>6. Steady'
  BY <1>1, <1>2, <1>5, SteadyKept
<1> QED  BY <1>1, <1>4, <1>6

\* What is sent on the beat port, or lost there, keeps roles and what is owed.
LEMMA PortKeeps ==
  ASSUME LinkType, LinkType', Roles, Steady, UNCHANGED <<on, link, status>>,
         spent'.lost >= spent.lost, \A m \in beatPort' : m \in beatPort \/ m.from # m.to,
         \A p \in Players : timer'[p].seen = timer[p].seen /\ timer'[p].status = timer[p].status
  PROVE  Roles' /\ Steady'
<1>1. \A a, b \in Players : Queue(a, b)
  BY DEF Queue
<1>2. Roles'
  BY <1>1, RolesKept
<1>3. \A q \in Players : link[q].handoffTo # q /\ q \notin link[q].peers
  BY DEF Steady
<1> QED  BY <1>2, <1>3, SteadyKept

\* A request goes to another deck, and so does an announce.
LEMMA SendersKeep ==
  ASSUME LinkType, LinkType', Roles, Steady, NEW p \in Players, RequestMaster(p) \/ Announce(p)
  PROVE  Roles' /\ Steady' /\ link' = link
<1>1. UNCHANGED <<on, link, status, spent>>
  BY DEF RequestMaster, Announce
<1>2. \A m \in beatPort' : m \in beatPort \/ m.from # m.to
  <2>1. CASE RequestMaster(p)
    <3>1. link[p].masterPlayer \in Players
      BY <2>1 DEF RequestMaster, Asking, LinkType, LinkState
    <3>2. link[p].masterPlayer # p
      BY <3>1 DEF Steady, Reached
    <3> QED  BY <2>1, <3>2 DEF RequestMaster
  <2>2. CASE Announce(p)
    BY <2>2 DEF Announce, Beside
  <2> QED  BY <2>1, <2>2
<1>3. \A q \in Players : timer'[q].seen = timer[q].seen /\ timer'[q].status = timer[q].status
  <2>1. \/ timer' = [timer EXCEPT ![p].request = 0]
        \/ timer' = [timer EXCEPT ![p].announce = 0]
    BY DEF RequestMaster, Announce
  <2>2. timer \in [Players -> Timers]
    BY DEF LinkType
  <2>3. \E t : timer' = [timer EXCEPT ![p] = t] /\ t.seen = timer[p].seen
                                               /\ t.status = timer[p].status
    <3>1. timer[p] \in Timers
      BY <2>2
    <3>2. CASE timer' = [timer EXCEPT ![p].request = 0]
      <4> DEFINE t == [timer[p] EXCEPT !.request = 0]
      <4>1. timer' = [timer EXCEPT ![p] = t]
        BY <2>2, <3>2
      <4>2. t.seen = timer[p].seen /\ t.status = timer[p].status
        BY <3>1 DEF Timers
      <4> HIDE DEF t
      <4> QED  BY <4>1, <4>2
    <3>3. CASE timer' = [timer EXCEPT ![p].announce = 0]
      <4> DEFINE t == [timer[p] EXCEPT !.announce = 0]
      <4>1. timer' = [timer EXCEPT ![p] = t]
        BY <2>2, <3>3
      <4>2. t.seen = timer[p].seen /\ t.status = timer[p].status
        BY <3>1 DEF Timers
      <4> HIDE DEF t
      <4> QED  BY <4>1, <4>2
    <3> QED  BY <2>1, <3>2, <3>3
  <2> QED  BY <2>2, <2>3
<1>4. spent.lost \in Nat
  BY DEF LinkType
<1> QED  BY <1>1, <1>2, <1>3, <1>4, PortKeeps

\* A packet of the beat port that is heard: only a grant touches the role, and not
\* who holds it.
LEMMA HearsPort ==
  ASSUME LinkType, LinkType', Roles, Steady, \E a, b : a # b /\ Players = {a, b},
         NEW m \in beatPort, Hear(m)
  PROVE  Roles' /\ Steady' /\ \A q \in Players : link'[q].master = link[q].master
<1> DEFINE p == m.to
           q == m.from
<1>1. p \in Players /\ q \in Players /\ p # q /\ link[p] \in LinkState
  BY DEF LinkType, Packet, Steady
<1>2. Players = {p, q}
  BY <1>1
<1>3. UNCHANGED <<on, timer, status, spent>> /\ spent.lost \in Nat
  BY DEF Hear, LinkType
<1>4. \A n \in beatPort' : n \in beatPort \/ n.from # n.to
  BY <1>1 DEF Hear, HearAnnounce, HearRequest, HearAgree
<1>5. \A a \in Players : link[a].handoffTo # a /\ a \notin link[a].peers
  BY DEF Steady
<1>6. \/ link' = link
      \/ link' = [link EXCEPT ![p].peers = link[p].peers \cup {q}]
      \/ link[p].master /\ link' = [link EXCEPT ![p].handoffTo = q]
      \/ link' = [link EXCEPT ![p].yieldedFrom = q]
  BY <1>1 DEF Hear, HearAnnounce, HearRequest, HearAgree, LinkType
<1> HIDE DEF p, q
<1>7. CASE link[p].master /\ link' = [link EXCEPT ![p].handoffTo = q]
  <2>1. /\ \A a \in Players : link'[a].master = link[a].master /\ link'[a].peers = link[a].peers
                              /\ link'[a].masterPlayer = link[a].masterPlayer
                              /\ link'[a].sendFull = link[a].sendFull
        /\ link'[p].handoffTo = q /\ \A a \in Players : a # p => link'[a].handoffTo = link[a].handoffTo
    <3> DEFINE l == [link[p] EXCEPT !.handoffTo = q]
    <3>1. link \in [Players -> LinkState] /\ link' = [link EXCEPT ![p] = l]
      BY <1>7 DEF LinkType
    <3>2. /\ l.master = link[p].master /\ l.peers = link[p].peers /\ l.handoffTo = q
          /\ l.masterPlayer = link[p].masterPlayer /\ l.sendFull = link[p].sendFull
      BY <1>1 DEF LinkState
    <3> HIDE DEF l
    <3>3. link'[p] = l /\ \A a \in Players : a # p => link'[a] = link[a]
      BY <1>1, <3>1
    <3> QED  BY <3>2, <3>3
  <2>2. Roles'
    BY <1>1, <1>2, <1>3, <1>7, GrantsKeepRoles
  <2>3. \A a \in Players : link'[a].handoffTo # a
    BY <1>1, <1>5, <2>1
  <2> QED  BY <1>3, <1>4, <1>5, <2>1, <2>2, <2>3, SteadyKept
<1>8. CASE ~(link[p].master /\ link' = [link EXCEPT ![p].handoffTo = q])
  <2>1. \A a \in Players : /\ link'[a].master = link[a].master
                           /\ link[a].peers \subseteq link'[a].peers /\ a \notin link'[a].peers
                           /\ link'[a].masterPlayer = link[a].masterPlayer
                           /\ link'[a].sendFull = link[a].sendFull
                           /\ link'[a].handoffTo = link[a].handoffTo
                           /\ link'[a].ourSync = link[a].ourSync
    <3>1. CASE link' = link
      BY <1>5, <3>1
    <3>2. CASE link' = [link EXCEPT ![p].peers = link[p].peers \cup {q}]
      <4> DEFINE l == [link[p] EXCEPT !.peers = link[p].peers \cup {q}]
      <4>1. /\ l.master = link[p].master /\ l.peers = link[p].peers \cup {q}
            /\ l.masterPlayer = link[p].masterPlayer /\ l.sendFull = link[p].sendFull
            /\ l.handoffTo = link[p].handoffTo /\ l.ourSync = link[p].ourSync
        BY <1>1 DEF LinkState
      <4>2. link' = [link EXCEPT ![p] = l]
        BY <3>2 DEF LinkType
      <4> HIDE DEF l
      <4>3. link'[p] = l /\ \A a \in Players : a # p => link'[a] = link[a]
        BY <1>1, <4>2 DEF LinkType
      <4> QED  BY <1>1, <1>5, <4>1, <4>3
    <3>3. CASE link' = [link EXCEPT ![p].yieldedFrom = q]
      <4> DEFINE l == [link[p] EXCEPT !.yieldedFrom = q]
      <4>1. /\ l.master = link[p].master /\ l.peers = link[p].peers
            /\ l.masterPlayer = link[p].masterPlayer /\ l.sendFull = link[p].sendFull
            /\ l.handoffTo = link[p].handoffTo /\ l.ourSync = link[p].ourSync
        BY <1>1 DEF LinkState
      <4>2. link' = [link EXCEPT ![p] = l]
        BY <3>3 DEF LinkType
      <4> HIDE DEF l
      <4>3. link'[p] = l /\ \A a \in Players : a # p => link'[a] = link[a]
        BY <1>1, <4>2 DEF LinkType
      <4> QED  BY <1>1, <1>5, <4>1, <4>3
    <3> QED  BY <1>6, <1>8, <3>1, <3>2, <3>3
  <2>2. \A a, b \in Players : Queue(a, b)
    BY <1>3 DEF Queue
  <2>3. Roles'
    BY <2>1, <2>2, RolesKept
  <2> QED  BY <1>3, <1>4, <1>5, <2>1, <2>3, SteadyKept
<1> QED  BY <1>7, <1>8

\* A packet is lost.
LEMMA LosesKeep ==
  ASSUME LinkType, LinkType', Roles, Steady, LosePacket
  PROVE  Roles' /\ Steady' /\ link' = link
<1>1. UNCHANGED <<on, link, timer>> /\ spent'.lost = spent.lost + 1 /\ spent.lost \in Nat
  BY DEF LosePacket, Spend, LinkType
<1>2. CASE status' = status
  <2>1. \A m \in beatPort' : m \in beatPort \/ m.from # m.to
    <3>1. beatPort' \subseteq beatPort
      BY DEF LosePacket
    <3> QED  BY <3>1
  <2> QED  BY <1>1, <1>2, <2>1, PortKeeps
<1>3. ASSUME NEW q \in Players, NEW p \in Players, status[q][p] # <<>>,
             status' = [status EXCEPT ![q][p] = Tail(@)], beatPort' = beatPort
      PROVE  Roles' /\ Steady'
  <2>1. \A a, b \in Players : Queue(a, b)
    BY <1>3, StatusLess DEF Queue
  <2>2. Roles'
    BY <1>1, <2>1, RolesKept
  <2> QED  BY <1>1, <1>3, <2>2, LosesSteady
<1> QED  BY <1>1, <1>2, <1>3 DEF LosePacket

\* A status sent tells what is so.
LEMMA SendsKeep ==
  ASSUME LinkType, LinkType', Roles, Steady, \E a, b : a # b /\ Players = {a, b},
         NEW p \in Players, SendStatus(p)
  PROVE  Roles' /\ Steady' /\ link' = link
<1>1. /\ UNCHANGED <<on, link, beatPort, spent>>
      /\ \A a, b \in Players :
           status'[a][b] = IF a = p /\ b \in link[p].peers /\ on[b]
                           THEN Append(status[a][b], Telling(p)) ELSE status[a][b]
  BY SendsStatus DEF Telling
<1>2. ASSUME NEW a \in Players, NEW b \in Players, a # b PROVE Queue(a, b)
  <2>1. link[a].handoffTo \in {None, b}
    <3>1. link[a].handoffTo \in Someone
      BY DEF LinkType, LinkState
    <3>2. link[a].handoffTo # a
      BY DEF Steady
    <3>3. Players = {a, b}
      BY <1>2
    <3> QED  BY <3>1, <3>2, <3>3 DEF Someone
  <2> QED  BY <1>1, <2>1 DEF Queue
<1>3. Roles'
  BY <1>1, <1>2, RolesKept
<1> QED  BY <1>1, <1>3, SendsSteady

\* The first state: decks that know each other and their master.
LEMMA LinkTypeInit == Init => LinkType
<1> SUFFICES ASSUME Init PROVE LinkType
  OBVIOUS
<1>1. Lead \in Someone /\ None \in Someone /\ MaxLosses \in Nat
  BY LinkAssumption DEF Someone
<1>2. Fresh \in LinkState
  BY <1>1 DEF Fresh, LinkState
<1>3. Started \in Timers
  BY LinkAssumption DEF Started, Timers, FlagPairs
<1>4. ASSUME NEW p \in Players PROVE link[p] \in LinkState
  <2> DEFINE peers  == Beside(p) \ Absent
             leads  == p = Lead
             sends  == p = Lead \/ p \in Synced
             syncs  == p \in Synced
             ours   == IF p = Lead THEN 1 ELSE 0
             newest == IF p # Lead /\ Lead # None THEN 1 ELSE 0
             master == IF p # Lead THEN Lead ELSE None
             l == [Fresh EXCEPT !.peers = peers, !.master = leads, !.sendFull = sends,
                                !.sync = syncs, !.ourSync = ours, !.largestSync = newest,
                                !.masterPlayer = master]
  <2>1. /\ peers \in SUBSET Players /\ ours \in Nat /\ newest \in Nat /\ master \in Someone
        /\ leads \in BOOLEAN /\ sends \in BOOLEAN /\ syncs \in BOOLEAN
    BY <1>1 DEF Beside
  <2>2. link[p] = IF p \in Absent THEN Fresh ELSE l
    BY DEF Init
  <2> HIDE DEF peers, leads, sends, syncs, ours, newest, master
  <2>3. l \in LinkState
    BY <1>2, <2>1 DEF LinkState
  <2> HIDE DEF l
  <2> QED  BY <1>2, <2>2, <2>3
<1>5. ASSUME NEW p \in Players PROVE timer[p] \in Timers
  <2> DEFINE f == <<p = Lead, p \in Synced>>
             t == [Started EXCEPT !.status = 0, !.announce = 0, !.flags = f]
  <2>1. f \in FlagPairs
    <3> DEFINE u == p = Lead
               v == p \in Synced
    <3>1. u \in BOOLEAN /\ v \in BOOLEAN /\ f = <<u, v>>
      OBVIOUS
    <3> HIDE DEF f, u, v
    <3> QED  BY <3>1 DEF FlagPairs
  <2>2. timer[p] = IF p \in Absent THEN Started ELSE t
    BY DEF Init
  <2> HIDE DEF f
  <2>3. t \in Timers
    BY <1>3, <2>1 DEF Timers
  <2> QED  BY <1>3, <2>2, <2>3
<1>6. link \in [Players -> LinkState] /\ timer \in [Players -> Timers]
  <2>1. link = [p \in Players |-> link[p]] /\ timer = [p \in Players |-> timer[p]]
    BY DEF Init
  <2> QED  BY <1>4, <1>5, <2>1
<1>7. status \in [Players -> [Players -> Seq(StatusPackets)]]
  <2>1. <<>> \in Seq(StatusPackets)
    BY EmptySeq
  <2> QED  BY <2>1 DEF Init
<1>8. /\ on \in [Players -> BOOLEAN] /\ beatPort \subseteq Packet
      /\ spent \in [presses : Nat, power : Nat, lost : Nat] /\ spent.lost <= MaxLosses
  <2>1. on = [p \in Players |-> p \notin Absent] /\ beatPort = {}
        /\ spent = [presses |-> 0, power |-> 0, lost |-> 0]
    BY DEF Init
  <2> QED  BY <1>1, <2>1
<1> QED  BY <1>6, <1>7, <1>8 DEF LinkType

\* Of two, the one in the lead holds the role, alone or with the other's knowledge.
LEMMA LinkInit == TwoDecks /\ Init => LinkInv
<1> SUFFICES ASSUME TwoDecks, Init PROVE LinkInv
  OBVIOUS
<1>1. Lead \in Players /\ None \notin Players /\ Absent \subseteq Players /\ Lead \notin Absent
  BY LinkAssumption DEF TwoDecks
<1>2. PICK q \in Players : q # Lead /\ Players = {Lead, q}
  BY <1>1 DEF TwoDecks
<1>3. link[Lead].master /\ link[Lead].sendFull /\ link[Lead].handoffTo = None
      /\ link[Lead].masterPlayer = None /\ link[Lead].peers = Beside(Lead) \ Absent
  BY <1>1 DEF Init, Fresh
<1>4. beatPort = {} /\ spent.lost = 0 /\ spent.power = 0
      /\ (\A p \in Players : on[p] <=> p \notin Absent)
      /\ \A a, b \in Players : status[a][b] = <<>>
  BY DEF Init
<1>5. LinkType
  BY LinkTypeInit
<1>6. CASE Absent = {}
  <2>1. \A p \in Players :
          /\ link[p].peers = Beside(p) /\ link[p].handoffTo = None
          /\ link[p].masterPlayer = (IF p # Lead THEN Lead ELSE None)
          /\ timer[p].seen = 0
    BY <1>1, <1>6 DEF Init, Fresh, Started
  <2>2. ~link[q].master
    BY <1>2, <1>6 DEF Init, Fresh
  <2>3. Len(status[Lead][q]) = 0 /\ Len(status[q][Lead]) = 0
    BY <1>1, <1>4, EmptySeq
  <2>4. Solo(Lead, q)
    BY <1>1, <1>2, <1>3, <2>1, <2>2, <2>3 DEF Solo, Told
  <2>5. Steady
    <3>1. \A a, b \in Players : link[a].masterPlayer = b => Reached(b, a)
      BY <1>1, <1>3, <2>1 DEF Reached, Beside
    <3>2. \A a, b \in Players : Owed(b, a) \in {0, 1}
      BY DEF Owed
    <3> QED  BY <1>1, <1>4, <1>6, <2>1, <3>1, <3>2 DEF Steady, Beside
  <2> QED  BY <1>1, <1>2, <1>4, <1>5, <1>6, <2>4, <2>5 DEF LinkInv, Together, Roles, Joining
<1>7. CASE Absent # {}
  <2>1. Absent = {q}
    BY <1>1, <1>2, <1>7
  <2>2. link[q] = Fresh /\ timer[q] = Started
    BY <2>1 DEF Init
  <2>3. Alone(Lead, q)
    BY <1>1, <1>2, <1>3, <1>4, <2>1, <2>2 DEF Alone, Beside
  <2> QED  BY <1>1, <1>2, <1>4, <1>5, <1>7, <2>3 DEF LinkInv, Begins, Joining
<1> QED  BY <1>6, <1>7

\* Who takes the role takes it with a counter above the other deck's.
Newer == \A p, q \in Players :
           ~link[p].master /\ link'[p].master /\ p # q => link'[p].ourSync > link[q].ourSync

\* Every step but a switch.
Stays == (\E p \in Players : Keys(p)) \/ Runs \/ LosePacket \/ UNCHANGED vars

\* Only a switch switches.
LEMMA StaysOn ==
  ASSUME LinkType, Stays
  PROVE  on' = on /\ spent'.power = spent.power
<1>1. ASSUME NEW p \in Players, Keys(p) PROVE on' = on /\ spent'.power = spent.power
  BY <1>1, KeysPress
<1>2. CASE Runs
  BY <1>2 DEF Runs, Sender, Listeners, ForgetMaster, TakeUnclaimed, RequestMaster, SendStatus,
              Announce, Hear, HearStatus, Tick
<1>3. CASE LosePacket
  BY <1>3 DEF LosePacket, Spend, LinkType
<1>4. CASE UNCHANGED vars
  BY <1>4 DEF vars
<1> QED  BY <1>1, <1>2, <1>3, <1>4 DEF Stays

\* Two decks that are on and know each other keep the roles, and nobody older takes one.
LEMMA TogetherStays ==
  ASSUME TwoDecks, LinkType, LinkType', Roles, Steady, Stays
  PROVE  Roles' /\ Steady' /\ Newer
<1>1. \E a, b : a # b /\ Players = {a, b}
  BY DEF TwoDecks
<1>2. ASSUME Roles', Steady', \A q \in Players : link'[q].master = link[q].master
      PROVE  Roles' /\ Steady' /\ Newer
  BY <1>2 DEF Newer
<1>3. ASSUME NEW p \in Players, Keys(p) PROVE Roles' /\ Steady' /\ Newer
  BY <1>2, <1>3, KeysKeep
<1>5. ASSUME NEW p \in Players PROVE ~ForgetMaster(p) /\ ~TakeUnclaimed(p)
  BY NothingForgotten DEF ForgetMaster, TakeUnclaimed
<1>6. ASSUME NEW p \in Players, RequestMaster(p) \/ Announce(p) PROVE Roles' /\ Steady' /\ Newer
  BY <1>2, <1>6, SendersKeep
<1>7. ASSUME NEW p \in Players, SendStatus(p) PROVE Roles' /\ Steady' /\ Newer
  BY <1>1, <1>2, <1>7, SendsKeep
<1>8. ASSUME NEW m \in beatPort, Hear(m) PROVE Roles' /\ Steady' /\ Newer
  BY <1>1, <1>2, <1>8, HearsPort
<1>9. ASSUME NEW p \in Players, NEW q \in Players, HearStatus(q, p)
      PROVE  Roles' /\ Steady' /\ Newer
  <2>1. status[q][p] # <<>> /\ \A a \in Players : a # p => link'[a] = link[a]
    BY <1>9, HearsStatus
  <2>2. p # q
    BY <2>1 DEF Steady, Reached
  <2>3. Players = {p, q}
    BY <1>1, <2>2
  <2>4. Roles' /\ (~link[p].master /\ link'[p].master => link'[p].ourSync > link[q].ourSync)
    BY <1>9, <2>2, <2>3, HearsKeepRoles
  <2>5. Steady'
    BY <1>9, HearsSteady
  <2> QED  BY <2>1, <2>3, <2>4, <2>5 DEF Newer
<1>10. CASE LosePacket
  BY <1>2, <1>10, LosesKeep
<1>11. CASE Tick
  <2>1. UNCHANGED <<on, link, beatPort, status, spent>>
    BY <1>11 DEF Tick
  <2>2. \A a, b \in Players : Queue(a, b)
    BY <2>1 DEF Queue
  <2>3. Roles'
    BY <2>1, <2>2, RolesKept
  <2> QED  BY <1>2, <1>11, <2>1, <2>3, TicksSteady
<1>12. CASE UNCHANGED vars
  <2>1. UNCHANGED <<on, link, timer, beatPort, status, spent>>
    BY <1>12 DEF vars
  <2>2. spent.lost \in Nat
    BY DEF LinkType
  <2> QED  BY <1>2, <2>1, <2>2, PortKeeps
<1> QED  BY <1>3, <1>5, <1>6, <1>7, <1>8, <1>9, <1>10, <1>11, <1>12
         DEF Stays, Runs, Sender, Listeners

\* A deck is switched off: its record and its packets are gone, and nobody takes a role.
LEMMA PartsWhenOff ==
  ASSUME LinkType, NEW p \in Players, SwitchOff(p), \A q \in Players : ~on[q] => Off(q)
  PROVE  /\ Parted' /\ Newer /\ spent'.power = spent.power + 1 /\ spent.power < MaxPower
         /\ on[p] /\ ~on'[p] /\ \A q \in Players : q # p => on'[q] = on[q]
<1>1. /\ spent'.power = spent.power + 1 /\ spent.power < MaxPower
      /\ on[p] /\ ~on'[p] /\ \A q \in Players : q # p => on'[q] = on[q]
  BY DEF SwitchOff, Spend, LinkType
<1>2. link'[p] = Fresh /\ \A q \in Players : q # p => link'[q] = link[q]
  BY DEF SwitchOff, LinkType
<1>3. \A q, r \in Players : status'[q][r] = IF p \in {q, r} THEN <<>> ELSE status[q][r]
  BY DEF SwitchOff, Without
<1>4. ~link'[p].master /\ link'[p].ourSync = 0
  BY <1>2 DEF Fresh
<1>5. Parted'
  BY <1>1, <1>2, <1>3, <1>4 DEF Parted, Off
<1> QED  BY <1>1, <1>2, <1>4, <1>5 DEF Newer

\* Whoever takes the role when its master is silent or unknown counts from one.
LEMMA TakersCount ==
  ASSUME LinkType, NEW p \in Players, ForgetMaster(p) \/ TakeUnclaimed(p)
  PROVE  /\ on[p] /\ UNCHANGED <<on, beatPort, status, spent>>
         /\ \A q \in Players : q # p => link'[q] = link[q]
         /\ ~link[p].master /\ link'[p].master => link'[p].ourSync > 0
<1> DEFINE forgot == [link[p] EXCEPT !.masterPlayer = None, !.yieldedFrom = None]
<1>1. link[p] \in LinkState /\ None \in Someone
  BY DEF LinkType, Someone
<1>2. forgot \in LinkState /\ forgot.master = link[p].master
  BY <1>1 DEF LinkState
<1>3. \/ link' = [link EXCEPT ![p] = forgot] \/ link' = [link EXCEPT ![p] = TakeMaster(forgot)]
      \/ link' = [link EXCEPT ![p] = TakeMaster(link[p])]
  BY DEF ForgetMaster, TakeUnclaimed, LinkType
<1>4. on[p] /\ UNCHANGED <<on, beatPort, status, spent>>
  BY DEF ForgetMaster, TakeUnclaimed, Silent, Unclaimed
<1> HIDE DEF forgot
<1>5. \A l \in LinkState : TakeMaster(l).ourSync > 0
  BY TakesIt DEF LinkState
<1>6. \/ link'[p] = forgot \/ link'[p] = TakeMaster(forgot) \/ link'[p] = TakeMaster(link[p])
  BY <1>3, LinkAt
<1>7. \A q \in Players : q # p => link'[q] = link[q]
  BY <1>3, LinkAt
<1> QED  BY <1>1, <1>2, <1>4, <1>5, <1>6, <1>7

\* A packet heard on the beat port makes nobody master and changes no counter.
LEMMA PortIsMute ==
  ASSUME LinkType, NEW m \in beatPort, Hear(m)
  PROVE  /\ UNCHANGED <<on, timer, status, spent>>
         /\ \A q \in Players : /\ link'[q].master = link[q].master
                               /\ link'[q].ourSync = link[q].ourSync
<1>1. m.from \in Players /\ m.to \in Players /\ link[m.to] \in LinkState
  BY DEF LinkType, Packet
<1> DEFINE p == m.to
           q == m.from
<1>2. \/ link' = link
      \/ link' = [link EXCEPT ![p] = [link[p] EXCEPT !.peers = link[p].peers \cup {q}]]
      \/ link' = [link EXCEPT ![p] = [link[p] EXCEPT !.handoffTo = q]]
      \/ link' = [link EXCEPT ![p] = [link[p] EXCEPT !.yieldedFrom = q]]
  BY <1>1 DEF Hear, HearAnnounce, HearRequest, HearAgree, LinkType
<1>3. UNCHANGED <<on, timer, status, spent>>
  BY DEF Hear
<1> HIDE DEF p, q
<1>4. \/ link' = link
      \/ \E l : /\ link' = [link EXCEPT ![p] = l]
                /\ l.master = link[p].master /\ l.ourSync = link[p].ourSync
  <2> DEFINE a == [link[p] EXCEPT !.peers = link[p].peers \cup {q}]
             b == [link[p] EXCEPT !.handoffTo = q]
             c == [link[p] EXCEPT !.yieldedFrom = q]
  <2>1. link[p] \in LinkState
    BY <1>1 DEF p
  <2>2. /\ a.master = link[p].master /\ a.ourSync = link[p].ourSync
        /\ b.master = link[p].master /\ b.ourSync = link[p].ourSync
        /\ c.master = link[p].master /\ c.ourSync = link[p].ourSync
    BY <2>1 DEF LinkState
  <2>3. link' = link \/ link' = [link EXCEPT ![p] = a] \/ link' = [link EXCEPT ![p] = b]
        \/ link' = [link EXCEPT ![p] = c]
    BY <1>2
  <2> HIDE DEF a, b, c
  <2> QED  BY <2>2, <2>3
<1> QED  BY <1>3, <1>4 DEF LinkType

\* A deck on its own takes the role at most from nobody.
LEMMA PartedStays ==
  ASSUME TwoDecks, LinkType, Parted, Stays
  PROVE  Parted' /\ Newer
<1>1. on' = on
  BY StaysOn
<1>2. SUFFICES ASSUME NEW q \in Players, ~on[q], NEW p \in Players, p # q
               PROVE  Off(q)' /\ ~link'[q].master
                      /\ (~link[p].master /\ link'[p].master => link'[p].ourSync > 0)
  <2>1. PICK q \in Players, p \in Players : ~on[q] /\ p # q /\ Players = {p, q}
    BY DEF Parted, TwoDecks
  <2>2. \A r \in Players : ~on[r] => Off(r)'
    <3>1. \A r \in Players : \E s \in Players : s # r
      BY <2>1
    <3> QED  BY <1>2, <3>1
  <2>3. Parted'
    BY <1>1, <2>1, <2>2 DEF Parted
  <2>4. ~link'[q].master /\ (~link[p].master /\ link'[p].master => link'[p].ourSync > 0)
    BY <1>2, <2>1
  <2>5. link[q].ourSync = 0
    BY <2>1 DEF Parted, Off
  <2> QED  BY <2>1, <2>3, <2>4, <2>5 DEF Newer
<1>3. ~link[q].master /\ link[q].ourSync = 0 /\ \A a \in Players : status[a][q] = <<>>
  BY <1>2 DEF Parted, Off
<1>4. ASSUME UNCHANGED status, link'[q].master = link[q].master, link'[q].ourSync = link[q].ourSync,
             ~link[p].master /\ link'[p].master => link'[p].ourSync > 0
      PROVE  Off(q)' /\ ~link'[q].master
             /\ (~link[p].master /\ link'[p].master => link'[p].ourSync > 0)
  BY <1>3, <1>4 DEF Off
<1>5. ASSUME NEW a \in Players, Keys(a)
      PROVE  /\ UNCHANGED status
             /\ \A b \in Players : link'[b].master = link[b].master /\ link'[b].ourSync = link[b].ourSync
  BY <1>5, KeysPress DEF Alike
<1>6. ASSUME NEW a \in Players, ForgetMaster(a) \/ TakeUnclaimed(a)
      PROVE  /\ UNCHANGED status
             /\ link'[q] = link[q] /\ (~link[p].master /\ link'[p].master => link'[p].ourSync > 0)
  <2>1. a # q
    BY <1>2, <1>6, TakersCount
  <2> QED  BY <1>6, <2>1, TakersCount
<1>7. ASSUME NEW a \in Players, RequestMaster(a) \/ Announce(a) \/ Tick \/ LosePacket \/ UNCHANGED vars
      PROVE  link' = link
  BY <1>7 DEF RequestMaster, Announce, Tick, LosePacket, vars
<1>8. ASSUME NEW a \in Players, RequestMaster(a) \/ Announce(a) \/ Tick \/ UNCHANGED vars
      PROVE  status' = status
  BY <1>8 DEF RequestMaster, Announce, Tick, vars
<1>9. ASSUME NEW a \in Players, SendStatus(a)
      PROVE  link' = link /\ \A b \in Players : status'[b][q] = status[b][q]
  BY <1>2, <1>9, SendsStatus
<1>10. CASE LosePacket
  <2>1. \A b \in Players : status'[b][q] = status[b][q]
    <3>1. CASE status' = status
      BY <3>1
    <3>2. ASSUME NEW b \in Players, NEW c \in Players, status[b][c] # <<>>,
                 status' = [status EXCEPT ![b][c] = Tail(@)]
          PROVE  \A d \in Players : status'[d][q] = status[d][q]
      BY <1>3, <3>2, StatusLess
    <3> QED  BY <1>10, <3>1, <3>2 DEF LosePacket
  <2> QED  BY <1>3, <1>7, <1>10, <2>1 DEF Off
<1>11. ASSUME NEW m \in beatPort, Hear(m)
       PROVE  Off(q)' /\ ~link'[q].master
              /\ (~link[p].master /\ link'[p].master => link'[p].ourSync > 0)
  BY <1>4, <1>11, PortIsMute
<1>12. ASSUME NEW a \in Players, NEW b \in Players, HearStatus(b, a)
       PROVE  Off(q)' /\ ~link'[q].master
              /\ (~link[p].master /\ link'[p].master => link'[p].ourSync > 0)
  <2> DEFINE x == status[b][a][1]
  <2>1. /\ status[b][a] # <<>> /\ x \in StatusPackets
        /\ status' = [status EXCEPT ![b][a] = Tail(@)]
        /\ \A c \in Players : c # a => link'[c] = link[c]
    BY <1>12, HearsStatus
  <2>2. a # q
    BY <1>3, <2>1
  <2>3. \A d \in Players : status'[d][q] = status[d][q]
    BY <2>1, <2>2, StatusLess
  <2>4. x.counter \in Nat
    BY <2>1 DEF StatusPackets
  <2>5. ~link[a].master /\ link'[a].master => link'[a].ourSync > x.counter
    <3>1. CASE x.master /\ x.handoff = a
      BY <1>12, <3>1, HearsStatus
    <3>2. CASE x.master /\ x.handoff # a
      BY <1>12, <3>2, HearsStatus
    <3>3. CASE ~x.master
      <4>1. link'[a].master = link[a].master
        BY <1>12, <3>3, HearsStatus
      <4> QED  BY <4>1
    <3> QED  BY <3>1, <3>2, <3>3
  <2>6. ~link[a].master /\ link'[a].master => link'[a].ourSync > 0
    <3>1. ~link[a].master /\ link'[a].master => link'[a].ourSync \in Nat
      <4>1. link' \in [Players -> LinkState]
        BY <1>12, HearsStatus
      <4> QED  BY <4>1 DEF LinkState
    <3> QED  BY <2>4, <2>5, <3>1
  <2> QED  BY <1>3, <2>1, <2>2, <2>3, <2>6 DEF Off
<1>13. ASSUME NEW a \in Players PROVE Sender(a) => Off(q)' /\ ~link'[q].master
              /\ (~link[p].master /\ link'[p].master => link'[p].ourSync > 0)
  <2>1. CASE ForgetMaster(a) \/ TakeUnclaimed(a)
    BY <1>4, <1>6, <2>1
  <2>2. CASE RequestMaster(a) \/ Announce(a)
    BY <1>4, <1>7, <1>8, <2>2
  <2>3. CASE SendStatus(a)
    BY <1>3, <1>9, <2>3 DEF Off
  <2> QED  BY <2>1, <2>2, <2>3 DEF Sender
<1>14. CASE Tick \/ UNCHANGED vars
  BY <1>2, <1>4, <1>7, <1>8, <1>14
<1> QED  BY <1>4, <1>5, <1>10, <1>11, <1>12, <1>13, <1>14 DEF Stays, Runs, Listeners

\* A sender's status or announce sets its own clocks.
LEMMA SendersClocks ==
  ASSUME LinkType, NEW p \in Players, SendStatus(p) \/ Announce(p)
  PROVE  /\ \A q \in Players : q # p => timer'[q] = timer[q]
         /\ timer'[p].want = timer[p].want
         /\ Announce(p) => timer'[p].status = timer[p].status /\ timer'[p].announce = 0
         /\ SendStatus(p) => timer'[p].announce = timer[p].announce
<1>1. timer[p] \in Timers
  BY DEF LinkType
<1>2. CASE SendStatus(p)
  <2> DEFINE f == Flags(link[p])
             t == [timer[p] EXCEPT !.status = 0, !.flags = f]
  <2>1. timer' = [timer EXCEPT ![p] = t]
    BY <1>2, SendsStatus DEF LinkType
  <2> HIDE DEF f
  <2>2. t.want = timer[p].want /\ t.announce = timer[p].announce
    BY <1>1 DEF Timers
  <2> HIDE DEF t
  <2>3. timer'[p] = t /\ \A q \in Players : q # p => timer'[q] = timer[q]
    BY <2>1 DEF LinkType
  <2>4. Announce(p) => timer'[p].status = timer[p].status /\ timer'[p].announce = 0
    <3>1. Announce(p) => timer' = [timer EXCEPT ![p].announce = 0]
      BY DEF Announce
    <3> QED  BY <1>1, <3>1 DEF LinkType, Timers
  <2> QED  BY <2>2, <2>3, <2>4
<1>3. CASE Announce(p)
  <2> DEFINE t == [timer[p] EXCEPT !.announce = 0]
  <2>1. timer' = [timer EXCEPT ![p] = t]
    BY <1>3 DEF Announce, LinkType
  <2>2. t.want = timer[p].want /\ t.status = timer[p].status /\ t.announce = 0
    BY <1>1 DEF Timers
  <2> HIDE DEF t
  <2>3. timer'[p] = t /\ \A q \in Players : q # p => timer'[q] = timer[q]
    BY <2>1 DEF LinkType
  <2>4. SendStatus(p) => timer'[p].announce = timer[p].announce
    <3>1. SendStatus(p) => timer' = [timer EXCEPT ![p].status = 0, ![p].flags = Flags(link[p])]
      BY SendsStatus
    <3> DEFINE f == Flags(link[p])
               u == [timer[p] EXCEPT !.status = 0, !.flags = f]
    <3>2. SendStatus(p) => timer' = [timer EXCEPT ![p] = u]
      BY <3>1 DEF LinkType
    <3> HIDE DEF f
    <3>3. u.announce = timer[p].announce
      BY <1>1 DEF Timers
    <3> HIDE DEF u
    <3> QED  BY <3>2, <3>3 DEF LinkType
  <2> QED  BY <2>2, <2>3, <2>4
<1> QED  BY <1>2, <1>3

\* A deck on its own with the role goes on so: nobody hears it, and it hears nobody.
LEMMA AloneStays ==
  ASSUME LinkType, NEW p \in Players, NEW q \in Players, p # q, Players = {p, q},
         Alone(p, q), Stays
  PROVE  Alone(p, q)' /\ Newer
<1>1. on' = on
  BY StaysOn
<1>2. SUFFICES /\ link'[q] = link[q] /\ timer'[q] = timer[q] /\ beatPort' = {}
               /\ Alike(link[p], link'[p]) /\ \A a, b \in Players : status'[a][b] = <<>>
  BY <1>1 DEF Alone, Newer, Alike, Fresh
<1>3. Alike(link[p], link[p])
  BY DEF Alike
<1>4. ASSUME NEW a \in Players, on[a] PROVE a = p
  BY <1>4 DEF Alone
<1>5. link[p].masterPlayer = None /\ link[p].master /\ link[p].peers = {}
      /\ beatPort = {} /\ (\A a, b \in Players : status[a][b] = <<>>) /\ ~on[q]
  BY DEF Alone
<1> DEFINE Kept == /\ link'[q] = link[q] /\ timer'[q] = timer[q] /\ beatPort' = {}
                   /\ Alike(link[p], link'[p]) /\ \A a, b \in Players : status'[a][b] = <<>>
<1>6. ASSUME NEW a \in Players, Keys(a) PROVE Kept
  BY <1>4, <1>5, <1>6, KeysPress
<1>7. ASSUME NEW a \in Players PROVE ~ForgetMaster(a) /\ ~TakeUnclaimed(a) /\ ~RequestMaster(a)
  BY <1>4, <1>5 DEF ForgetMaster, Silent, TakeUnclaimed, Unclaimed, RequestMaster, Asking, Wanting
<1>8. ASSUME NEW a \in Players, SendStatus(a) PROVE Kept
  <2>1. a = p /\ UNCHANGED <<link, beatPort>>
    BY <1>4, <1>8 DEF SendStatus, StatusDue
  <2>2. \A b, c \in Players : status'[b][c] = status[b][c]
    BY <1>5, <1>8, <2>1, SendsStatus
  <2> QED  BY <1>3, <1>5, <1>8, <2>1, <2>2, SendersClocks
<1>9. ASSUME NEW a \in Players, Announce(a) PROVE Kept
  <2>1. a = p /\ UNCHANGED <<link, status>>
    BY <1>4, <1>9 DEF Announce, AnnounceDue
  <2>2. {r \in Beside(p) : on[r] /\ p \notin link[r].peers} = {}
    BY <1>5 DEF Beside
  <2>3. beatPort' = {}
    BY <1>5, <1>9, <2>1, <2>2 DEF Announce
  <2> QED  BY <1>3, <1>5, <1>9, <2>1, <2>3, SendersClocks
<1>10. ~Listeners
  BY <1>5 DEF Listeners, HearStatus
<1>11. ~LosePacket
  BY <1>5 DEF LosePacket
<1>12. CASE Tick
  <2>1. timer'[q] = timer[q] /\ UNCHANGED <<link, beatPort, status>>
    BY <1>5, <1>12 DEF Tick
  <2> QED  BY <1>3, <1>5, <2>1
<1>13. CASE UNCHANGED vars
  BY <1>3, <1>5, <1>13 DEF vars
<1> QED  BY <1>6, <1>7, <1>8, <1>9, <1>10, <1>11, <1>12, <1>13 DEF Stays, Runs, Sender

\* The deck that was off is switched on, and has heard nothing yet.
LEMMA AloneMeets ==
  ASSUME LinkType, NEW p \in Players, NEW q \in Players, p # q, Players = {p, q},
         Alone(p, q), SwitchOn(q)
  PROVE  Meeting(p, q)' /\ Newer /\ spent'.power = spent.power + 1
<1>1. /\ UNCHANGED <<link, timer, beatPort, status>> /\ on'[q] /\ on'[p]
      /\ spent'.power = spent.power + 1 /\ spent'.lost = spent.lost
  BY DEF SwitchOn, Spend, LinkType, Alone
<1>2. \A a, b \in Players : status[a][b] = <<>> /\ Len(status[a][b]) = 0
  BY EmptySeq DEF Alone
<1>3. /\ link[p].master /\ link[p].sendFull /\ link[p].handoffTo = None
      /\ link[p].masterPlayer = None /\ link[p].peers = {} /\ beatPort = {}
  BY DEF Alone
<1>4. ~link[q].master /\ link[q].handoffTo = None /\ link[q].masterPlayer = None /\ link[q].peers = {}
  BY DEF Alone, Fresh
<1>5. AnnounceEvery \in Nat /\ timer[q].announce = AnnounceEvery /\ timer[q].want = 0
  BY LinkAssumption DEF Alone, Started
<1>6. spent.lost * AnnounceEvery \in Nat
  <2>1. spent.lost \in Nat
    BY DEF LinkType
  <2> QED  BY <1>5, <2>1
<1>7. Waited(p, q)'
  <2> DEFINE n == spent.lost * AnnounceEvery
  <2>1. n \in Nat
    BY <1>6
  <2> HIDE DEF n
  <2>2. timer[q].want + AnnounceEvery <= n + timer[q].announce
    BY <1>5, <2>1
  <2> QED  BY <1>1, <1>3, <2>2 DEF Waited, n
<1>8. /\ \A a \in Players : /\ on'[a] /\ link'[a].handoffTo = None /\ link'[a].masterPlayer = None
                            /\ a \notin link'[a].peers
      /\ \A a, b \in Players : status'[a][b] = <<>> /\ Len(status'[a][b]) = 0
      /\ link'[p].master /\ link'[p].sendFull /\ ~link'[q].master /\ beatPort' = {}
  BY <1>1, <1>2, <1>3, <1>4
<1>9. timer'[q].announce <= AnnounceEvery
  BY <1>1, <1>5
<1>10. Meeting(p, q)'
  BY <1>7, <1>8, <1>9 DEF Meeting, Told
<1> QED  BY <1>1, <1>10 DEF Newer

\* What one more lost packet costs.
LEMMA OneMoreCosts ==
  ASSUME NEW k \in Nat, NEW c \in Nat
  PROVE  /\ k * c \in Nat /\ (k + 1) * c = k * c + c
         /\ \A m \in Nat : k <= m => k * c <= m * c
<1>1. k * c \in Nat /\ (k + 1) * c = k * c + c
  OBVIOUS
<1>2. ASSUME NEW m \in Nat, k <= m PROVE k * c <= m * c
  <2>1. m - k \in Nat /\ (m - k) * c = m * c - k * c
    BY <1>2
  <2>2. (m - k) * c \in Nat
    BY <2>1
  <2> QED  BY <1>1, <2>1, <2>2
<1> QED  BY <1>1, <1>2

\* A queue that tells of no role goes on so while its sender has none.
LEMMA NoMasterOn ==
  ASSUME LinkType, NEW p \in Players, NEW q \in Players, Queue(p, q), ~link[p].master,
         \A i \in 1 .. Len(status[p][q]) : ~status[p][q][i].master
  PROVE  \A i \in 1 .. Len(status'[p][q]) : ~status'[p][q][i].master
<1>1. status[p][q] \in Seq(StatusPackets) /\ link[p] \in LinkState
  BY DEF LinkType
<1>2. CASE status'[p][q] = status[p][q]
  BY <1>2
<1>3. CASE status[p][q] # <<>> /\ status'[p][q] = Tail(status[p][q])
  BY <1>1, <1>3, QueueLess
<1>4. CASE status'[p][q] = Append(status[p][q], Telling(p))
  <2>1. Telling(p) \in StatusPackets /\ ~Telling(p).master
    BY <1>1 DEF Telling, StatusPackets, LinkState
  <2>2. \A i \in 1 .. Len(status'[p][q]) : i = Len(status[p][q]) + 1 \/ i \in 1 .. Len(status[p][q])
    BY <1>1, <1>4, <2>1, QueueMore
  <2> QED  BY <1>1, <1>4, <2>1, <2>2, QueueMore
<1> QED  BY <1>2, <1>3, <1>4 DEF Queue

\* Decks go on meeting while no status of the master is heard and none of them waits
\* for longer than losses account for.
LEMMA MeetingKept ==
  ASSUME LinkType, NEW p \in Players, NEW q \in Players, p # q, Players = {p, q},
         Meeting(p, q), on' = on,
         \A a \in Players :
           /\ link'[a].master = link[a].master /\ link'[a].handoffTo = link[a].handoffTo
           /\ link'[a].masterPlayer = link[a].masterPlayer /\ link'[a].ourSync = link[a].ourSync
           /\ a \notin link'[a].peers /\ (link[a].sendFull => link'[a].sendFull),
         \A m \in beatPort' : m.kind = "announce" /\ m.from # m.to,
         \A a, b \in Players : status'[b][a] # <<>> => Reached(b, a)',
         Queue(p, q), Queue(q, p),
         timer'[q].announce <= AnnounceEvery, Waited(p, q)'
  PROVE  Meeting(p, q)' /\ Newer
<1>1. Told(status'[p][q], 1, link'[p], q)
  <2>1. Told(status[p][q], 1, link[p], q) /\ link[p].master
    BY DEF Meeting
  <2> QED  BY <2>1, ToldOn
<1>2. \A i \in 1 .. Len(status'[q][p]) : ~status'[q][p][i].master
  BY NoMasterOn DEF Meeting
<1>3. \A a \in Players : /\ on'[a] /\ link'[a].handoffTo = None /\ link'[a].masterPlayer = None
                         /\ a \notin link'[a].peers
  BY DEF Meeting
<1>4. link'[p].master /\ link'[p].sendFull /\ ~link'[q].master
  BY DEF Meeting
<1>5. Meeting(p, q)'
  BY <1>1, <1>2, <1>3, <1>4 DEF Meeting, Told
<1> QED  BY <1>5 DEF Newer

\* Nobody who meets gives up on a master, claims a role or asks for it.
LEMMA MeetingClaimsNothing ==
  ASSUME TwoDecks, LinkType, NEW p \in Players, NEW q \in Players, p # q, Players = {p, q},
         Meeting(p, q), Absent # {}, NEW a \in Players
  PROVE  ~ForgetMaster(a) /\ ~TakeUnclaimed(a) /\ ~RequestMaster(a)
<1>1. /\ None \notin Players /\ AnnounceEvery \in Nat \ {0} /\ WantWait \in Nat
      /\ MaxLosses \in Nat /\ MaxLosses * AnnounceEvery + 1 < WantWait
  BY LinkAssumption DEF TwoDecks
<1>2. link[a].masterPlayer = None /\ link[a].peers \subseteq Players
  BY DEF Meeting, LinkType, LinkState
<1>3. ~ForgetMaster(a) /\ ~RequestMaster(a)
  BY <1>1, <1>2 DEF ForgetMaster, Silent, RequestMaster, Asking
<1>4. timer[q].want < WantWait
  <2> DEFINE n == spent.lost * AnnounceEvery
  <2>1. /\ spent.lost \in Nat /\ spent.lost <= MaxLosses
        /\ timer[q].want \in Nat /\ timer[q].announce \in Nat
    BY DEF LinkType, Timers
  <2>2. n \in Nat /\ n <= MaxLosses * AnnounceEvery /\ MaxLosses * AnnounceEvery \in Nat
    BY <1>1, <2>1, OneMoreCosts
  <2>3. timer[q].announce <= AnnounceEvery /\ Waited(p, q)
    BY DEF Meeting
  <2>4. \/ timer[q].want <= n + Owed(p, q) \/ timer[q].want <= n
        \/ timer[q].want + AnnounceEvery <= n + timer[q].announce
    BY <2>3 DEF Waited
  <2>5. Owed(p, q) \in {0, 1}
    BY DEF Owed
  <2> HIDE DEF n
  <2>6. timer[q].want <= n + 1
    BY <1>1, <2>1, <2>2, <2>3, <2>4, <2>5
  <2> QED  BY <1>1, <2>1, <2>2, <2>6
<1>5. ~TakeUnclaimed(a)
  <2>1. timer[q].want \in Nat
    BY DEF LinkType, Timers
  <2>2. a = p \/ a = q
    OBVIOUS
  <2> QED  BY <1>1, <1>4, <2>1, <2>2 DEF TakeUnclaimed, Unclaimed, Wanting, Meeting
<1> QED  BY <1>3, <1>5

\* What every step that leaves the records alone leaves of a meeting.
LEMMA MeetingSame ==
  ASSUME NEW p \in Players, NEW q \in Players, Meeting(p, q), link' = link
  PROVE  \A a \in Players :
           /\ link'[a].master = link[a].master /\ link'[a].handoffTo = link[a].handoffTo
           /\ link'[a].masterPlayer = link[a].masterPlayer /\ link'[a].ourSync = link[a].ourSync
           /\ a \notin link'[a].peers /\ (link[a].sendFull => link'[a].sendFull)
BY DEF Meeting

\* A key or a control.
LEMMA MeetingKeys ==
  ASSUME LinkType, NEW p \in Players, NEW q \in Players, p # q, Players = {p, q},
         Meeting(p, q), NEW a \in Players, Keys(a)
  PROVE  Meeting(p, q)' /\ Newer
<1>1. /\ UNCHANGED <<on, timer, beatPort, status>> /\ spent'.lost = spent.lost
      /\ \A b \in Players :
           /\ link'[b].master = link[b].master /\ link'[b].handoffTo = link[b].handoffTo
           /\ link'[b].masterPlayer = link[b].masterPlayer /\ link'[b].ourSync = link[b].ourSync
           /\ link'[b].peers = link[b].peers /\ (link[b].sendFull => link'[b].sendFull)
  BY KeysPress DEF Alike
<1>2. Waited(p, q)' /\ timer'[q].announce <= AnnounceEvery
  BY <1>1 DEF Meeting, Waited, Owed
<1>3. \A b, c \in Players : status'[c][b] # <<>> => Reached(c, b)'
  BY <1>1 DEF Meeting, Reached
<1>4. Queue(p, q) /\ Queue(q, p)
  BY <1>1 DEF Queue
<1>5. /\ \A b \in Players : b \notin link'[b].peers
      /\ \A m \in beatPort' : m.kind = "announce" /\ m.from # m.to
  BY <1>1 DEF Meeting
<1> QED  BY <1>1, <1>2, <1>3, <1>4, <1>5, MeetingKept

\* A status sent.
LEMMA MeetingSends ==
  ASSUME LinkType, NEW p \in Players, NEW q \in Players, p # q, Players = {p, q},
         Meeting(p, q), NEW a \in Players, SendStatus(a)
  PROVE  Meeting(p, q)' /\ Newer
<1>1. /\ link[a].sendFull /\ UNCHANGED <<on, link, beatPort, spent>> /\ Telling(a) \in StatusPackets
      /\ \A b, c \in Players :
           status'[b][c] = IF b = a /\ c \in link[a].peers /\ on[c]
                           THEN Append(status[b][c], Telling(a)) ELSE status[b][c]
  BY SendsStatus DEF Telling
<1>2. \A b \in Players : on[b] /\ link[b].handoffTo = None /\ b \notin link[b].peers
  BY DEF Meeting
<1>3. Queue(p, q) /\ Queue(q, p)
  BY <1>1, <1>2 DEF Queue
<1>4. ASSUME NEW b \in Players, NEW c \in Players, status'[c][b] # <<>> PROVE Reached(c, b)'
  <2>1. CASE status'[c][b] = status[c][b]
    BY <1>1, <1>4, <2>1 DEF Meeting, Reached
  <2>2. CASE c = a /\ b \in link[a].peers
    BY <1>1, <1>2, <2>2 DEF Reached
  <2> QED  BY <1>1, <2>1, <2>2
<1>5. timer'[q].want = timer[q].want /\ timer'[q].announce = timer[q].announce
  BY SendersClocks
<1>6. q \in link[p].peers => Owed(p, q) <= Owed(p, q)'
  <2> SUFFICES ASSUME q \in link[p].peers PROVE Owed(p, q) <= Owed(p, q)'
    OBVIOUS
  <2>1. CASE a = p
    <3>1. status'[p][q] = Append(status[p][q], Telling(p)) /\ status[p][q] \in Seq(StatusPackets)
      <4>1. status[p][q] \in Seq(StatusPackets)
        BY DEF LinkType
      <4>2. on[q] /\ p = a /\ q \in link[a].peers
        BY <1>2, <2>1
      <4>3. status'[p][q] = Append(status[p][q], Telling(a))
        BY <1>1, <4>2
      <4> QED  BY <2>1, <4>1, <4>3
    <3>2. status'[p][q] # <<>>
      BY <1>1, <2>1, <3>1, QueueMore
    <3> QED  BY <3>2 DEF Owed
  <2>2. CASE a # p
    BY <1>1, <2>2, SendersClocks DEF Owed
  <2> QED  BY <2>1, <2>2
<1>7. Waited(p, q)'
  <2> DEFINE n == spent.lost * AnnounceEvery
  <2>1. n \in Nat /\ timer[q].want \in Nat
    BY OneMoreCosts, LinkAssumption DEF LinkType, Timers
  <2>2. Waited(p, q) /\ Owed(p, q) \in {0, 1} /\ Owed(p, q)' \in {0, 1}
    BY DEF Meeting, Owed
  <2>3. CASE q \in link[p].peers
    <3>1. timer[q].want <= n + Owed(p, q)
      BY <2>2, <2>3 DEF Waited
    <3> HIDE DEF n
    <3>2. timer'[q].want <= n + Owed(p, q)'
      BY <1>5, <1>6, <2>1, <2>2, <2>3, <3>1
    <3> QED  BY <1>1, <2>3, <3>2 DEF Waited, n
  <2>4. CASE q \notin link[p].peers
    BY <1>1, <1>5, <2>2, <2>4 DEF Waited
  <2> QED  BY <2>3, <2>4
<1>8. timer'[q].announce <= AnnounceEvery /\ \A m \in beatPort' : m.kind = "announce" /\ m.from # m.to
  BY <1>1, <1>5 DEF Meeting
<1> QED  BY <1>1, <1>3, <1>4, <1>7, <1>8, MeetingSame, MeetingKept

\* An announce: the newcomer's is under way, and it waits from there.
LEMMA MeetingAnnounces ==
  ASSUME LinkType, NEW p \in Players, NEW q \in Players, p # q, Players = {p, q},
         Meeting(p, q), NEW a \in Players, Announce(a)
  PROVE  Meeting(p, q)' /\ Newer
<1> DEFINE ours == [kind |-> "announce", from |-> q, to |-> p]
           n    == spent.lost * AnnounceEvery
<1>1. /\ UNCHANGED <<on, link, status, spent>>
      /\ beatPort' = beatPort \cup
           {[kind |-> "announce", from |-> a, to |-> r] :
              r \in {s \in Beside(a) : on[s] /\ a \notin link[s].peers}}
  BY DEF Announce
<1>2. \A m \in beatPort' : m.kind = "announce" /\ m.from # m.to
  BY <1>1 DEF Meeting, Beside
<1>3. /\ n \in Nat /\ timer[q].want \in Nat /\ timer[q].announce \in Nat /\ AnnounceEvery \in Nat
      /\ timer[q].announce <= AnnounceEvery /\ Waited(p, q) /\ on[p]
  BY OneMoreCosts, LinkAssumption DEF LinkType, Timers, Meeting
<1>4. CASE a = p
  <2>1. timer'[q] = timer[q] /\ timer'[p].status = timer[p].status
    BY <1>4, SendersClocks
  <2>2. ours \in beatPort' => ours \in beatPort
    BY <1>1, <1>4
  <2>3. Waited(p, q)'
    BY <1>1, <1>3, <2>1, <2>2 DEF Waited, Owed
  <2>4. Queue(p, q) /\ Queue(q, p) /\ \A b, c \in Players : status'[c][b] # <<>> => Reached(c, b)'
    BY <1>1 DEF Queue, Meeting, Reached
  <2> QED  BY <1>1, <1>2, <1>3, <2>1, <2>3, <2>4, MeetingSame, MeetingKept
<1>5. CASE a = q
  <2>1. timer'[q].want = timer[q].want /\ timer'[q].announce = 0 /\ timer'[p] = timer[p]
    BY <1>5, SendersClocks
  <2>2. q \notin link[p].peers => ours \in beatPort'
    BY <1>1, <1>3, <1>5 DEF Beside
  <2>3. q \in link[p].peers => timer[q].want <= n + Owed(p, q)
    BY <1>3 DEF Waited
  <2>4. q \notin link[p].peers => timer[q].want <= n
    <3>1. q \notin link[p].peers =>
            timer[q].want <= n \/ timer[q].want + AnnounceEvery <= n + timer[q].announce
      BY <1>3 DEF Waited
    <3> HIDE DEF n
    <3> QED  BY <1>3, <3>1
  <2>5. Owed(p, q)' = Owed(p, q)
    BY <1>1, <2>1 DEF Owed
  <2>6. Waited(p, q)'
    BY <1>1, <2>1, <2>2, <2>3, <2>4, <2>5 DEF Waited
  <2>7. Queue(p, q) /\ Queue(q, p) /\ \A b, c \in Players : status'[c][b] # <<>> => Reached(c, b)'
    BY <1>1 DEF Queue, Meeting, Reached
  <2>8. timer'[q].announce <= AnnounceEvery
    BY <1>3, <2>1
  <2> QED  BY <1>1, <1>2, <2>6, <2>7, <2>8, MeetingSame, MeetingKept
<1> QED  BY <1>4, <1>5

\* An announce heard: its sender is known, and is sent to.
LEMMA MeetingHearsPort ==
  ASSUME LinkType, NEW p \in Players, NEW q \in Players, p # q, Players = {p, q},
         Meeting(p, q), NEW m \in beatPort, Hear(m)
  PROVE  Meeting(p, q)' /\ Newer
<1> DEFINE l == [link[m.to] EXCEPT !.peers = link[m.to].peers \cup {m.from}]
           n == spent.lost * AnnounceEvery
<1>1. /\ m \in Packet /\ m.kind = "announce" /\ m.from # m.to
      /\ m.from \in Players /\ m.to \in Players /\ link[m.to] \in LinkState
  BY DEF LinkType, Packet, Meeting
<1>2. /\ link' = [link EXCEPT ![m.to] = l] /\ beatPort' = beatPort \ {m}
      /\ UNCHANGED <<on, timer, status, spent>>
  BY <1>1 DEF Hear, HearAnnounce, HearRequest, HearAgree, LinkType
<1>3. /\ l.master = link[m.to].master /\ l.handoffTo = link[m.to].handoffTo
      /\ l.masterPlayer = link[m.to].masterPlayer /\ l.ourSync = link[m.to].ourSync
      /\ l.sendFull = link[m.to].sendFull /\ l.peers = link[m.to].peers \cup {m.from}
  BY <1>1 DEF LinkState
<1> HIDE DEF l
<1>4. link'[m.to] = l /\ \A a \in Players : a # m.to => link'[a] = link[a]
  BY <1>1, <1>2, LinkAt
<1>5. \A a \in Players :
        /\ link'[a].master = link[a].master /\ link'[a].handoffTo = link[a].handoffTo
        /\ link'[a].masterPlayer = link[a].masterPlayer /\ link'[a].ourSync = link[a].ourSync
        /\ link'[a].sendFull = link[a].sendFull /\ link[a].peers \subseteq link'[a].peers
        /\ a \notin link'[a].peers
  BY <1>1, <1>3, <1>4 DEF Meeting
<1>6. Waited(p, q)'
  <2>1. Waited(p, q) /\ Owed(p, q)' = Owed(p, q) /\ Owed(p, q) \in {0, 1}
    BY <1>2 DEF Meeting, Owed
  <2>2. n \in Nat /\ timer[q].want \in Nat
    BY OneMoreCosts, LinkAssumption DEF LinkType, Timers
  <2>3. CASE q \in link[p].peers
    BY <1>2, <1>5, <2>1, <2>3 DEF Waited
  <2>4. CASE q \notin link[p].peers /\ m.to = p
    <3>1. m.from = q
      BY <1>1, <2>4
    <3>2. m = [kind |-> "announce", from |-> q, to |-> p]
      BY <1>1, <2>4, <3>1 DEF Packet
    <3>3. timer[q].want <= n
      BY <2>1, <2>4, <3>2 DEF Waited
    <3>4. q \in link'[p].peers
      BY <1>3, <1>4, <2>4, <3>1
    <3> HIDE DEF n
    <3>5. timer'[q].want <= n + Owed(p, q)'
      BY <1>2, <2>1, <2>2, <3>3
    <3> QED  BY <1>2, <3>4, <3>5 DEF Waited, n
  <2>5. CASE q \notin link[p].peers /\ m.to = q
    <3>1. link'[p] = link[p]
      BY <1>4, <2>5
    <3>2. m # [kind |-> "announce", from |-> q, to |-> p]
      BY <2>5
    <3>3. [kind |-> "announce", from |-> q, to |-> p] \in beatPort' <=>
            [kind |-> "announce", from |-> q, to |-> p] \in beatPort
      BY <1>2, <3>2
    <3> QED  BY <1>2, <2>1, <2>5, <3>1, <3>3 DEF Waited
  <2> QED  BY <1>1, <2>3, <2>4, <2>5
<1>7. \A b, c \in Players : status'[c][b] # <<>> => Reached(c, b)'
  BY <1>2, <1>5 DEF Meeting, Reached
<1>8. Queue(p, q) /\ Queue(q, p)
  BY <1>2 DEF Queue
<1>9. timer'[q].announce <= AnnounceEvery /\ \A x \in beatPort' : x.kind = "announce" /\ x.from # x.to
  BY <1>2 DEF Meeting
<1> QED  BY <1>2, <1>5, <1>6, <1>7, <1>8, <1>9, MeetingKept

\* The newcomer hears the master, and knows; the master learns nothing from it.
LEMMA MeetingHears ==
  ASSUME LinkType, LinkType', NEW p \in Players, NEW q \in Players, p # q, Players = {p, q},
         Meeting(p, q), NEW a \in Players, NEW b \in Players, HearStatus(b, a)
  PROVE  (Meeting(p, q)' \/ (Roles' /\ Steady')) /\ Newer
<1> DEFINE x == status[b][a][1]
<1>1. /\ status[b][a] # <<>> /\ x \in StatusPackets /\ status' = [status EXCEPT ![b][a] = Tail(@)]
      /\ UNCHANGED <<on, beatPort, spent>> /\ \A c \in Players : c # a => link'[c] = link[c]
      /\ link'[a].sendFull = link[a].sendFull /\ link'[a].peers = link[a].peers
      /\ timer' = [timer EXCEPT ![a].seen =
                     IF x.master \/ link[a].masterPlayer = b THEN 0 ELSE @]
  BY HearsStatus
<1>2. Reached(b, a)
  BY <1>1 DEF Meeting
<1>3. /\ status'[b][a] = Tail(status[b][a])
      /\ \A c, d \in Players : c # b \/ d # a => status'[c][d] = status[c][d]
  <2>1. status[b][a] # <<>> /\ status' = [status EXCEPT ![b][a] = Tail(@)]
    BY <1>1
  <2>2. status'[b][a] = Tail(status[b][a])
    BY <2>1 DEF LinkType
  <2>3. \A c, d \in Players : c # b \/ d # a => status'[c][d] = status[c][d]
    BY <2>1, StatusLess
  <2> QED  BY <2>2, <2>3
<1>4. Queue(p, q) /\ Queue(q, p)
  BY <1>1, <1>3 DEF Queue
<1>5. \A c, d \in Players : status'[d][c] # <<>> => Reached(d, c)'
  <2>1. \A c, d \in Players : status'[d][c] # <<>> => Reached(d, c)
    BY <1>1, <1>2, <1>3 DEF Meeting
  <2> QED  BY <1>1, <2>1 DEF Reached
<1>6. 1 \in 1 .. Len(status[b][a])
  <2>1. status[b][a] \in Seq(StatusPackets)
    BY DEF LinkType
  <2> QED  BY <1>1, <2>1, QueueLess
<1>7. \A c \in Players : /\ link[c].handoffTo = None /\ link[c].masterPlayer = None
                         /\ c \notin link[c].peers /\ on[c]
  BY DEF Meeting
<1>8. None \notin Players
  BY LinkAssumption
<1> DEFINE s == IF x.master \/ link[a].masterPlayer = b THEN 0 ELSE timer[a].seen
<1>9. /\ \A c \in Players : /\ timer'[c].status = timer[c].status /\ timer'[c].want = timer[c].want
                            /\ timer'[c].announce = timer[c].announce
      /\ timer'[a].seen = s
  <2>1. timer' = [timer EXCEPT ![a].seen = s]
    BY <1>1 DEF LinkType, Timers
  <2> HIDE DEF s, x
  <2> DEFINE t == [timer[a] EXCEPT !.seen = s]
  <2>2. t.status = timer[a].status /\ t.want = timer[a].want /\ t.announce = timer[a].announce
        /\ t.seen = s
    BY DEF LinkType, Timers
  <2>3. timer' = [timer EXCEPT ![a] = t]
    BY <2>1
  <2> HIDE DEF t
  <2>4. timer'[a] = t /\ \A c \in Players : c # a => timer'[c] = timer[c]
    BY <2>3 DEF LinkType
  <2> QED  BY <2>2, <2>4
<1>10. CASE a = p
  <2>1. b = q /\ ~x.master
    BY <1>2, <1>6, <1>10 DEF Reached, Meeting
  <2>2. /\ link'[p].master = link[p].master /\ link'[p].handoffTo = link[p].handoffTo
        /\ link'[p].ourSync = link[p].ourSync /\ link'[p].masterPlayer = None
    BY <1>7, <1>10, <2>1, HearsStatus
  <2>3. Waited(p, q)'
    <3>1. status'[p][q] = status[p][q]
      BY <1>3, <1>10
    <3> QED  BY <1>1, <1>9, <1>10, <3>1 DEF Meeting, Waited, Owed
  <2>4. timer'[q].announce <= AnnounceEvery
        /\ \A m \in beatPort' : m.kind = "announce" /\ m.from # m.to
    BY <1>1, <1>9 DEF Meeting
  <2>5. \A c \in Players :
          /\ link'[c].master = link[c].master /\ link'[c].handoffTo = link[c].handoffTo
          /\ link'[c].masterPlayer = link[c].masterPlayer /\ link'[c].ourSync = link[c].ourSync
          /\ c \notin link'[c].peers /\ (link[c].sendFull => link'[c].sendFull)
    BY <1>1, <1>7, <1>10, <2>2
  <2> QED  BY <1>1, <1>4, <1>5, <2>3, <2>4, <2>5, MeetingKept
<1>11. CASE a = q
  <2>1. b = p /\ x.master /\ x.handoff # q
    <3>1. b = p
      BY <1>2, <1>11 DEF Reached
    <3>2. x.master /\ (x.handoff = q => link[p].handoffTo = q)
      BY <1>6, <1>11, <3>1 DEF Meeting, Told
    <3> QED  BY <1>7, <1>8, <3>1, <3>2
  <2>2. link[p].master /\ ~link[q].master /\ Told(status[p][q], 1, link[p], q)
        /\ \A i \in 1 .. Len(status[q][p]) : ~status[q][p][i].master
    BY DEF Meeting
  <2>3. ~link'[q].master /\ link'[q].handoffTo = None /\ link'[q].masterPlayer = p
    BY <1>7, <1>11, <2>1, <2>2, HearsStatus
  <2>4. link'[p] = link[p]
    BY <1>1, <1>11
  <2>5. Told(status'[p][q], 1, link'[p], q)
    BY <1>4, <2>2, <2>4, ToldOn
  <2>6. \A i \in 1 .. Len(status'[q][p]) : ~Claims(status'[q][p][i], p)
    BY <1>4, <2>2, NoMasterOn DEF Claims
  <2>7. Solo(p, q)'
    BY <2>2, <2>3, <2>4, <2>5, <2>6 DEF Solo, Told, Claims
  <2>8. Steady'
    <3>1. timer'[q].seen = 0
      BY <1>9, <1>11, <2>1
    <3>2. Reached(p, q)'
      BY <1>1, <1>2, <1>11, <2>1 DEF Reached
    <3>3. \A c, d \in Players : link'[c].masterPlayer = d => c = q /\ d = p
      BY <1>7, <1>8, <2>3, <2>4
    <3>4. spent'.lost \in Nat /\ Owed(p, q)' \in {0, 1}
      BY <1>1 DEF LinkType, Owed
    <3>5. timer'[q].seen <= spent'.lost + Owed(p, q)'
      BY <3>1, <3>4
    <3>6. \A c \in Players : on'[c] /\ link'[c].handoffTo # c /\ c \notin link'[c].peers
      BY <1>1, <1>7, <1>8, <1>11, <2>3, <2>4
    <3>7. \A m \in beatPort' : m.from # m.to
      BY <1>1 DEF Meeting
    <3> QED  BY <1>5, <3>2, <3>3, <3>5, <3>6, <3>7 DEF Steady
  <2>9. Newer
    BY <2>2, <2>3, <2>4 DEF Newer
  <2> QED  BY <2>7, <2>8, <2>9 DEF Roles
<1> QED  BY <1>10, <1>11

\* A packet lost: the next announce or status is at most an announce period away.
LEMMA MeetingLoses ==
  ASSUME LinkType, NEW p \in Players, NEW q \in Players, p # q, Players = {p, q},
         Meeting(p, q), LosePacket
  PROVE  Meeting(p, q)' /\ Newer
<1> DEFINE n == spent.lost * AnnounceEvery
           m == spent'.lost * AnnounceEvery
<1>1. UNCHANGED <<on, link, timer>> /\ spent'.lost = spent.lost + 1 /\ spent.lost \in Nat
  BY DEF LosePacket, Spend, LinkType
<1>2. AnnounceEvery \in Nat \ {0} /\ n \in Nat /\ m = n + AnnounceEvery
  BY <1>1, OneMoreCosts, LinkAssumption
<1>3. beatPort' \subseteq beatPort
  BY DEF LosePacket
<1>4. /\ Queue(p, q) /\ Queue(q, p)
      /\ \A b, c \in Players : status'[c][b] # <<>> => status[c][b] # <<>>
  <2>1. CASE status' = status
    BY <2>1 DEF Queue
  <2>2. ASSUME NEW a \in Players, NEW b \in Players, status[a][b] # <<>>,
               status' = [status EXCEPT ![a][b] = Tail(@)]
        PROVE  /\ Queue(p, q) /\ Queue(q, p)
               /\ \A c, d \in Players : status'[d][c] # <<>> => status[d][c] # <<>>
    <3>1. \A c, d \in Players : c # a \/ d # b => status'[c][d] = status[c][d]
      BY <2>2, StatusLess
    <3>2. status'[a][b] = Tail(status[a][b])
      BY <2>2 DEF LinkType
    <3> QED  BY <2>2, <3>1, <3>2 DEF Queue
  <2> QED  BY <2>1, <2>2 DEF LosePacket
<1>5. Waited(p, q)'
  <2>1. /\ timer[q].want \in Nat /\ timer[q].announce \in Nat
        /\ Owed(p, q) \in {0, 1} /\ Owed(p, q)' \in {0, 1} /\ Waited(p, q)
    BY DEF LinkType, Timers, Meeting, Owed
  <2>2. CASE q \in link[p].peers
    <3>1. timer[q].want <= n + Owed(p, q)
      BY <2>1, <2>2 DEF Waited
    <3> HIDE DEF n, m
    <3>2. timer[q].want <= m + Owed(p, q)'
      BY <1>2, <2>1, <3>1
    <3> QED  BY <1>1, <2>2, <3>2 DEF Waited, m
  <2>3. CASE q \notin link[p].peers
    <3>1. timer[q].want <= n \/ timer[q].want + AnnounceEvery <= n + timer[q].announce
      BY <2>1, <2>3 DEF Waited
    <3>2. [kind |-> "announce", from |-> q, to |-> p] \in beatPort' => timer[q].want <= n
      BY <1>3, <2>1, <2>3 DEF Waited
    <3> HIDE DEF n, m
    <3>3. timer[q].want + AnnounceEvery <= m + timer[q].announce
      BY <1>2, <2>1, <3>1
    <3>4. [kind |-> "announce", from |-> q, to |-> p] \in beatPort' => timer[q].want <= m
      BY <1>2, <2>1, <3>2
    <3> QED  BY <1>1, <2>3, <3>3, <3>4 DEF Waited, m
  <2> QED  BY <2>2, <2>3
<1>6. \A b, c \in Players : status'[c][b] # <<>> => Reached(c, b)'
  BY <1>1, <1>4 DEF Meeting, Reached
<1>7. timer'[q].announce <= AnnounceEvery /\ \A x \in beatPort' : x.kind = "announce" /\ x.from # x.to
  BY <1>1, <1>3 DEF Meeting
<1> QED  BY <1>1, <1>4, <1>5, <1>6, <1>7, MeetingSame, MeetingKept

\* A tick: all that was under way has come, so the next announce or status is nearer
\* by as much as the newcomer has waited longer.
LEMMA MeetingTicks ==
  ASSUME LinkType, NEW p \in Players, NEW q \in Players, p # q, Players = {p, q},
         Meeting(p, q), Tick
  PROVE  Meeting(p, q)' /\ Newer
<1> DEFINE n == spent.lost * AnnounceEvery
<1>1. /\ UNCHANGED <<on, link, beatPort, status, spent>> /\ beatPort = {}
      /\ \A a, b \in Players : status[a][b] = <<>>
      /\ \A a \in Players : ~StatusDue(a) /\ ~AnnounceDue(a)
      /\ on[p] /\ on[q] /\ link[p].sendFull
  BY DEF Tick, Settled, Meeting
<1>2. /\ AnnounceEvery \in Nat /\ WantWait \in Nat /\ n \in Nat
      /\ timer[q].want \in Nat /\ timer[q].announce \in Nat
  BY OneMoreCosts, LinkAssumption DEF LinkType, Timers
<1>3. ASSUME NEW a \in Players, on[a]
      PROVE  /\ timer'[a].want = IF Wanting(link[a]) THEN Older(timer[a].want, WantWait) ELSE 0
             /\ timer'[a].announce = Older(timer[a].announce, AnnounceEvery)
             /\ timer'[a].status = 1
  BY <1>3 DEF Tick, LinkType, Timers
<1>4. timer[q].announce < AnnounceEvery
  BY <1>1, <1>2 DEF AnnounceDue
<1>5. /\ timer'[q].announce = timer[q].announce + 1 /\ timer'[q].announce <= AnnounceEvery
      /\ timer'[q].want \in Nat /\ timer'[q].want <= timer[q].want + 1
  <2> HIDE DEF n
  <2>1. timer'[q].announce = Older(timer[q].announce, AnnounceEvery)
        /\ timer'[q].want = IF Wanting(link[q]) THEN Older(timer[q].want, WantWait) ELSE 0
    BY <1>1, <1>3
  <2>2. Older(timer[q].announce, AnnounceEvery) = timer[q].announce + 1
    BY <1>2, <1>4 DEF Older
  <2>3. timer[q].announce + 1 <= AnnounceEvery
    BY <1>2, <1>4
  <2>4. Older(timer[q].want, WantWait) \in Nat /\ Older(timer[q].want, WantWait) <= timer[q].want + 1
    BY <1>2, OlderIs
  <2>5. timer'[q].want \in Nat /\ timer'[q].want <= timer[q].want + 1
    BY <1>2, <2>1, <2>4
  <2> QED  BY <2>1, <2>2, <2>3, <2>5
<1>6. Waited(p, q)'
  <2>1. Waited(p, q) /\ Owed(p, q)' = 1
    BY <1>1, <1>3 DEF Meeting, Owed
  <2>2. CASE q \in link[p].peers
    <3>1. Owed(p, q) = 0
      BY <1>1 DEF Owed, StatusDue
    <3>2. timer[q].want <= n + 0
      BY <2>1, <2>2, <3>1 DEF Waited
    <3> HIDE DEF n
    <3>3. timer'[q].want <= n + Owed(p, q)'
      BY <1>2, <1>5, <2>1, <3>2
    <3> QED  BY <1>1, <2>2, <3>3 DEF Waited, n
  <2>3. CASE q \notin link[p].peers
    <3>1. timer[q].want + AnnounceEvery <= n + timer[q].announce
      BY <1>1, <2>1, <2>3 DEF Waited
    <3> HIDE DEF n
    <3>2. timer'[q].want + AnnounceEvery <= n + timer'[q].announce
      BY <1>2, <1>5, <3>1
    <3> QED  BY <1>1, <2>3, <3>2 DEF Waited, n
  <2> QED  BY <2>2, <2>3
<1>7. \A b, c \in Players : status'[c][b] # <<>> => Reached(c, b)'
  BY <1>1
<1>8. Queue(p, q) /\ Queue(q, p)
  BY <1>1 DEF Queue
<1>9. \A x \in beatPort' : x.kind = "announce" /\ x.from # x.to
  BY <1>1
<1> QED  BY <1>1, <1>5, <1>6, <1>7, <1>8, <1>9, MeetingSame, MeetingKept

\* Decks that meet go on meeting, or come to know who holds the role.
LEMMA MeetingStays ==
  ASSUME TwoDecks, LinkType, LinkType', NEW p \in Players, NEW q \in Players, p # q,
         Players = {p, q}, Meeting(p, q), Absent # {}, Stays
  PROVE  (Meeting(p, q)' \/ (Roles' /\ Steady')) /\ Newer
<1>1. ASSUME NEW a \in Players, Keys(a) PROVE Meeting(p, q)' /\ Newer
  BY <1>1, MeetingKeys
<1>2. ASSUME NEW a \in Players, Sender(a) PROVE Meeting(p, q)' /\ Newer
  <2>1. ~ForgetMaster(a) /\ ~TakeUnclaimed(a) /\ ~RequestMaster(a)
    BY MeetingClaimsNothing
  <2>2. CASE SendStatus(a)
    BY <2>2, MeetingSends
  <2>3. CASE Announce(a)
    BY <2>3, MeetingAnnounces
  <2> QED  BY <1>2, <2>1, <2>2, <2>3 DEF Sender
<1>3. ASSUME NEW m \in beatPort, Hear(m) PROVE Meeting(p, q)' /\ Newer
  BY <1>3, MeetingHearsPort
<1>4. ASSUME NEW a \in Players, NEW b \in Players, HearStatus(b, a)
      PROVE  (Meeting(p, q)' \/ (Roles' /\ Steady')) /\ Newer
  BY <1>4, MeetingHears
<1>5. CASE LosePacket
  BY <1>5, MeetingLoses
<1>6. CASE Tick
  BY <1>6, MeetingTicks
<1>7. CASE UNCHANGED vars
  <2>1. UNCHANGED <<on, link, timer, beatPort, status, spent>>
    BY <1>7 DEF vars
  <2>2. Waited(p, q)' /\ timer'[q].announce <= AnnounceEvery
    BY <2>1 DEF Meeting, Waited, Owed
  <2>3. Queue(p, q) /\ Queue(q, p)
    BY <2>1 DEF Queue
  <2>4. \A b, c \in Players : status'[c][b] # <<>> => Reached(c, b)'
    BY <2>1 DEF Meeting, Reached
  <2>5. \A m \in beatPort' : m.kind = "announce" /\ m.from # m.to
    BY <2>1 DEF Meeting
  <2> QED  BY <2>1, <2>2, <2>3, <2>4, <2>5, MeetingSame, MeetingKept
<1> QED  BY <1>1, <1>2, <1>3, <1>4, <1>5, <1>6, <1>7 DEF Stays, Runs, Listeners

\* Every step of two decks keeps the roles, and nobody older takes one.
LEMMA LinkStep == TwoDecks /\ LinkInv /\ [Next]_vars => LinkInv' /\ Newer
<1> SUFFICES ASSUME TwoDecks, LinkInv, [Next]_vars PROVE LinkInv' /\ Newer
  OBVIOUS
<1>1. LinkType /\ LinkType' /\ (Together \/ Meet \/ Begins \/ Apart)
  BY LinkTypes DEF LinkInv
<1>2. \A p, q \in Players : p # q => Players = {p, q}
  BY DEF TwoDecks
<1>3. MaxPower \in Nat /\ MaxPower <= Joining + 1 /\ spent.power \in Nat
      /\ Joining \in {0, 1} /\ (Joining = 1 => Absent # {})
  <2>1. MaxPower \in Nat /\ spent.power \in Nat
    BY <1>1, LinkAssumption DEF LinkType
  <2>2. MaxPower <= Joining + 1
    BY DEF TwoDecks
  <2>3. Joining \in {0, 1} /\ (Joining = 1 => Absent # {})
    BY DEF Joining
  <2> QED  BY <2>1, <2>2, <2>3
<1>4. CASE Stays
  <2>1. on' = on /\ spent'.power = spent.power
    BY <1>1, <1>4, StaysOn
  <2>2. CASE Together
    BY <1>1, <1>4, <2>1, <2>2, TogetherStays DEF Together, LinkInv, Joining
  <2>3. CASE Meet
    <3>1. PICK p \in Players, q \in Players : p # q /\ Meeting(p, q)
      BY <2>3 DEF Meet
    <3>2. Joining = 1 /\ spent'.power = 1
      BY <2>1, <2>3 DEF Meet
    <3>3. (Meeting(p, q)' \/ (Roles' /\ Steady')) /\ Newer
      BY <1>1, <1>2, <1>3, <1>4, <3>1, <3>2, MeetingStays
    <3>4. CASE Meeting(p, q)'
      <4>1. Meet'
        BY <3>1, <3>2, <3>4 DEF Meet, Joining
      <4> QED  BY <1>1, <3>3, <4>1 DEF LinkInv
    <3>5. CASE Roles' /\ Steady'
      <4>1. Together'
        BY <3>2, <3>5 DEF Together, Joining
      <4> QED  BY <1>1, <3>3, <4>1 DEF LinkInv
    <3> QED  BY <3>3, <3>4, <3>5
  <2>4. CASE Begins
    <3>1. PICK p \in Players, q \in Players : p # q /\ Alone(p, q)
      BY <2>4 DEF Begins
    <3>2. Alone(p, q)' /\ Newer
      BY <1>1, <1>2, <1>4, <3>1, AloneStays
    <3>3. Begins'
      BY <2>1, <2>4, <3>1, <3>2 DEF Begins, Joining
    <3> QED  BY <1>1, <3>2, <3>3 DEF LinkInv
  <2>5. CASE Apart
    <3>1. Parted' /\ Newer
      BY <1>1, <1>4, <2>5, PartedStays DEF Apart
    <3>2. Apart'
      BY <2>1, <2>5, <3>1 DEF Apart, Joining
    <3> QED  BY <1>1, <3>1, <3>2 DEF LinkInv
  <2> QED  BY <1>1, <2>2, <2>3, <2>4, <2>5
<1>5. ASSUME NEW p \in Players, SwitchOff(p) PROVE LinkInv' /\ Newer
  <2>1. spent.power < MaxPower /\ on[p]
    BY <1>5 DEF SwitchOff
  <2>2. \A q \in Players : ~on[q] => Off(q)
    <3>1. CASE Together \/ Meet
      BY <3>1 DEF Together, Steady, Meet, Meeting
    <3>2. CASE Begins
      BY <1>2, <3>2 DEF Begins, Alone, Off, Fresh
    <3>3. CASE Apart
      BY <3>3 DEF Apart, Parted
    <3> QED  BY <1>1, <3>1, <3>2, <3>3
  <2>3. /\ Parted' /\ Newer /\ spent'.power = spent.power + 1
        /\ ~on'[p] /\ \A q \in Players : q # p => on'[q] = on[q]
    BY <1>1, <1>5, <2>2, PartsWhenOff
  <2>4. CASE Together \/ Meet
    <3>1. spent'.power = Joining + 1
      BY <2>3, <2>4 DEF Together, Meet
    <3>2. Apart'
      BY <2>3, <3>1 DEF Apart, Joining
    <3> QED  BY <1>1, <2>3, <3>2 DEF LinkInv
  <2>5. CASE Begins
    <3>1. PICK a \in Players, b \in Players : a # b /\ Alone(a, b)
      BY <2>5 DEF Begins
    <3>2. p = a /\ Players = {a, b}
      BY <1>2, <2>1, <3>1 DEF Alone
    <3>3. \A q \in Players : ~on'[q]
      BY <2>3, <3>1, <3>2 DEF Alone
    <3>4. Joining = 1 /\ spent'.power = 1
      BY <2>3, <2>5 DEF Begins
    <3>5. Apart'
      BY <2>3, <3>3, <3>4 DEF Apart, Joining
    <3> QED  BY <1>1, <2>3, <3>5 DEF LinkInv
  <2>6. ~Apart
    BY <1>3, <2>1 DEF Apart
  <2> QED  BY <1>1, <2>4, <2>5, <2>6
<1>6. ASSUME NEW p \in Players, SwitchOn(p) PROVE LinkInv' /\ Newer
  <2>1. spent.power < MaxPower /\ ~on[p]
    BY <1>6 DEF SwitchOn
  <2>2. ~Together /\ ~Meet
    BY <2>1 DEF Together, Steady, Meet, Meeting
  <2>3. CASE Begins
    <3>1. PICK a \in Players, b \in Players : a # b /\ Alone(a, b)
      BY <2>3 DEF Begins
    <3>2. p = b /\ Players = {a, b}
      BY <1>2, <2>1, <3>1 DEF Alone
    <3>3. Meeting(a, b)' /\ Newer /\ spent'.power = spent.power + 1
      BY <1>1, <1>6, <3>1, <3>2, AloneMeets
    <3>4. Joining = 1 /\ spent'.power = 1
      BY <2>3, <3>3 DEF Begins
    <3>5. Meet'
      BY <3>1, <3>3, <3>4 DEF Meet, Joining
    <3> QED  BY <1>1, <3>3, <3>5 DEF LinkInv
  <2>4. CASE Apart
    <3>1. /\ Joining = 1 /\ spent.power = 1 /\ \A q \in Players : ~on[q]
      BY <1>3, <2>1, <2>4 DEF Apart
    <3>2. /\ UNCHANGED <<link, timer, beatPort, status>> /\ spent'.power = Joining + 1
          /\ \A q \in Players : q # p => ~on'[q]
      BY <1>1, <1>6, <3>1 DEF SwitchOn, Spend, LinkType
    <3>3. PICK q \in Players : q # p
      BY DEF TwoDecks
    <3>4. Parted'
      BY <2>4, <3>1, <3>2, <3>3 DEF Apart, Parted, Off
    <3>5. Apart'
      BY <3>2, <3>4 DEF Apart, Joining
    <3> QED  BY <1>1, <3>2, <3>5 DEF LinkInv, Newer
  <2> QED  BY <1>1, <2>2, <2>3, <2>4
<1> QED  BY <1>4, <1>5, <1>6 DEF Next, Stays

\* Of two decks one holds the role, or both while it is given, unless one was switched off.
LEMMA WhoHolds ==
  ASSUME TwoDecks, LinkInv
  PROVE  /\ OneMaster
         /\ Apart \/ \E p \in Players : on[p] /\ link[p].master
<1>1. \A p, q \in Players : p # q => Players = {p, q}
  BY DEF TwoDecks
<1>2. CASE Together
  <2>1. PICK a \in Players, b \in Players : a # b /\ (Solo(a, b) \/ Giving(a, b))
    BY <1>2 DEF Together, Roles
  <2>2. on[a] /\ link[a].master
    BY <1>2, <2>1 DEF Together, Steady, Solo, Giving
  <2>3. OneMaster
    <3> SUFFICES ASSUME NEW p \in Players, NEW q \in Players, p # q,
                        link[p].master, link[q].master
                 PROVE  link[p].handoffTo = q \/ link[q].handoffTo = p
      BY DEF OneMaster
    <3>1. {p, q} = {a, b}
      BY <1>1, <2>1
    <3> QED  BY <2>1, <3>1 DEF Solo, Giving
  <2> QED  BY <2>2, <2>3
<1>3. CASE Meet
  <2>1. PICK a \in Players, b \in Players : a # b /\ Meeting(a, b)
    BY <1>3 DEF Meet
  <2> QED  BY <1>1, <2>1 DEF Meeting, OneMaster
<1>4. CASE Begins
  <2>1. PICK a \in Players, b \in Players : a # b /\ Alone(a, b)
    BY <1>4 DEF Begins
  <2> QED  BY <1>1, <2>1 DEF Alone, Fresh, OneMaster
<1>5. CASE Apart
  <2>1. PICK a \in Players : ~on[a] /\ ~link[a].master
    BY <1>5 DEF Apart, Parted, Off
  <2> QED  BY <1>1, <1>5, <2>1 DEF OneMaster
<1> QED  BY <1>2, <1>3, <1>4, <1>5 DEF LinkInv

\* Decks that are apart did not all stay.
LEMMA ApartLeft == ASSUME TwoDecks, Apart PROVE ~AllStayed
<1> DEFINE came == {p \in Absent : on[p]}
<1>1. Lead \in Players /\ Lead \notin Absent /\ Absent \subseteq Players
  BY LinkAssumption DEF TwoDecks
<1>2. PICK q \in Players : Players = {Lead, q}
  BY <1>1 DEF TwoDecks
<1>3. CASE came = {}
  <2>1. Cardinality(came) = 0
    BY <1>3, FS_EmptySet
  <2>2. spent.power # 0
    BY DEF Apart, Joining
  <2> QED  BY <2>1, <2>2 DEF AllStayed
<1>4. CASE came # {}
  <2>1. came = {q} /\ Absent # {} /\ on[q]
    BY <1>1, <1>2, <1>4
  <2>2. Cardinality(came) = 1
    BY <2>1, FS_Singleton
  <2>3. spent.power = 2
    BY <2>1 DEF Apart, Joining
  <2> QED  BY <2>2, <2>3 DEF AllStayed
<1> QED  BY <1>3, <1>4

\* The records, clocks, packets and queues are what the code's are: for any number
\* of decks, whatever is pressed, switched or lost.
THEOREM LinkTypeCorrect == Spec => []LinkType
<1> QED  BY LinkTypeInit, LinkTypes, PTL DEF Spec

\* Two decks hold the role together only while one is giving it to the other: for any
\* number of presses of MASTER and SYNC and of controls from others, any order of what is
\* heard, whether the second is there from the start or joins, and fewer losses than it
\* takes to forget a master or to miss one.
THEOREM OneMasterOfTwo == ASSUME TwoDecks PROVE Spec => []OneMaster
<1>1. Init => LinkInv
  BY LinkInit
<1>2. LinkInv /\ [Next]_vars => LinkInv'
  BY LinkStep
<1>3. LinkInv => OneMaster
  BY WhoHolds
<1> QED  BY <1>1, <1>2, <1>3, PTL DEF Spec

\* On the same conditions the role is never dropped between them.
THEOREM NeverMasterlessOfTwo == ASSUME TwoDecks PROVE Spec => []NeverMasterless
<1>1. Init => LinkInv
  BY LinkInit
<1>2. LinkInv /\ [Next]_vars => LinkInv'
  BY LinkStep
<1>3. LinkInv => NeverMasterless
  BY WhoHolds, ApartLeft DEF NeverMasterless
<1> QED  BY <1>1, <1>2, <1>3, PTL DEF Spec

\* And it is taken with a sync counter newer than the other deck's.
THEOREM NewestCounterOfTwo == ASSUME TwoDecks PROVE Spec => NewestCounter
<1>1. Init => LinkInv
  BY LinkInit
<1>2. LinkInv /\ [Next]_vars => LinkInv'
  BY LinkStep
<1>3. LinkInv /\ [Next]_vars => [Newer]_vars
  BY LinkStep
<1> QED  BY <1>1, <1>2, <1>3, PTL DEF Spec, NewestCounter, Newer
=============================================================================
