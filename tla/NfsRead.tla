------------------------------ MODULE NfsRead ------------------------------
(***************************************************************************)
(* Reading a track's file off another player: the NFSv2 client and server  *)
(* of crates/nfs.  A session resolves the server's ports, mounts, looks    *)
(* the file up, one call at a time, then reads its blocks with a window of *)
(* requests in flight.  Datagrams are lost, delayed and reordered.  Byte   *)
(* layouts are left out: a reply is its transaction id and what it says.   *)
(***************************************************************************)
EXTENDS Integers, FiniteSets, Sequences, FiniteSetsExt, Functions

CONSTANTS
  Blocks,       \* blocks in a file: its size / 8192 (a bound)
  Window,       \* Nfs::WINDOW (a bound: 32 in the code)
  Attempts,     \* sends of one call (4 in the code)
  Resends,      \* sends of one block after the first (8 in the code)
  Sessions,     \* files read one after the other (a bound)
  MaxLost,      \* datagrams lost in a behaviour (a bound)
  SamePort      \* a new session's socket has the local port of the last one

ASSUME NfsAssumption ==
  /\ {Blocks, Window, Attempts, Sessions} \subseteq Nat \ {0}
  /\ {Resends, MaxLost} \subseteq Nat /\ SamePort \in BOOLEAN

VARIABLES
  nfs,          \* the client
  wire,         \* the datagrams under way, each the call whose answer it becomes
  listens,      \* the portmapper the server has bound: 1 standard, 2 high
  lost          \* datagrams lost so far

nfsVars == <<nfs, wire, listens, lost>>

\* The calls of a session, in order; the reads follow.
Calls    == <<"mountPort", "nfsPort", "root", "folder", "file">>
BlockSet == 0 .. Blocks - 1

\* Nfs::connect_with: a fresh socket; transaction ids start at the same number.
Connected(session, portmap) ==
  [session |-> session, portmap |-> portmap, phase |-> "call", step |-> 1, xid |-> 0, attempt |-> 0,
   waiting |-> FALSE, inflight |-> <<>>, next |-> 0, got |-> {},
   out |-> [b \in BlockSet |-> <<>>], tooSoon |-> FALSE]

Calling == nfs.phase = "call"
Reading == nfs.phase = "read"
Over    == nfs.phase \in {"ok", "failed"}

Message(x, what, b) ==
  [xid |-> x, to |-> nfs.portmap, what |-> what, file |-> nfs.session, block |-> b,
   copy |-> nfs.attempt]

\* serve_portmap, serve_mountd, serve_nfsd: stateless, each call is answered with
\* its id; nobody listens on the portmapper that could not be bound.
Answers(m) == IF m.what \in {"mountPort", "nfsPort"} /\ m.to # listens THEN {} ELSE {m}

---------------------------------------------------------------------------
(* One call: the same message for every attempt, and a reply awaited after each. *)

\* call takes the next id; every attempt sends the message again.
SendCall ==
  /\ Calling /\ ~nfs.waiting /\ nfs.attempt < Attempts
  /\ LET x == IF nfs.attempt = 0 THEN nfs.xid + 1 ELSE nfs.xid IN
     /\ nfs' = [nfs EXCEPT !.xid = x, !.attempt = @ + 1, !.waiting = TRUE]
     /\ wire' = wire \cup Answers(Message(x, Calls[nfs.step], 0))
  /\ UNCHANGED <<listens, lost>>

\* A datagram with another id uses up the attempt.
HearOther ==
  /\ Calling /\ nfs.waiting
  /\ \E r \in wire : r.xid # nfs.xid /\ wire' = wire \ {r}
  /\ nfs' = [nfs EXCEPT !.waiting = FALSE]
  /\ UNCHANGED <<listens, lost>>

\* Our id ends the call; a reply that answers something else fails its status.
HearReply ==
  /\ Calling /\ nfs.waiting
  /\ \E r \in wire :
       /\ r.xid = nfs.xid /\ wire' = wire \ {r}
       /\ nfs' = [nfs EXCEPT
            !.attempt = 0, !.waiting = FALSE,
            !.step = IF @ = Len(Calls) THEN @ ELSE @ + 1,
            !.phase = IF r.what # Calls[nfs.step] THEN "failed"
                      ELSE IF nfs.step = Len(Calls) THEN "read" ELSE @]
  /\ UNCHANGED <<listens, lost>>

\* Whether an answer to one of these ids may still come.
Coming(ids) == \E m \in wire : m.xid \in ids

CallTimeout ==
  /\ Calling /\ nfs.waiting
  /\ nfs' = [nfs EXCEPT !.waiting = FALSE, !.tooSoon = @ \/ Coming({nfs.xid})]
  /\ UNCHANGED <<wire, listens, lost>>

\* No attempt left: connect_any goes to the other portmapper, any other call fails the load.
GiveUpCall ==
  /\ Calling /\ ~nfs.waiting /\ nfs.attempt = Attempts
  /\ IF nfs.step \in {1, 2} /\ nfs.portmap = 1
     THEN /\ nfs' = [Connected(nfs.session, 2) EXCEPT !.tooSoon = nfs.tooSoon]
          /\ wire' = IF SamePort THEN wire ELSE {}
     ELSE nfs' = [nfs EXCEPT !.phase = "failed"] /\ UNCHANGED wire
  /\ UNCHANGED <<listens, lost>>

---------------------------------------------------------------------------
(* read_file: a window of reads, matched to their blocks by transaction id. *)

InFlight == DOMAIN nfs.inflight

\* Fill the window: blocks next .. up, one id each.
FillWindow ==
  /\ Reading /\ nfs.next < Blocks /\ Cardinality(InFlight) < Window
  /\ LET up    == Min({Blocks, nfs.next + Window - Cardinality(InFlight)})
         fresh == nfs.xid + 1 .. nfs.xid + up - nfs.next
         Block(x) == nfs.next + x - nfs.xid - 1 IN
     /\ nfs' = [nfs EXCEPT !.next = up, !.xid = @ + up - nfs.next,
          !.inflight = [x \in InFlight \cup fresh |->
             IF x \in fresh THEN [block |-> Block(x), retries |-> 0] ELSE nfs.inflight[x]]]
     /\ wire' = wire \cup {Message(x, "read", Block(x)) : x \in fresh}
  /\ UNCHANGED <<listens, lost>>

Filled == nfs.next = Blocks \/ Cardinality(InFlight) >= Window

\* Mutant of HearBlock: replies are taken in the order the blocks were asked for.
HearBlockInOrder ==
  /\ Reading /\ Filled /\ nfs.got # BlockSet
  /\ \E r \in wire, x \in InFlight :
       /\ wire' = wire \ {r} /\ x = Min(InFlight)
       /\ nfs' = [nfs EXCEPT
            !.inflight = [y \in InFlight \ {x} |-> @[y]],
            !.out[nfs.inflight[x].block] = <<r.file, r.block>>,
            !.got = @ \cup {nfs.inflight[x].block}]
  /\ UNCHANGED <<listens, lost>>

\* A reply in flight fills its block; any other is dropped.
HearBlock ==
  /\ Reading /\ Filled /\ nfs.got # BlockSet
  /\ \E r \in wire :
       /\ wire' = wire \ {r}
       /\ IF r.xid \notin InFlight THEN UNCHANGED nfs
          ELSE LET b == nfs.inflight[r.xid].block IN
               nfs' = [nfs EXCEPT
                 !.inflight = [x \in InFlight \ {r.xid} |-> @[x]],
                 !.phase = IF r.what # "read" THEN "failed" ELSE @,
                 !.out[b] = <<r.file, r.block>>, !.got = @ \cup {b}]
  /\ UNCHANGED <<listens, lost>>

\* Mutant of ReadTimeout: the last resend is given up while it is still allowed.
ReadTimeoutImpatient ==
  /\ Reading /\ Filled /\ nfs.got # BlockSet
  /\ InFlight # {}
  /\ nfs' = [nfs EXCEPT !.phase = "failed", !.tooSoon = @ \/ Coming(InFlight)]
  /\ UNCHANGED <<wire, listens, lost>>

\* 50 ms of silence: what is older than 400 ms goes out again under new ids, in the
\* order of the map, which is any.
ReadTimeout ==
  /\ Reading /\ Filled /\ nfs.got # BlockSet
  /\ \E last \in InFlight :
       LET stale == {x \in InFlight : x <= last}
           fresh == nfs.xid + 1 .. nfs.xid + Cardinality(stale)
           soon  == nfs.tooSoon \/ Coming(stale) IN
       IF \E x \in stale : nfs.inflight[x].retries >= Resends
       THEN nfs' = [nfs EXCEPT !.phase = "failed", !.tooSoon = soon] /\ UNCHANGED wire
       ELSE \E old \in Bijection(fresh, stale) :
            /\ nfs' = [nfs EXCEPT !.tooSoon = soon, !.xid = @ + Cardinality(stale),
                 !.inflight = [x \in (InFlight \ stale) \cup fresh |->
                    IF x \in fresh THEN [nfs.inflight[old[x]] EXCEPT !.retries = @ + 1]
                    ELSE nfs.inflight[x]]]
            /\ wire' = wire \cup {Message(x, "read", nfs.inflight[old[x]].block) : x \in fresh}
  /\ UNCHANGED <<listens, lost>>

ReadDone ==
  /\ Reading /\ nfs.got = BlockSet
  /\ nfs' = [nfs EXCEPT !.phase = "ok"]
  /\ UNCHANGED <<wire, listens, lost>>

\* The next load opens its own session.
NextSession ==
  /\ Over /\ nfs.session < Sessions
  /\ nfs' = Connected(nfs.session + 1, 1)
  /\ wire' = IF SamePort THEN wire ELSE {}
  /\ UNCHANGED <<listens, lost>>

---------------------------------------------------------------------------
(* The network. *)

Lose ==
  /\ lost < MaxLost /\ lost' = lost + 1
  /\ \E m \in wire : wire' = wire \ {m}
  /\ UNCHANGED <<nfs, listens>>

NfsInit ==
  /\ nfs = Connected(1, 1) /\ lost = 0
  /\ wire = {} /\ listens \in {1, 2}

Client ==
  \/ SendCall \/ HearOther \/ HearReply \/ CallTimeout \/ GiveUpCall
  \/ FillWindow \/ HearBlock \/ ReadTimeout \/ ReadDone
NfsNext == Client \/ NextSession \/ Lose

NfsSpec == NfsInit /\ [][NfsNext]_nfsVars

---------------------------------------------------------------------------
(* What a load relies on. *)

\* A file that was read is that file, block by block: read_file matches replies
\* to blocks by transaction id alone, and each session counts from the same id.
FileIsWhole ==
  nfs.phase = "ok" => \A b \in BlockSet : nfs.out[b] = <<nfs.session, b>>

\* Losing fewer datagrams than there are sends of a call or of a block never
\* fails a load, unless an answer was slower than the wait for it (call and
\* read_file send again; connect_any tries the other portmapper).
LossIsRepaired ==
  nfs.phase = "failed" /\ ~nfs.tooSoon => lost >= Min({Attempts, Resends + 1})
=============================================================================
