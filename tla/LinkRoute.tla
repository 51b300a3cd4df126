----------------------------- MODULE LinkRoute ------------------------------
(***************************************************************************)
(* Where a deck's broadcasts go: the interface the sender speaks from,     *)
(* chosen blind at the start and again on every announce, from the players *)
(* heard by then; and the sockets a suspension kills, which the listener   *)
(* and the sender open again.  Beats are broadcast, so a deck on the wrong *)
(* interface keeps its tempo (status is unicast) and loses its beats.      *)
(***************************************************************************)
EXTENDS Naturals, Sequences

CONSTANTS Wires,        \* the interfaces, in the order they are enumerated
          Locals,       \* those that may fall back to a link-local address
          Peers,        \* the players out there
          Leaving,      \* a player may leave the network altogether
          MaxChanges,   \* bound of what happens to the network
          MaxSuspends   \* bound of suspensions

ASSUME RouteAssumption ==
  /\ Locals \subseteq {Wires[i] : i \in DOMAIN Wires} /\ Leaving \in BOOLEAN
  /\ MaxChanges \in Nat /\ MaxSuspends \in Nat

VARIABLES address,     \* of each interface: none, lan, or local (DHCP never answered)
          at,          \* the wire each player is on, "gone" when it is on none
          peers,       \* link.peers: the subnet each player was last heard on
          listener, sender,    \* the sockets: live or dead
          failures,    \* announces that failed in a row
          route,       \* the interface spoken from
          reached,     \* the wire the last beat went out on
          changes, suspends

routeVars == <<address, at, peers, listener, sender, failures, route, reached, changes, suspends>>
network == <<address, at, changes>>

Indices == DOMAIN Wires
WireSet == {Wires[i] : i \in Indices}
Loopback == "lo"

\* Every link-local address is in one subnet, whatever wire it is on.
Subnet(w) == IF address[w] = "local" THEN "169.254" ELSE w

\* link_interface's preference: an interface on a known player's subnet, else
\* one that is configured, else a link-local one.
Score(w, heard) ==
  IF Subnet(w) \in heard THEN 3 ELSE IF address[w] = "lan" THEN 2 ELSE 1

\* Mutant of Chosen: the first candidate.
ChosenFirst(heard) ==
  LET up == {i \in Indices : address[Wires[i]] # "none"} IN
  IF up = {} THEN Loopback ELSE Wires[CHOOSE i \in up : \A j \in up : i <= j]

\* The best interface, the first of equals.
Chosen(heard) ==
  LET up == {i \in Indices : address[Wires[i]] # "none"}
      S(i) == Score(Wires[i], heard)
  IN IF up = {} THEN Loopback
     ELSE Wires[CHOOSE i \in up : \A j \in up : S(j) < S(i) \/ (S(j) = S(i) /\ i <= j)]

Heard == {peers[p] : p \in Peers} \ {"unheard"}

-----------------------------------------------------------------------------
\* The network.

Readdress(w) ==
  /\ changes < MaxChanges /\ changes' = changes + 1
  /\ \E a \in {"none", "lan"} \union (IF w \in Locals THEN {"local"} ELSE {}) :
       a # address[w] /\ address' = [address EXCEPT ![w] = a]
  /\ UNCHANGED <<at, peers, listener, sender, failures, route, reached, suspends>>

Move(p) ==
  /\ changes < MaxChanges /\ changes' = changes + 1
  /\ \E w \in WireSet \union (IF Leaving THEN {"gone"} ELSE {}) :
       w # at[p] /\ at' = [at EXCEPT ![p] = w]
  /\ UNCHANGED <<address, peers, listener, sender, failures, route, reached, suspends>>

\* The app sits suspended: its sockets are reclaimed.
Suspend ==
  /\ suspends < MaxSuspends /\ suspends' = suspends + 1
  /\ listener' = "dead" /\ sender' = "dead"
  /\ UNCHANGED <<network, peers, failures, route, reached>>

-----------------------------------------------------------------------------
\* The deck.

\* listen_announce: a player is reached where its packet came from.
HearAnnounce(p) ==
  /\ listener = "live" /\ at[p] \in WireSet /\ address[at[p]] # "none"
  /\ peers' = [peers EXCEPT ![p] = Subnet(at[p])]
  /\ UNCHANGED <<network, listener, sender, failures, route, reached, suspends>>

\* A listener whose socket is dead binds afresh.
Rebind ==
  /\ listener = "dead" /\ listener' = "live"
  /\ UNCHANGED <<network, peers, sender, failures, route, reached, suspends>>

\* Every 1.5 s: the interface is chosen again, then the announce sent; after
\* the third in a row that fails the socket is opened anew.
Announce ==
  /\ route' = Chosen(Heard)
  /\ IF sender = "live" THEN failures' = 0 /\ UNCHANGED sender
     ELSE /\ failures' = (failures + 1) % 3
          /\ sender' = IF failures = 2 THEN "live" ELSE "dead"
  /\ UNCHANGED <<network, peers, listener, reached, suspends>>

\* A beat of the playing deck, broadcast from where the sender now speaks.
SendBeat ==
  /\ reached' = IF sender = "live" /\ route \in WireSet /\ address[route] # "none"
                THEN route ELSE Loopback
  /\ UNCHANGED <<network, peers, listener, sender, failures, route, suspends>>

RouteInit ==
  /\ address \in [WireSet -> {"none", "lan"}]
  /\ at \in [Peers -> WireSet]
  /\ peers = [p \in Peers |-> "unheard"]
  /\ listener = "live" /\ sender = "live" /\ failures = 0
  /\ route = Chosen({}) /\ reached = Loopback
  /\ changes = 0 /\ suspends = 0

RouteNext ==
  \/ \E w \in WireSet : Readdress(w)
  \/ \E p \in Peers : Move(p) \/ HearAnnounce(p)
  \/ Suspend \/ Rebind \/ Announce \/ SendBeat

\* The threads run, and the players announce themselves.
RouteFairness ==
  /\ WF_routeVars(Rebind) /\ WF_routeVars(Announce) /\ WF_routeVars(SendBeat)
  /\ \A p \in Peers : WF_routeVars(HearAnnounce(p))

-----------------------------------------------------------------------------

Reachable == {at[p] : p \in Peers} \intersect {w \in WireSet : address[w] # "none"}

\* When the network has settled, the beats go out where a player is, whatever
\* the interfaces, the players and the suspensions did before.
BeatsReachThePeer == []<>(Reachable = {} \/ reached \in Reachable)
=============================================================================
