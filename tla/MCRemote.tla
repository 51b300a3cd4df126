------------------------------ MODULE MCRemote ------------------------------
(* Getting a track onto the deck: reading its file off another player,      *)
(* browsing that player's library, the background load, and where the      *)
(* broadcasts go.  The parts share no state here, so a behaviour is one of  *)
(* them: `part` says which.                                                 *)
EXTENDS NfsRead, RemoteDb, TrackLoad, LinkRoute

VARIABLE part
vars == <<part, nfsVars, dbVars, loadVars, routeVars>>
TwoWires == <<"dongle", "wifi">>

\* Artists of three tracks: analysis names the last two one after the other.
ThreeTracks == <<<<2, 3, 3>>, <<2, 1, 3>>, <<2, 1, 2>>>>

Init ==
  /\ part \in {"nfs", "db", "load", "route"}
  /\ NfsInit /\ DbInit /\ LoadInit /\ RouteInit
  /\ part # "nfs" => listens = 1
  /\ part # "route" => \A w \in WireSet, p \in Peers : address[w] = "none" /\ at[p] = "wifi"

Next ==
  \/ part = "nfs" /\ NfsNext /\ UNCHANGED <<part, dbVars, loadVars, routeVars>>
  \/ part = "db" /\ DbNext /\ UNCHANGED <<part, nfsVars, loadVars, routeVars>>
  \/ part = "load" /\ LoadNext /\ UNCHANGED <<part, nfsVars, dbVars, routeVars>>
  \/ part = "route" /\ RouteNext /\ UNCHANGED <<part, nfsVars, dbVars, loadVars>>

\* A part that does not run has nothing to be fair to: it was started with
\* nothing to do.
Spec == Init /\ [][Next]_vars /\ LoadFairness /\ RouteFairness
=============================================================================
