----------------------------- MODULE RemoteDb -----------------------------
(***************************************************************************)
(* Browsing another player's library: the dbserver client and server of    *)
(* crates/dbserver and the session the browser keeps (browser.rs).  A list *)
(* is fetched in two requests, the menu (whose answer counts its rows) and *)
(* its rendering; meanwhile the server's analysis thread changes the       *)
(* library.  Answers are late, connections break, the peer restarts.       *)
(* Fields and labels are left out: a message is its transaction id, its    *)
(* kind and its rows.                                                      *)
(***************************************************************************)
EXTENDS Integers, Sequences, FiniteSets

CONSTANTS
  Slots,        \* media slots of the peer; a session is for one of them
  Libraries,    \* the library over time, a sequence: each track's artist, a name's
                \* number being its place in the alphabet
  MaxVisits,    \* lists opened in a behaviour (a bound)
  MaxFaults     \* late answers and broken connections (a bound)

ASSUME DbAssumption ==
  /\ MaxVisits \in Nat /\ MaxFaults \in Nat
  /\ Libraries \in Seq(Seq(Nat)) /\ Len(Libraries) > 0
  /\ \A v \in DOMAIN Libraries : Len(Libraries[v]) = Len(Libraries[1])

VARIABLES
  pane,         \* the browser: the list it shows and the request it waits in
  session,      \* the dbserver session the browser keeps, with the server's end of it
  now,          \* how far the server's analysis has come: an index into Libraries
  budget        \* visits and faults so far

dbVars == <<pane, session, now, budget>>

NoSession  == [slot |-> "none", alive |-> FALSE, txid |-> 0,
               asks |-> <<>>, answers |-> <<>>, pending |-> {}]
NoRequest  == [kind |-> "none", arg |-> 0, stage |-> "idle", rows |-> {},
               since |-> 0, clean |-> TRUE]

Tracks == DOMAIN Libraries[1]

---------------------------------------------------------------------------
(* The server. *)

\* name_id: a menu id made from the name itself (a hash; collisions are left out).
NameId(name, lib) == name

\* menu_rows: artist rows are the distinct names, track rows what they are of.
MenuRows(kind, arg, lib) ==
  CASE kind = "root"      -> {"PLAYLIST", "ARTIST", "ALBUM", "TRACK", "FILENAME"}
    [] kind = "playlists" -> {}
    [] kind = "tracks"    -> {[track |-> t, name |-> lib[t]] : t \in Tracks}
    [] kind = "artists"   -> {[id |-> NameId(lib[t], lib), name |-> lib[t]] : t \in Tracks}
    [] kind = "tracksOf"  -> {[track |-> t, name |-> lib[t]] :
                                t \in {u \in Tracks : NameId(lib[u], lib) = arg}}

\* serve_client: one request, answered in order, on the connection it came by;
\* RENDER gives the rows the menu request left pending.
Serve ==
  /\ session.alive /\ session.asks # <<>>
  /\ LET m    == Head(session.asks)
         rows == MenuRows(m.menu, m.arg, Libraries[now]) IN
     session' = IF m.kind = "render"
       THEN [session EXCEPT !.asks = Tail(@),
              !.answers = @ \o <<[txid |-> m.txid, kind |-> "header", rows |-> {}],
                                 [txid |-> m.txid, kind |-> "items", rows |-> session.pending],
                                 [txid |-> m.txid, kind |-> "footer", rows |-> {}]>>]
       ELSE [session EXCEPT !.asks = Tail(@), !.pending = rows,
              !.answers = Append(@, [txid |-> m.txid, kind |-> "available", rows |-> rows])]
  /\ UNCHANGED <<pane, now, budget>>

\* The analysis thread has found another track's tags (start_analysis).
Analysed ==
  /\ now < Len(Libraries) /\ now' = now + 1
  /\ UNCHANGED <<pane, session, budget>>

---------------------------------------------------------------------------
(* The client: a request, its answer, the rendering, its rows. *)

\* What write_all leaves under way on a session.
Asked(s, kind, menu, arg) ==
  [s EXCEPT !.txid = @ + 1,
            !.asks = Append(@, [txid |-> s.txid + 1, kind |-> kind, menu |-> menu,
                                arg |-> arg])]

Idle == pane.request.stage = "idle"

\* The list a fetch ends with is shown; a failed root menu is replaced by the playlists.
Shown(ok, rows) ==
  [pane EXCEPT !.request.stage = "idle", !.request.rows = {},
               !.rows = rows, !.ok = ok, !.until = now]

\* menu: the request itself.  A dead connection fails at the write.
Fetch(s, kind, arg, title) ==
  /\ pane' = [pane EXCEPT
       !.title = title, !.ok = FALSE, !.rows = {},
       !.request = [kind |-> IF s.alive \/ kind # "root" THEN kind ELSE "playlists", arg |-> arg,
                    stage |-> IF s.alive THEN "menu" ELSE "idle", rows |-> {}, since |-> now, clean |-> TRUE]]
  /\ session' = IF s.alive THEN Asked(s, "menu", kind, arg) ELSE s

Visit == budget.visits < MaxVisits /\ budget' = [budget EXCEPT !.visits = @ + 1]

\* Browser::connect_db: the session is kept while the slot is the same.
Session(slot) ==
  IF session.slot = slot THEN session
  ELSE [NoSession EXCEPT !.slot = slot, !.alive = TRUE]

\* Entering a slot from the LINK list shows its category menu.
EnterSlot(slot) ==
  /\ Idle /\ Visit /\ Fetch(Session(slot), "root", 0, 0)
  /\ UNCHANGED now

\* A category of the menu; the playlist view that stands in for it has ALL TRACKS on top.
EnterCategory ==
  /\ Idle /\ Visit
  /\ \/ pane.request.kind = "root" /\ pane.ok /\ Fetch(session, "artists", 0, 0)
     \/ pane.request.kind = "root" /\ pane.ok /\ Fetch(session, "tracks", 0, 0)
     \/ pane.request.kind = "playlists" /\ Fetch(session, "tracks", 0, 0)
  /\ UNCHANGED now

\* One of the artists listed.
EnterArtist ==
  /\ Idle /\ Visit /\ pane.request.kind = "artists" /\ pane.ok
  /\ \E row \in pane.rows : Fetch(session, "tracksOf", row.id, row.name)
  /\ UNCHANGED now

Playlists(p) ==
  [p EXCEPT !.request.kind = "playlists", !.request.stage = "menu", !.request.rows = {}]

\* The fetch has failed; db_root_entries asks for the playlists instead.
Failed(s) ==
  IF pane.request.kind = "root"
  THEN /\ pane' = Playlists(pane)
       /\ session' = Asked(s, "menu", "playlists", 0)
  ELSE pane' = Shown(FALSE, {}) /\ session' = s

\* Mutant of Answered: whatever comes next is taken for the answer.
AnsweredByAnyone(s, answer) == TRUE

\* Client::request: an answer carries the id of the request last sent.
Answered(s, answer) == answer.txid = s.txid

HearMenu ==
  /\ pane.request.stage = "menu" /\ session.answers # <<>>
  /\ LET answer == Head(session.answers)
         s == [session EXCEPT !.answers = Tail(@)]
         count == Cardinality(answer.rows) IN
     IF ~Answered(session, answer) \/ answer.kind # "available" THEN Failed(s)
     ELSE IF count = 0 THEN pane' = Shown(TRUE, {}) /\ session' = s
     ELSE /\ pane' = [pane EXCEPT !.request.stage = "rows"]
          /\ session' = Asked(s, "render", pane.request.kind, pane.request.arg)
  /\ UNCHANGED <<now, budget>>

HearRows ==
  /\ pane.request.stage = "rows" /\ session.answers # <<>>
  /\ LET answer == Head(session.answers)
         s == [session EXCEPT !.answers = Tail(@)] IN
     \/ /\ answer.kind = "header" /\ session' = s /\ UNCHANGED pane
     \/ /\ answer.kind = "items" /\ session' = s
        /\ pane' = [pane EXCEPT !.request.rows = @ \cup answer.rows]
     \/ /\ answer.kind = "footer" /\ session' = s /\ pane' = Shown(TRUE, pane.request.rows)
     \/ /\ answer.kind = "available" /\ Failed(s)
  /\ UNCHANGED <<now, budget>>

Fault == budget.faults < MaxFaults /\ budget' = [budget EXCEPT !.faults = @ + 1]
Muddied == [pane EXCEPT !.request.clean = FALSE]

\* TIMEOUT passes before the answer: the read fails, the answer is still to come.
AnswerLate ==
  /\ ~Idle /\ session.alive /\ session.answers = <<>> /\ Fault
  /\ IF pane.request.kind = "root"
     THEN /\ pane' = Playlists(Muddied)
          /\ session' = Asked(session, "menu", "playlists", 0)
     ELSE /\ pane' = [Shown(FALSE, {}) EXCEPT !.request.clean = FALSE]
          /\ UNCHANGED session
  /\ UNCHANGED now

\* The peer goes away or restarts: the connection is gone, and the fetch with it.
ConnectionBreaks ==
  /\ session.alive /\ Fault
  /\ session' = [session EXCEPT !.alive = FALSE, !.asks = <<>>, !.answers = <<>>]
  /\ pane' = IF Idle THEN pane
             ELSE [Shown(FALSE, {}) EXCEPT !.request.clean = FALSE,
                     !.request.kind = IF @ = "root" THEN "playlists" ELSE @]
  /\ UNCHANGED now

DbInit ==
  /\ pane = [request |-> NoRequest, title |-> 0, rows |-> {}, ok |-> FALSE, until |-> 0]
  /\ session = NoSession /\ now = 1
  /\ budget = [visits |-> 0, faults |-> 0]

DbNext ==
  \/ \E slot \in Slots : EnterSlot(slot)
  \/ EnterCategory \/ EnterArtist
  \/ HearMenu \/ HearRows \/ AnswerLate \/ ConnectionBreaks
  \/ Serve \/ Analysed

DbSpec == DbInit /\ [][DbNext]_dbVars

---------------------------------------------------------------------------
(* What the lists promise. *)

\* A list that is shown is one menu of the library, as it was at one moment of
\* the fetch: rows of two requests or of two states of the library never mix
\* (Client::request's id check, serve_client's pending rows); and an artist opened
\* from a list gives the tracks of the artist named there, even when analysis has
\* renamed tracks in between (name_id).
ListIsOneMenu ==
  Idle /\ pane.ok =>
    /\ \E v \in pane.request.since .. pane.until :
         pane.rows = MenuRows(pane.request.kind, pane.request.arg, Libraries[v])
    /\ pane.request.kind = "tracksOf" => \A row \in pane.rows : row.name = pane.title

\* Entering a slot shows its category menu, when the peer has answered all it
\* was asked since (docs/reference/prodj-link-media.md:103).
EnteredShowsMenu ==
  Idle /\ pane.request.kind \in {"root", "playlists"} /\ pane.request.clean =>
    pane.ok /\ pane.rows = MenuRows("root", 0, Libraries[now])
===========================================================================
