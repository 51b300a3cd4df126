------------------------------ MODULE Browser ------------------------------
(***************************************************************************)
(* The browser (app/src/browser.rs) and the tag list (taglist.rs): a stack *)
(* of places and the rows of the last one, over sticks that are inserted   *)
(* and pulled at any time and looked for once a second (media.rs), players *)
(* of the network and the one rekordbox export that is kept in memory.     *)
(* Names and metadata are left out; a row is where it leads.               *)
(***************************************************************************)
EXTENDS Integers, Sequences, FiniteSets, SequencesExt

CONSTANTS
  Sticks,       \* mount points, in the order of their paths
  Exports,      \* the first names of the paths with a rekordbox export
  Peers,        \* players of the LINK list, in the order of their numbers
  MaxTags,      \* TagList::MAX (a bound: 100 in the code)
  MaxInserts,   \* times a stick is inserted (a bound)
  FastSwap      \* whether a stick is swapped between two scans

\* A mount point has no other place's name.
ASSUME BrowserAssumption ==
  /\ {MaxTags, MaxInserts} \subseteq Nat /\ FastSwap \in BOOLEAN
  /\ Sticks \in Seq(STRING) /\ Peers \in Seq(STRING)
  /\ ToSet(Sticks) \cap ({"home", "folder", "track"} \cup ToSet(Peers)) = {}

VARIABLES
  stack,        \* Browser::stack
  rows,         \* Browser::entries
  selected,     \* Browser::selected, from 1; 0 on an empty list
  export,       \* Browser::rb and rb_source, with the insertion it was read from
  media,        \* Browser::media
  floor,        \* Browser::floor
  inserted,     \* which insertion each mount point holds, 0 for none
  inserts,      \* insertions so far
  tags          \* TagList: its entries and its selection

browserVars == <<stack, rows, selected, export, media, floor, inserted, inserts, tags>>

StickSet == ToSet(Sticks)
Mounted  == {s \in StickSet : inserted[s] > 0}
Home     == <<"home">>

Fs(path) == [kind |-> "fs", path |-> path]
At(kind) == [kind |-> kind, path |-> <<>>]
Row(kind, to) == [kind |-> kind, to |-> to]
NoExport == [of |-> "none", path |-> <<>>, insertion |-> 0]

RbPlaces == {"rbRoot", "rbTree", "rbTracks"}

---------------------------------------------------------------------------
(* The rows of a place (rebuild). *)

Present(path)   == path # <<>> /\ path[1] \in StickSet => path[1] \in Mounted
HasExport(path) == Len(path) = 1 /\ path[1] \in Exports /\ Present(path)

\* The paths of some of the sticks, in their order.
Those(some) ==
  LET upTo[n \in 0 .. Len(Sticks)] ==
        IF n = 0 THEN <<>>
        ELSE IF Sticks[n] \in some THEN Append(upTo[n - 1], <<Sticks[n]>>) ELSE upTo[n - 1] IN
  upTo[Len(Sticks)]

\* The folders and files of a folder: / has home and the sticks, those a folder with a track.
Folders(path) ==
  CASE path = <<>>    -> <<Home>> \o Those(Mounted)
    [] Len(path) = 1  -> IF Present(path) THEN <<Append(path, "folder")>> ELSE <<>>
    [] OTHER          -> <<>>
FilesIn(path) == IF Len(path) = 2 /\ Present(path) THEN <<Append(path, "track")>> ELSE <<>>

Go(place)          == Row("go", place)
Rows(kind, paths)  == [i \in DOMAIN paths |-> Row(kind, Fs(paths[i]))]

Insertion(path) == IF path # <<>> /\ path[1] \in StickSet THEN inserted[path[1]] ELSE 0

\* fs_entries reads the export of a folder that has one, unless it is the one kept.
ExportAt(place, kept) ==
  IF place.kind = "fs" /\ HasExport(place.path) /\ ~(kept.of = "local" /\ kept.path = place.path)
  THEN [of |-> "local", path |-> place.path, insertion |-> Insertion(place.path)] ELSE kept

FsRows(path, depth, sticks, kept) ==
  LET sources == <<Go(At("link"))>> \o
                 Rows("go", Those({s \in sticks : path # <<s>>}))
      library == IF HasExport(path) /\ kept.of = "local" /\ kept.path = path
                 THEN <<Go(At("rbRoot"))>> ELSE <<>> IN
  (IF depth = 1 THEN sources ELSE <<>>) \o library
    \o Rows("go", Folders(path)) \o Rows("track", FilesIn(path))

\* The export's tracks load from where it came.
RbRows(kind, kept) ==
  CASE kept.of = "none"  -> <<>>
    [] kind = "rbRoot"   -> <<Go(At("rbTree")), Go(At("rbTracks"))>>
    [] kind = "rbTree"   -> <<Go(At("rbTracks"))>>
    [] kind = "rbTracks" -> <<Row("track", [kind |-> kept.of, path |-> kept.path])>>

\* A peer's answers are RemoteDb's; here a list that came or an empty one.
DbRows(kind, answered) ==
  IF ~answered THEN <<>>
  ELSE IF kind = "dbRoot" THEN <<Go(At("dbTracks"))>> ELSE <<Row("track", At("peer"))>>

RowsOf(st, sticks, kept, answered) ==
  LET place == Last(st) IN
  CASE place.kind = "fs"                   -> FsRows(place.path, Len(st), sticks, kept)
    [] place.kind = "link"                 -> Rows("connect", [i \in DOMAIN Peers |-> <<Peers[i]>>])
    [] place.kind \in RbPlaces             -> RbRows(place.kind, kept)
    [] place.kind \in {"dbRoot", "dbTracks"} -> DbRows(place.kind, answered)

\* A selection pulled back onto the list.
Clamped(at, list) == IF list = <<>> THEN 0 ELSE Max({1, Min({at, Len(list)})})

\* rebuild, with the selection asked for.
Show(st, sticks, kept, at) ==
  \E answered \in BOOLEAN :
    LET kept1 == ExportAt(Last(st), kept) IN
    /\ stack' = st /\ export' = kept1
    /\ rows' = RowsOf(st, sticks, kept1, answered)
    /\ selected' = Clamped(at, rows')

---------------------------------------------------------------------------
(* The keys. *)

Keyed == UNCHANGED <<media, floor, inserted, inserts, tags>>

MoveSelection ==
  /\ \E delta \in {-1, 1} : selected' = Clamped(selected + delta, rows)
  /\ Keyed /\ UNCHANGED <<stack, rows, export>>

Descend == \E r \in ToSet(rows) :
  /\ r = rows[selected] /\ r.kind = "go"
  /\ Show(Append(stack, r.to), media, export, 1) /\ Keyed

\* A player: its dbserver, or its export over NFS, or nothing.
Connect == \E r \in ToSet(rows) :
  /\ r = rows[selected] /\ r.kind = "connect" /\ Keyed
  /\ \/ Show(Append(stack, At("dbRoot")), media, export, 1)
     \/ Show(Append(stack, At("rbTree")), media,
             [of |-> "link", path |-> r.to.path, insertion |-> 0], 1)
     \/ UNCHANGED <<stack, rows, selected, export>>

\* BACK: the place before; from the first one the folder above, with the cursor on it.
Back ==
  /\ Keyed
  /\ \/ Len(stack) > 1 /\ Show(Front(stack), media, export, 1)
     \/ /\ Len(stack) = 1 /\ stack[1].path \notin floor /\ stack[1].path # <<>>
        /\ LET above == <<Fs(Front(stack[1].path))>>
               kept  == ExportAt(above[1], export)
               list  == RowsOf(above, media, kept, TRUE) IN
           Show(above, media, kept, CHOOSE i \in DOMAIN list : list[i] = Go(stack[1]))

GoLink == Show(<<stack[1], At("link")>>, media, export, 1) /\ Keyed

\* FILE: onto the stick when there is just one, else the first folder.
GoRoot ==
  /\ Keyed
  /\ LET onto == {s \in media : Cardinality(media) = 1 /\ stack[1] # Fs(<<s>>)} IN
     IF onto = {} THEN Show(<<stack[1]>>, media, export, 1)
     ELSE \E s \in onto : Show(<<stack[1], Fs(<<s>>)>>, media, export, 1)

\* Opening BROWSE reads the rows again.
Reopen == Show(stack, media, export, selected) /\ Keyed

\* Mutant of KeptExport: the export of a stick that is gone is kept.
KeptExportAnyway(lost) == export

KeptExport(lost) == IF export.of = "local" /\ export.path[1] \in lost THEN NoExport ELSE export

\* Whether we are browsing one of these sticks.
Browsing(lost) ==
  \/ \E i \in DOMAIN stack : stack[i].kind = "fs" /\ stack[i].path # <<>> /\ stack[i].path[1] \in lost
  \/ /\ \E i \in DOMAIN stack : stack[i].kind \in RbPlaces
     /\ export.of = "local" /\ export.path[1] \in lost

\* poll_media: back to the first folder if we were on a stick that is gone.
PollMedia ==
  /\ media # Mounted /\ media' = Mounted
  /\ LET lost == media \ Mounted
         out  == Browsing(lost)
         st   == IF out THEN <<stack[1]>> ELSE stack IN
     IF Last(st).kind = "fs"
     THEN Show(st, Mounted, KeptExport(lost), IF out THEN 1 ELSE selected)
     ELSE export' = KeptExport(lost) /\ UNCHANGED <<stack, rows, selected>>
  /\ UNCHANGED <<floor, inserted, inserts, tags>>

---------------------------------------------------------------------------
(* The tag list. *)

Tagged == UNCHANGED <<stack, rows, selected, export, media, floor, inserted, inserts>>

\* After every change the selection is moved onto a row, and the list saved.
Retagged(list) == [list |-> list, at |-> Clamped(tags.at, list)]

\* TAG TRACK / REMOVE in BROWSE.
Toggle ==
  /\ selected > 0 /\ rows[selected].kind = "track" /\ Tagged
  /\ LET load == rows[selected].to IN
     tags' = IF load \in ToSet(tags.list) THEN Retagged(SelectSeq(tags.list, LAMBDA t : t # load))
             ELSE IF Len(tags.list) >= MaxTags THEN tags
             ELSE Retagged(Append(tags.list, load))

\* TAG TRACK / REMOVE on the TAG LIST screen.
RemoveSelected ==
  /\ tags.list # <<>> /\ Tagged
  /\ tags' = Retagged(RemoveAt(tags.list, tags.at))

MoveTag ==
  /\ \E delta \in {-1, 1} : tags' = [tags EXCEPT !.at = Clamped(@ + delta, tags.list)]
  /\ Tagged

\* A relaunch: the list as it was saved, everything else anew.
Relaunch ==
  /\ media' = Mounted /\ Show(<<Fs(Home)>>, Mounted, NoExport, 1)
  /\ tags' = [tags EXCEPT !.at = Clamped(1, tags.list)]
  /\ UNCHANGED <<floor, inserted, inserts>>

---------------------------------------------------------------------------
(* The sticks. *)

InsertStick ==
  /\ inserts < MaxInserts /\ inserts' = inserts + 1
  /\ \E s \in StickSet \ Mounted :
       (FastSwap \/ s \notin media) /\ inserted' = [inserted EXCEPT ![s] = inserts + 1]
  /\ UNCHANGED <<stack, rows, selected, export, media, floor, tags>>

PullStick ==
  /\ \E s \in Mounted : (FastSwap \/ s \in media) /\ inserted' = [inserted EXCEPT ![s] = 0]
  /\ UNCHANGED <<stack, rows, selected, export, media, floor, inserts, tags>>

BrowserInit ==
  /\ inserted = [s \in StickSet |-> 0] /\ inserts = 0 /\ media = {}
  /\ floor \in {{}, {Home}}
  /\ stack = <<Fs(Home)>> /\ export = ExportAt(Fs(Home), NoExport)
  /\ rows = RowsOf(stack, {}, export, TRUE) /\ selected = 1
  /\ tags = [list |-> <<>>, at |-> 0]

BrowserNext ==
  \/ MoveSelection \/ Descend \/ Connect \/ Back \/ GoLink \/ GoRoot \/ Reopen
  \/ PollMedia \/ Toggle \/ RemoveSelected \/ MoveTag \/ Relaunch
  \/ InsertStick \/ PullStick

BrowserSpec == BrowserInit /\ [][BrowserNext]_browserVars

---------------------------------------------------------------------------
(* What the lists promise. *)

\* The stick a place, a row or the export is on, as a set.
StickOf(path) == IF path = <<>> THEN {} ELSE {path[1]} \cap StickSet

\* Once the scan has seen the sticks as they are, the browser stands nowhere, lists
\* nothing and keeps no export of a stick that is gone, nor that of another stick
\* that was at the same mount point before (poll_media, fs_entries' kept export).
NothingOfAGoneStick ==
  media = Mounted =>
    /\ \A i \in DOMAIN stack : StickOf(stack[i].path) \subseteq Mounted
    /\ \A i \in DOMAIN rows : StickOf(rows[i].to.path) \subseteq Mounted
    /\ export.of = "local" => export.insertion = Insertion(export.path)
=============================================================================
