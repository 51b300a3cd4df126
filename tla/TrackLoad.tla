----------------------------- MODULE TrackLoad -----------------------------
(***************************************************************************)
(* Loading a track in the background (DeckApp::load_selected .. poll_fetch *)
(* and Prep in app/src/lib.rs), with what it shares with the media         *)
(* server's analysis thread (crates/mediaserver): the files, which may be  *)
(* replaced, and the analysis cache, whose records take time to write.     *)
(* A track's content is its path and the version of its file; an analysis, *)
(* a waveform or a tag is the content it was made from.                    *)
(***************************************************************************)
EXTENDS Integers, FiniteSets

CONSTANTS
  None,
  Files,          \* paths of local tracks
  Linked,         \* paths of tracks on other players
  Odd,            \* tracks whose channel count is not the deck's
  MaxLoads,       \* loads asked for (a bound)
  MaxVersion,     \* times a file is replaced (a bound)
  MaxRestarts,    \* times the unit is switched off and on (a bound)
  ReplaceInUse    \* whether a file may be replaced while it is being analysed

ASSUME LoadAssumption ==
  /\ Odd \subseteq Files \cup Linked /\ Files \cap Linked = {}
  /\ {MaxLoads, MaxVersion, MaxRestarts} \subseteq Nat /\ ReplaceInUse \in BOOLEAN

VARIABLES
  deck,           \* what the deck holds: the parts of a Prepared, and the sender's grid
  ui,             \* the load the screen waits for, and whether to play it
  job,            \* the loader threads, by number
  scan,           \* the media server's analysis thread
  disk,           \* the version of each local file
  cache,          \* the analysis cache: for each file and version, the record
  handGrids,      \* grids.json: the paths with a hand-adjusted grid
  restarts

loadVars == <<deck, ui, job, scan, disk, cache, handGrids, restarts>>

Jobs      == 1 .. MaxLoads
Content(path) == <<path, IF path \in Files THEN disk[path] ELSE 0>>
Missing   == [of |-> None, whole |-> FALSE]
Record(path) == cache[path][disk[path]]
EmptyDeck == [job |-> 0, path |-> None, audio |-> None, tags |-> None, wave |-> None,
              grid |-> None, gridOrig |-> None, linkGrid |-> None, playing |-> FALSE]
NoJob     == [path |-> None, stage |-> "none", content |-> None, grid |-> None]
NoWait    == [rx |-> 0, playOnLoad |-> FALSE]

Begun(n) == job[n].stage # "none"
Newest   == Cardinality({n \in Jobs : Begun(n)})

---------------------------------------------------------------------------
(* The analysis cache (cache_key, load_cached, store_cached, decode). *)

\* Mutant of Decoded: a record cut short is taken for an analysis.
DecodedAnyway(record) == record.of

\* A record cut short does not decode.
Decoded(record) == IF record.whole THEN record.of ELSE None

\* load_cached: the record named by the file as it is now.
Cached(path) == Decoded(Record(path))

\* store_cached: named by the file as it is now, whatever was analysed; it takes time.
BeginRecord(path) ==
  cache' = [cache EXCEPT ![path][disk[path]] = [of |-> <<"cut", path>>, whole |-> FALSE]]

EndRecord(path, content) ==
  cache' = [cache EXCEPT ![path][disk[path]] = [of |-> content, whole |-> TRUE]]

---------------------------------------------------------------------------
(* The UI thread. *)

\* start_fetch: a newer load takes the place of the one waited for.
StartFetch(path, play) ==
  LET n == Newest + 1 IN
  /\ n \in Jobs
  /\ job' = [job EXCEPT ![n] = [NoJob EXCEPT !.path = path,
                                 !.stage = IF path \in Files THEN "decode" ELSE "fetch"]]
  /\ ui' = [rx |-> n, playOnLoad |-> ui.playOnLoad \/ play]
  /\ UNCHANGED <<deck, scan, disk, cache, handGrids, restarts>>

\* LOAD on a local, a linked or a served track; the autoload of the first frames plays it.
LoadTrack == \E path \in Files \cup Linked : StartFetch(path, FALSE)
Autoload  == Newest = 0 /\ \E path \in Files : StartFetch(path, TRUE)

\* Mutant of Applied: the sender keeps the grid of the track before.
AppliedQuietly(n) ==
  LET content == job[n].content IN
  [deck EXCEPT !.job = n, !.path = job[n].path, !.audio = content, !.tags = content,
     !.wave = content, !.gridOrig = job[n].grid, !.playing = FALSE,
     !.grid = IF job[n].path \in handGrids THEN <<"hand", job[n].path>> ELSE job[n].grid]

\* apply_prepared: every part of the track, then its grid, for the deck and the sender.
Applied(n) ==
  LET content == job[n].content
      grid == IF job[n].path \in handGrids THEN <<"hand", job[n].path>> ELSE job[n].grid IN
  [deck EXCEPT !.job = n, !.path = job[n].path, !.audio = content, !.tags = content,
     !.wave = content, !.gridOrig = job[n].grid, !.playing = FALSE,
     !.grid = grid, !.linkGrid = grid]

\* load_samples refuses other channel counts after path and tags were replaced.
AppliedHalf(n) == [deck EXCEPT !.job = n, !.path = job[n].path, !.tags = job[n].content]

\* Mutant of Arrived: a dead thread is waited for like a working one.
ArrivedAlive(n) == job[n].stage \in {"ready", "failed"}

\* try_recv: a result, or the sender is gone.
Arrived(n) == job[n].stage \in {"ready", "failed", "dead"}

\* Mutant of Waited: an older load that ends is swapped in as well.
WaitedAny(n) == Begun(n) /\ ui.rx # 0

Waited(n) == ui.rx = n

\* poll_fetch: swap the track in, or say that the load failed.
PollFetch ==
  /\ \E n \in Jobs :
       /\ Waited(n) /\ Arrived(n)
       /\ LET fits == job[n].stage = "ready" /\ job[n].path \notin Odd IN
          /\ deck' = IF fits THEN [Applied(n) EXCEPT !.playing = ui.playOnLoad]
                     ELSE IF job[n].stage = "ready" THEN AppliedHalf(n) ELSE deck
          /\ ui' = NoWait
  /\ UNCHANGED <<job, scan, disk, cache, handGrids, restarts>>

\* GRID ADJUST on the loaded track; RESET takes the analysed grid back.
AdjustGrid ==
  /\ deck.grid # None
  /\ LET grid == <<"hand", deck.path>> IN
     /\ deck' = [deck EXCEPT !.grid = grid, !.linkGrid = grid]
     /\ handGrids' = handGrids \cup {deck.path}
  /\ UNCHANGED <<ui, job, scan, disk, cache, restarts>>

ResetGrid ==
  /\ deck.path \in handGrids
  /\ deck' = [deck EXCEPT !.grid = deck.gridOrig, !.linkGrid = deck.gridOrig]
  /\ handGrids' = handGrids \ {deck.path}
  /\ UNCHANGED <<ui, job, scan, disk, cache, restarts>>

---------------------------------------------------------------------------
(* A loader thread. *)

Step(n, next) ==
  /\ job' = [job EXCEPT ![n] = next]
  /\ UNCHANGED <<deck, ui, scan, disk, handGrids, restarts>>

\* decode_file; a file that is not audio fails the load.
DecodeFile(n) ==
  /\ job[n].stage = "decode" /\ UNCHANGED cache
  /\ \/ Step(n, [job[n] EXCEPT !.stage = "grid", !.content = Content(job[n].path)])
     \/ Step(n, [job[n] EXCEPT !.stage = "failed"])

\* The grid of the media server's analysis, if it has one; else detected in finish.
TakeGrid(n) ==
  /\ job[n].stage = "grid" /\ UNCHANGED cache
  /\ LET cached == Cached(job[n].path) IN
     Step(n, [job[n] EXCEPT !.grid = IF cached = None THEN job[n].content ELSE cached,
                            !.stage = IF cached = None THEN "finishStore" ELSE "finish"])

\* load_track_link, load_track_db and Prep::complete: the peer's file, and its grid or none.
FetchFile(n) ==
  /\ job[n].stage = "fetch" /\ UNCHANGED cache
  /\ \/ Step(n, [job[n] EXCEPT !.stage = "finish", !.content = Content(job[n].path),
                               !.grid = Content(job[n].path)])
     \/ Step(n, [job[n] EXCEPT !.stage = "failed"])

Fits(n) == job[n].path \notin Odd

\* Prep::finish: other channel counts are refused; a grid that was detected is cached.
Finish(n) ==
  /\ job[n].stage \in {"finish", "finishStore"}
  /\ IF ~Fits(n) THEN Step(n, [job[n] EXCEPT !.stage = "failed"]) /\ UNCHANGED cache
     ELSE IF job[n].stage = "finish"
     THEN Step(n, [job[n] EXCEPT !.stage = "ready"]) /\ UNCHANGED cache
     ELSE Step(n, [job[n] EXCEPT !.stage = "store"]) /\ BeginRecord(job[n].path)

EndStore(n) ==
  /\ job[n].stage = "store"
  /\ Step(n, [job[n] EXCEPT !.stage = "ready"]) /\ EndRecord(job[n].path, job[n].content)

\* The decoder panics on a file: the thread is gone, and its sender with it.
ThreadDies(n) ==
  /\ job[n].stage \in {"decode", "finish"} /\ UNCHANGED cache
  /\ Step(n, [job[n] EXCEPT !.stage = "dead"])

Loader(n) == DecodeFile(n) \/ TakeGrid(n) \/ FetchFile(n) \/ Finish(n) \/ EndStore(n)

---------------------------------------------------------------------------
(* The media server's analysis of every file (start_analysis), and the world. *)

AnalyseFile ==
  /\ \/ /\ scan.stage = "next" /\ scan.left # {} /\ UNCHANGED cache
        /\ \E path \in scan.left :
             scan' = [scan EXCEPT !.left = @ \ {path}, !.path = path, !.content = Content(path),
                        !.stage = IF Cached(path) = None THEN "analysed" ELSE "next"]
     \/ /\ scan.stage = "analysed" /\ scan' = [scan EXCEPT !.stage = "store"]
        /\ BeginRecord(scan.path)
     \/ /\ scan.stage = "store" /\ scan' = [scan EXCEPT !.stage = "next"]
        /\ EndRecord(scan.path, scan.content)
  /\ UNCHANGED <<deck, ui, job, disk, handGrids, restarts>>

InUse(path) ==
  \/ \E n \in Jobs : job[n].path = path /\ job[n].stage \in {"grid", "finish", "finishStore", "store"}
  \/ scan.path = path /\ scan.stage # "next"

\* The user copies another track over the file.
ReplaceFile ==
  /\ \E path \in Files :
       /\ disk[path] < MaxVersion /\ (ReplaceInUse \/ ~InUse(path))
       /\ disk' = [disk EXCEPT ![path] = @ + 1]
  /\ UNCHANGED <<deck, ui, job, scan, cache, handGrids, restarts>>

Started == [stage |-> "next", left |-> Files, path |-> None, content |-> None]

\* Off and on: the files stay, records as far as they were written.
Restart ==
  /\ restarts < MaxRestarts /\ restarts' = restarts + 1
  /\ deck' = EmptyDeck /\ ui' = NoWait /\ scan' = Started
  /\ job' = [n \in Jobs |-> IF Begun(n) THEN [NoJob EXCEPT !.stage = "gone"] ELSE NoJob]
  /\ UNCHANGED <<disk, cache, handGrids>>

LoadInit ==
  /\ deck = EmptyDeck /\ ui = NoWait /\ job = [n \in Jobs |-> NoJob]
  /\ scan = Started /\ disk = [path \in Files |-> 0]
  /\ cache = [path \in Files |-> [v \in 0 .. MaxVersion |-> Missing]]
  /\ handGrids = {} /\ restarts = 0

LoadNext ==
  \/ LoadTrack \/ Autoload \/ PollFetch \/ AdjustGrid \/ ResetGrid
  \/ \E n \in Jobs : Loader(n) \/ ThreadDies(n)
  \/ AnalyseFile \/ ReplaceFile \/ Restart

\* Threads run, and the frame loop polls.
LoadFairness == WF_loadVars(PollFetch) /\ \A n \in Jobs : WF_loadVars(Loader(n))

LoadSpec == LoadInit /\ [][LoadNext]_loadVars

---------------------------------------------------------------------------
(* What a load promises. *)

\* The deck holds one track: its sound, tags and waveform were made from the same
\* content of the path shown, and its grid is that content's or the hand-adjusted
\* one of that path; the link's sender has the same grid (apply_prepared, grid_changed).
OneTrackOnDeck ==
  deck.job # 0 =>
    /\ deck.audio = deck.tags /\ deck.audio = deck.wave /\ deck.audio[1] = deck.path
    /\ deck.grid \in {deck.audio, <<"hand", deck.path>>}
    /\ deck.linkGrid = deck.grid

\* Only the newest load is ever swapped in, whichever thread ends first (start_fetch).
NewestLoadWins ==
  [][deck'.job # deck.job => deck'.job \in {Newest, 0}]_loadVars

\* The screen never says "loading" for ever, whatever becomes of the thread (poll_fetch).
LoadingEnds == ui.rx # 0 ~> ui.rx = 0

\* A replaced file is analysed again, and a record whose writing was cut short is
\* not used: what the cache answers was made from the file as it is (mediaserver/
\* src/lib.rs:235 and the note above cache_key).
CacheIsOfTheFile ==
  \A path \in Files : Cached(path) \in {None, Content(path)}
===========================================================================
