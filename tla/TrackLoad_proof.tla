-------------------------- MODULE TrackLoad_proof --------------------------
(***************************************************************************)
(* What a load promises, for any number of tracks, loads, replaced files   *)
(* and restarts.  NewestLoadWins needs to know which loads were begun and  *)
(* that the screen waits for the last of them; the deck's and the cache's  *)
(* promises that every thread with a file in its hands has the content     *)
(* that is on the disk.                                                    *)
(***************************************************************************)
EXTENDS TrackLoad, FiniteSetTheorems, TLAPS

Paths    == Files \cup Linked
Versions == 0 .. MaxVersion
\* Contents and grids, the records cut short and the hand-adjusted grids.
Made     == {None} \cup (Paths \X Nat) \cup ({"cut", "hand"} \X (Paths \cup {None}))
Records  == [of : Made, whole : BOOLEAN]
Stages   == {"none", "decode", "grid", "fetch", "finish", "finishStore", "store",
             "ready", "failed", "dead", "gone"}
JobRecords  == [path : Paths \cup {None}, stage : Stages, content : Made, grid : Made]
DeckRecords == [job : {0} \cup Jobs, path : Paths \cup {None}, audio : Made, tags : Made,
                wave : Made, grid : Made, gridOrig : Made, linkGrid : Made, playing : BOOLEAN]
Reading == {"decode", "grid", "finishStore", "store"}
Loading == Reading \cup {"fetch", "finish"}

TypeInv ==
  /\ deck \in DeckRecords
  /\ ui \in [rx : {0} \cup Jobs, playOnLoad : BOOLEAN]
  /\ job \in [Jobs -> JobRecords]
  /\ scan \in [stage : {"next", "analysed", "store"}, left : SUBSET Files,
               path : Files \cup {None}, content : Made]
  /\ disk \in [Files -> Versions]
  /\ cache \in [Files -> [Versions -> Records]]

\* A thread that is at work on a track has one; only files of this unit are cached.
HasATrack(n) ==
  /\ job[n].stage \in Reading => job[n].path \in Files
  /\ job[n].stage \in Loading \cup {"ready"} => job[n].path \in Paths
HaveTracks == (\A n \in Jobs : HasATrack(n)) /\ (scan.stage # "next" => scan.path \in Files)

\* The loads begun are the first ones, and the screen waits for the last.
InOrder ==
  \E k \in 0 .. MaxLoads :
    /\ \A n \in Jobs : Begun(n) <=> n <= k
    /\ ui.rx \in {0, k}

OrderInv == TypeInv /\ HaveTracks /\ InOrder

\* A record that is whole was made from the version it is named by.
RecordsAreTrue ==
  \A path \in Files, v \in Versions : cache[path][v].whole => cache[path][v].of = <<path, v>>

\* A thread that holds a file holds what is on the disk.
HoldsTheFile(load) ==
  /\ load.stage \in {"grid", "finish", "finishStore", "store"} =>
       load.content = Content(load.path)
  /\ load.stage \in {"finish", "finishStore", "store"} => load.grid = load.content
ScanHoldsTheFile ==
  scan.stage # "next" => scan.content = Content(scan.path)

\* A result is one track, with its own grid, that the deck can play.
ResultIsATrack(load) ==
  /\ load.stage = "ready" => load.content[1] = load.path /\ load.grid = load.content
  /\ load.stage \in {"store", "ready"} => load.path \notin Odd

Threads == \A n \in Jobs : HoldsTheFile(job[n]) /\ ResultIsATrack(job[n])

\* The deck holds one track, and remembers its analysed grid.
DeckIsATrack == OneTrackOnDeck /\ (deck.job # 0 => deck.gridOrig = deck.audio)

IInv == OrderInv /\ RecordsAreTrue /\ ScanHoldsTheFile /\ Threads /\ DeckIsATrack

USE LoadAssumption DEF LoadAssumption

-----------------------------------------------------------------------------
(* The model's operators. *)

\* What a file holds is made of that file.
LEMMA ContentTyped ==
  ASSUME TypeInv, NEW path \in Paths
  PROVE  /\ Content(path) \in Made /\ Content(path)[1] = path
         /\ path \in Files => Content(path) = <<path, disk[path]>> /\ disk[path] \in Versions
  BY DEF TypeInv, Content, Made, Versions, Paths

\* What the cache answers is something that was stored.
LEMMA CachedTyped ==
  ASSUME TypeInv, NEW path \in Files
  PROVE  Cached(path) \in Made
<1>1. cache[path][disk[path]] \in Records
  BY DEF TypeInv
<1> QED
  BY <1>1 DEF Cached, Decoded, Record, Records, Made

\* What the cache answers is the analysis of the file as it is, or nothing.
LEMMA CachedIsTrue ==
  ASSUME TypeInv, RecordsAreTrue, NEW path \in Files
  PROVE  Cached(path) \in {None, Content(path)}
<1>1. disk[path] \in Versions
  BY DEF TypeInv
<1> QED
  BY <1>1 DEF RecordsAreTrue, Cached, Decoded, Record, Content

\* Writing the record of a file leaves it cut short, and the others as they are.
LEMMA BeginWritten ==
  ASSUME TypeInv, NEW path \in Files, BeginRecord(path)
  PROVE  /\ cache' \in [Files -> [Versions -> Records]]
         /\ RecordsAreTrue => RecordsAreTrue'
<1> DEFINE r == [of |-> <<"cut", path>>, whole |-> FALSE]
<1>1. r \in Records /\ r.whole = FALSE
  BY DEF Records, Made, Paths
<1>2. cache' = [cache EXCEPT ![path][disk[path]] = r]
  BY DEF BeginRecord
<1> HIDE DEF r
<1>3. /\ cache' \in [Files -> [Versions -> Records]]
      /\ \A p \in Files, v \in Versions :
           cache'[p][v] = IF p = path /\ v = disk[path] THEN r ELSE cache[p][v]
  <2>1. disk[path] \in Versions /\ cache \in [Files -> [Versions -> Records]]
    BY DEF TypeInv
  <2> QED
    BY <1>1, <1>2, <2>1
<1>4. ASSUME RecordsAreTrue, NEW p \in Files, NEW v \in Versions, cache'[p][v].whole
      PROVE  cache'[p][v].of = <<p, v>>
  <2>1. cache'[p][v] = cache[p][v]
    BY <1>1, <1>3, <1>4
  <2> QED
    BY <1>4, <2>1 DEF RecordsAreTrue
<1> QED
  BY <1>3, <1>4 DEF RecordsAreTrue

\* A record that is finished holds what it was given; given the content on the disk, it is true.
LEMMA EndWritten ==
  ASSUME TypeInv, NEW path \in Files, NEW content \in Made, EndRecord(path, content)
  PROVE  /\ cache' \in [Files -> [Versions -> Records]]
         /\ content = Content(path) /\ RecordsAreTrue => RecordsAreTrue'
<1> DEFINE r == [of |-> content, whole |-> TRUE]
<1>1. r \in Records /\ r.of = content
  BY DEF Records
<1>2. cache' = [cache EXCEPT ![path][disk[path]] = r]
  BY DEF EndRecord
<1>3. Content(path) = <<path, disk[path]>>
  BY ContentTyped DEF Paths
<1> HIDE DEF r
<1>4. /\ cache' \in [Files -> [Versions -> Records]]
      /\ \A p \in Files, v \in Versions :
           cache'[p][v] = IF p = path /\ v = disk[path] THEN r ELSE cache[p][v]
  <2>1. disk[path] \in Versions /\ cache \in [Files -> [Versions -> Records]]
    BY DEF TypeInv
  <2> QED
    BY <1>1, <1>2, <2>1
<1>5. ASSUME content = Content(path), RecordsAreTrue,
             NEW p \in Files, NEW v \in Versions, cache'[p][v].whole
      PROVE  cache'[p][v].of = <<p, v>>
  <2>1. CASE p = path /\ v = disk[path]
    BY <1>1, <1>3, <1>4, <1>5, <2>1
  <2>2. CASE ~(p = path /\ v = disk[path])
    BY <1>4, <1>5, <2>2 DEF RecordsAreTrue
  <2> QED
    BY <2>1, <2>2
<1> QED
  BY <1>4, <1>5 DEF RecordsAreTrue

\* The loads that were begun are counted by the last of them.
LEMMA NewestIsTheLast ==
  ASSUME NEW k \in 0 .. MaxLoads, \A n \in Jobs : Begun(n) <=> n <= k
  PROVE  Newest = k
<1>1. {n \in Jobs : Begun(n)} = 1 .. k
  BY DEF Jobs
<1>2. Cardinality(1 .. k) = IF 1 > k THEN 0 ELSE k - 1 + 1
  BY FS_Interval
<1>3. Cardinality(1 .. k) = k
  BY <1>2
<1> QED
  BY <1>1, <1>3 DEF Newest

-----------------------------------------------------------------------------
(* The order of the loads. *)

\* A step of a thread that goes to another stage of its load keeps the order.
LEMMA StepTyped ==
  ASSUME OrderInv, NEW n \in Jobs, NEW next \in JobRecords, Step(n, next),
         Begun(n), next.stage # "none", next.path = job[n].path,
         next.stage \in Reading => job[n].stage \in Reading,
         next.stage \in Loading \cup {"ready"} => job[n].stage \in Loading,
         cache' \in [Files -> [Versions -> Records]]
  PROVE  OrderInv'
<1>1. job \in [Jobs -> JobRecords] /\ job' = [job EXCEPT ![n] = next]
  BY DEF OrderInv, TypeInv, Step
<1>2. job' \in [Jobs -> JobRecords] /\ \A m \in Jobs : job'[m] = IF m = n THEN next ELSE job[m]
  BY <1>1
<1>3. TypeInv'
  BY <1>2 DEF OrderInv, TypeInv, Step
<1>4. HaveTracks'
  BY <1>2 DEF OrderInv, HaveTracks, HasATrack, Step
<1>5. \A m \in Jobs : Begun(m)' <=> Begun(m)
  BY <1>2 DEF Begun
<1>6. InOrder'
  BY <1>5 DEF OrderInv, InOrder, Step
<1> QED
  BY <1>3, <1>4, <1>6 DEF OrderInv

\* A new load is the next in order, and the one the screen waits for.
LEMMA StartTyped ==
  ASSUME OrderInv, NEW path \in Paths, NEW play \in BOOLEAN, StartFetch(path, play)
  PROVE  OrderInv'
<1>1. PICK k \in 0 .. MaxLoads : (\A n \in Jobs : Begun(n) <=> n <= k) /\ ui.rx \in {0, k}
  BY DEF OrderInv, InOrder
<1> DEFINE n == k + 1
           next == [NoJob EXCEPT !.path = path,
                                 !.stage = IF path \in Files THEN "decode" ELSE "fetch"]
<1>2. Newest = k
  BY <1>1, NewestIsTheLast
<1>3. n \in Jobs /\ job' = [job EXCEPT ![n] = next] /\ ui' = [rx |-> n, playOnLoad |-> ui.playOnLoad \/ play]
  BY <1>2 DEF StartFetch
<1>4. /\ next \in JobRecords /\ next.path = path /\ next.stage # "none" /\ next.stage # "ready"
      /\ next.stage \in Reading => path \in Files
  BY DEF NoJob, JobRecords, Paths, Stages, Made, Reading
<1> HIDE DEF next
<1>5. job \in [Jobs -> JobRecords]
  BY DEF OrderInv, TypeInv
<1>6. job' \in [Jobs -> JobRecords] /\ \A m \in Jobs : job'[m] = IF m = n THEN next ELSE job[m]
  BY <1>3, <1>4, <1>5
<1>7. TypeInv'
  BY <1>3, <1>6 DEF OrderInv, TypeInv, StartFetch
<1>8. HaveTracks'
  BY <1>4, <1>6 DEF OrderInv, HaveTracks, HasATrack, StartFetch
<1>9. \A m \in Jobs : Begun(m)' <=> m <= n
  BY <1>1, <1>4, <1>6 DEF Begun, Jobs
<1>10. InOrder'
  BY <1>3, <1>9 DEF InOrder, Jobs
<1> QED
  BY <1>7, <1>8, <1>10 DEF OrderInv

\* The order starts empty.
LEMMA OrderInit == LoadInit => OrderInv
<1> SUFFICES ASSUME LoadInit PROVE OrderInv
  OBVIOUS
<1>1. TypeInv
  BY DEF LoadInit, TypeInv, EmptyDeck, NoWait, NoJob, Started, Missing, DeckRecords, JobRecords,
         Records, Made, Stages, Versions
<1>2. HaveTracks
  BY DEF LoadInit, HaveTracks, HasATrack, NoJob, Started, Reading, Loading
<1>3. 0 \in 0 .. MaxLoads /\ (\A n \in Jobs : Begun(n) <=> n <= 0) /\ ui.rx = 0
  BY DEF LoadInit, Begun, NoJob, NoWait, Jobs
<1> QED
  BY <1>1, <1>2, <1>3 DEF OrderInv, InOrder

\* Every step keeps the types, the tracks and the order.
LEMMA OrderStep == OrderInv /\ [LoadNext]_loadVars => OrderInv'
<1> SUFFICES ASSUME OrderInv, [LoadNext]_loadVars PROVE OrderInv'
  OBVIOUS
<1> USE DEF OrderInv
<1>T. \A n \in Jobs : job[n] \in JobRecords
  BY DEF TypeInv
<1>1. CASE LoadTrack
  BY <1>1, StartTyped DEF LoadTrack, Paths
<1>2. CASE Autoload
  BY <1>2, StartTyped DEF Autoload, Paths
<1>3. CASE PollFetch
  <2>1. PICK n \in Jobs : /\ Waited(n) /\ Arrived(n) /\ ui' = NoWait
          /\ deck' \in {[Applied(n) EXCEPT !.playing = ui.playOnLoad], AppliedHalf(n), deck}
    BY <1>3 DEF PollFetch
  <2>2. job[n] \in JobRecords /\ deck \in DeckRecords /\ ui.playOnLoad \in BOOLEAN
    BY DEF TypeInv
  <2>3. <<"hand", job[n].path>> \in Made
    BY <2>2 DEF Made, JobRecords
  <2>4. deck' \in DeckRecords
    <3>1. CASE deck' = [Applied(n) EXCEPT !.playing = ui.playOnLoad]
      <4>1. Applied(n) \in DeckRecords
        <5>1. (IF job[n].path \in handGrids THEN <<"hand", job[n].path>> ELSE job[n].grid) \in Made
          BY <2>2, <2>3 DEF JobRecords
        <5> QED
          BY <2>2, <5>1 DEF Applied, DeckRecords, JobRecords
      <4> QED
        BY <2>2, <3>1, <4>1 DEF DeckRecords
    <3>2. CASE deck' = AppliedHalf(n)
      BY <2>2, <3>2 DEF AppliedHalf, DeckRecords, JobRecords
    <3> QED
      BY <2>1, <2>2, <3>1, <3>2
  <2>5. TypeInv'
    BY <1>3, <2>1, <2>4 DEF TypeInv, PollFetch, NoWait
  <2>6. HaveTracks' /\ InOrder'
    BY <1>3, <2>1 DEF HaveTracks, HasATrack, InOrder, Begun, PollFetch, NoWait
  <2> QED
    BY <2>5, <2>6
<1>4. CASE AdjustGrid
  <2>1. deck \in DeckRecords /\ <<"hand", deck.path>> \in Made
    BY DEF TypeInv, DeckRecords, Made
  <2>2. deck' \in DeckRecords
    BY <1>4, <2>1 DEF AdjustGrid, DeckRecords
  <2> QED
    BY <1>4, <2>2 DEF AdjustGrid, TypeInv, HaveTracks, HasATrack, InOrder, Begun
<1>5. CASE ResetGrid
  <2>1. deck \in DeckRecords
    BY DEF TypeInv
  <2>2. deck' \in DeckRecords
    BY <1>5, <2>1 DEF ResetGrid, DeckRecords
  <2> QED
    BY <1>5, <2>2 DEF ResetGrid, TypeInv, HaveTracks, HasATrack, InOrder, Begun
<1>6. ASSUME NEW n \in Jobs, DecodeFile(n) PROVE OrderInv'
  <2>1. job[n].path \in Files /\ Content(job[n].path) \in Made
    BY <1>6, ContentTyped DEF DecodeFile, HaveTracks, HasATrack, Reading, Paths
  <2>2. PICK next \in {[job[n] EXCEPT !.stage = "grid", !.content = Content(job[n].path)],
                       [job[n] EXCEPT !.stage = "failed"]} : Step(n, next)
    BY <1>6 DEF DecodeFile
  <2>3. /\ next \in JobRecords /\ next.stage \in {"grid", "failed"}
        /\ next.path = job[n].path
    BY <1>T, <2>1, <2>2 DEF JobRecords, Stages
  <2> QED
    BY <1>6, <2>2, <2>3, StepTyped DEF DecodeFile, Begun, Reading, Loading, TypeInv
<1>7. ASSUME NEW n \in Jobs, TakeGrid(n) PROVE OrderInv'
  <2>1. job[n].path \in Files /\ Cached(job[n].path) \in Made
    BY <1>7, CachedTyped DEF TakeGrid, HaveTracks, HasATrack, Reading
  <2>2. PICK g \in Made, s \in {"finishStore", "finish"} :
          Step(n, [job[n] EXCEPT !.grid = g, !.stage = s])
    BY <1>7, <1>T, <2>1 DEF TakeGrid, JobRecords
  <2>3. [job[n] EXCEPT !.grid = g, !.stage = s] \in JobRecords
    BY <1>T, <2>2 DEF JobRecords, Stages
  <2>4. /\ [job[n] EXCEPT !.grid = g, !.stage = s].stage = s
        /\ [job[n] EXCEPT !.grid = g, !.stage = s].path = job[n].path
    BY <1>T DEF JobRecords
  <2> QED
    BY <1>7, <2>2, <2>3, <2>4, StepTyped DEF TakeGrid, Begun, Reading, Loading, TypeInv
<1>8. ASSUME NEW n \in Jobs, FetchFile(n) PROVE OrderInv'
  <2>1. Content(job[n].path) \in Made
    BY <1>8, ContentTyped DEF FetchFile, HaveTracks, HasATrack, Loading
  <2>2. PICK next \in {[job[n] EXCEPT !.stage = "finish", !.content = Content(job[n].path),
                                      !.grid = Content(job[n].path)],
                       [job[n] EXCEPT !.stage = "failed"]} : Step(n, next)
    BY <1>8 DEF FetchFile
  <2>3. /\ next \in JobRecords /\ next.stage \in {"finish", "failed"}
        /\ next.path = job[n].path
    BY <1>T, <2>1, <2>2 DEF JobRecords, Stages
  <2> QED
    BY <1>8, <2>2, <2>3, StepTyped DEF FetchFile, Begun, Reading, Loading, TypeInv
<1>9. ASSUME NEW n \in Jobs, Finish(n) PROVE OrderInv'
  <2>1. PICK s \in {"failed", "ready", "store"} :
          /\ Step(n, [job[n] EXCEPT !.stage = s])
          /\ s = "store" => job[n].stage = "finishStore" /\ BeginRecord(job[n].path)
          /\ s # "store" => UNCHANGED cache
    BY <1>9 DEF Finish
  <2>2. [job[n] EXCEPT !.stage = s] \in JobRecords
    BY <1>T, <2>1 DEF JobRecords, Stages
  <2>3. [job[n] EXCEPT !.stage = s].stage = s /\ [job[n] EXCEPT !.stage = s].path = job[n].path
    BY <1>T DEF JobRecords
  <2>4. cache' \in [Files -> [Versions -> Records]]
    BY <2>1, BeginWritten DEF TypeInv, HaveTracks, HasATrack, Reading
  <2> QED
    BY <1>9, <2>1, <2>2, <2>3, <2>4, StepTyped DEF Finish, Begun, Reading, Loading
<1>10. ASSUME NEW n \in Jobs, EndStore(n) PROVE OrderInv'
  <2>1. [job[n] EXCEPT !.stage = "ready"] \in JobRecords /\ job[n].content \in Made
    BY <1>T DEF JobRecords, Stages
  <2>2. /\ [job[n] EXCEPT !.stage = "ready"].stage = "ready"
        /\ [job[n] EXCEPT !.stage = "ready"].path = job[n].path
    BY <1>T DEF JobRecords
  <2>3. cache' \in [Files -> [Versions -> Records]]
    BY <1>10, <2>1, EndWritten DEF EndStore, HaveTracks, HasATrack, Reading
  <2> QED
    BY <1>10, <2>1, <2>2, <2>3, StepTyped DEF EndStore, Begun, Reading, Loading
<1>11. ASSUME NEW n \in Jobs, ThreadDies(n) PROVE OrderInv'
  <2>1. [job[n] EXCEPT !.stage = "dead"] \in JobRecords
    BY <1>T DEF JobRecords, Stages
  <2>2. /\ [job[n] EXCEPT !.stage = "dead"].stage = "dead"
        /\ [job[n] EXCEPT !.stage = "dead"].path = job[n].path
    BY <1>T DEF JobRecords
  <2> QED
    BY <1>11, <2>1, <2>2, StepTyped DEF ThreadDies, Begun, Reading, Loading, TypeInv
<1>12. CASE AnalyseFile
  <2>1. scan' \in [stage : {"next", "analysed", "store"}, left : SUBSET Files,
                   path : Files \cup {None}, content : Made]
        /\ (scan'.stage # "next" => scan'.path \in Files)
    <3>1. CASE \E path \in scan.left :
                 scan' = [scan EXCEPT !.left = @ \ {path}, !.path = path, !.content = Content(path),
                            !.stage = IF Cached(path) = None THEN "analysed" ELSE "next"]
      <4>1. PICK path \in Files, s \in {"next", "analysed"}, left \in SUBSET Files :
              scan' = [scan EXCEPT !.left = left, !.path = path, !.content = Content(path),
                         !.stage = s]
        BY <3>1 DEF TypeInv
      <4>2. Content(path) \in Made
        BY ContentTyped DEF Paths
      <4> QED
        BY <4>1, <4>2 DEF TypeInv
    <3>2. CASE \E s \in {"next", "store"} :
                 scan.stage # "next" /\ scan' = [scan EXCEPT !.stage = s]
      BY <3>2 DEF TypeInv, HaveTracks
    <3> QED
      BY <1>12, <3>1, <3>2 DEF AnalyseFile
  <2>2. cache' \in [Files -> [Versions -> Records]]
    BY <1>12, BeginWritten, EndWritten DEF AnalyseFile, TypeInv, HaveTracks
  <2> QED
    BY <1>12, <2>1, <2>2 DEF AnalyseFile, TypeInv, HaveTracks, HasATrack, InOrder, Begun
<1>13. CASE ReplaceFile
  <2>1. disk' \in [Files -> Versions]
    BY <1>13 DEF ReplaceFile, TypeInv, Versions
  <2> QED
    BY <1>13, <2>1 DEF ReplaceFile, TypeInv, HaveTracks, HasATrack, InOrder, Begun
<1>14. CASE Restart
  <2>1. \A n \in Jobs : job'[n] = IF Begun(n) THEN [NoJob EXCEPT !.stage = "gone"] ELSE NoJob
    BY <1>14 DEF Restart
  <2>2. \A n \in Jobs : job'[n].stage \in {"gone", "none"} /\ (Begun(n)' <=> Begun(n))
    BY <2>1 DEF Begun, NoJob
  <2>3. job' \in [Jobs -> JobRecords]
    BY <1>14 DEF Restart, NoJob, JobRecords, Stages, Made
  <2>4. TypeInv'
    BY <1>14, <2>3 DEF Restart, TypeInv, EmptyDeck, NoWait, Started, DeckRecords, Made
  <2>5. HaveTracks'
    BY <1>14, <2>2 DEF Restart, HaveTracks, HasATrack, Started, Reading, Loading
  <2>6. InOrder'
    BY <1>14, <2>2 DEF Restart, InOrder, NoWait
  <2> QED
    BY <2>4, <2>5, <2>6
<1>15. CASE UNCHANGED loadVars
  BY <1>15 DEF loadVars, TypeInv, HaveTracks, HasATrack, InOrder, Begun
<1> QED
  BY <1>1, <1>2, <1>3, <1>4, <1>5, <1>6, <1>7, <1>8, <1>9, <1>10, <1>11, <1>12, <1>13, <1>14, <1>15
     DEF LoadNext, Loader

\* Whatever a step does, the loads keep their types and their order.
THEOREM LoadOrder == LoadSpec => []OrderInv
<1> QED
  BY OrderInit, OrderStep, PTL DEF LoadSpec

\* Only the newest load is ever swapped in, whichever thread ends first.
THEOREM NewestWins == LoadSpec => NewestLoadWins
<1>1. OrderInv /\ [LoadNext]_loadVars => (deck'.job # deck.job => deck'.job \in {Newest, 0})
  <2> SUFFICES ASSUME OrderInv, [LoadNext]_loadVars, deck'.job # deck.job
               PROVE  deck'.job \in {Newest, 0}
    OBVIOUS
  <2>0. deck \in DeckRecords
    BY DEF OrderInv, TypeInv
  <2>1. CASE PollFetch
    <3>1. PICK n \in Jobs : Waited(n) /\ Arrived(n)
                           /\ deck' \in {[Applied(n) EXCEPT !.playing = ui.playOnLoad], AppliedHalf(n), deck}
      BY <2>1 DEF PollFetch
    <3>2. deck'.job = n
      BY <2>0, <3>1 DEF Applied, AppliedHalf, DeckRecords
    <3>3. PICK k \in 0 .. MaxLoads : (\A m \in Jobs : Begun(m) <=> m <= k) /\ ui.rx \in {0, k}
      BY DEF OrderInv, InOrder
    <3>4. n = k
      BY <3>1, <3>3 DEF Waited, Jobs
    <3> QED
      BY <3>2, <3>3, <3>4, NewestIsTheLast
  <2>2. CASE AdjustGrid \/ ResetGrid
    BY <2>0, <2>2 DEF AdjustGrid, ResetGrid, DeckRecords
  <2>3. CASE Restart
    BY <2>3 DEF Restart, EmptyDeck
  <2>4. ASSUME UNCHANGED deck PROVE FALSE
    BY <2>4
  <2> QED
    BY <2>1, <2>2, <2>3, <2>4
       DEF LoadNext, LoadTrack, Autoload, StartFetch, Loader, DecodeFile, TakeGrid, FetchFile, Finish,
           EndStore, ThreadDies, Step, AnalyseFile, ReplaceFile, loadVars
<1> QED
  BY <1>1, LoadOrder, PTL DEF LoadSpec, NewestLoadWins

-----------------------------------------------------------------------------
(* One track on the deck, and a true cache, when no file is replaced in use. *)

\* A thread that holds the file, and results that are a track, go on being so.
LEMMA ThreadMoved ==
  ASSUME IInv, NEW n \in Jobs, NEW next \in JobRecords, Step(n, next),
         HoldsTheFile(next), ResultIsATrack(next)
  PROVE  (ScanHoldsTheFile /\ Threads /\ DeckIsATrack)'
<1>1. \A m \in Jobs : job'[m] = IF m = n THEN next ELSE job[m]
  BY DEF Step, IInv, OrderInv, TypeInv
<1>2. \A path : Content(path)' = Content(path)
  BY DEF Content, Step
<1>3. Threads'
  BY <1>1, <1>2 DEF IInv, Threads, HoldsTheFile, ResultIsATrack
<1> QED
  BY <1>2, <1>3 DEF IInv, ScanHoldsTheFile, DeckIsATrack, OneTrackOnDeck, Step

\* At the start nothing is held, and no record is whole.
LEMMA TracksInit == LoadInit => IInv
<1> SUFFICES ASSUME LoadInit PROVE IInv
  OBVIOUS
<1>1. RecordsAreTrue
  BY DEF LoadInit, RecordsAreTrue, Missing, Versions
<1>2. ScanHoldsTheFile /\ Threads /\ DeckIsATrack
  BY DEF LoadInit, ScanHoldsTheFile, Threads, HoldsTheFile, ResultIsATrack, DeckIsATrack,
         OneTrackOnDeck, Started, NoJob, EmptyDeck
<1> QED
  BY <1>1, <1>2, OrderInit DEF IInv

\* Every step leaves each thread with the file on the disk, and one track on the deck.
LEMMA TracksStep ==
  ASSUME ReplaceInUse = FALSE
  PROVE  IInv /\ [LoadNext]_loadVars => IInv'
<1> SUFFICES ASSUME IInv, [LoadNext]_loadVars PROVE IInv'
  OBVIOUS
<1>O. OrderInv'
  BY OrderStep DEF IInv
<1>T. TypeInv /\ HaveTracks /\ deck \in DeckRecords /\ (\A n \in Jobs : job[n] \in JobRecords)
  BY DEF IInv, OrderInv, TypeInv
<1> SUFFICES (RecordsAreTrue /\ ScanHoldsTheFile /\ Threads /\ DeckIsATrack)'
  BY <1>O DEF IInv
<1>1. ASSUME NEW path \in Paths, NEW play \in BOOLEAN, StartFetch(path, play)
      PROVE  (RecordsAreTrue /\ ScanHoldsTheFile /\ Threads /\ DeckIsATrack)'
  <2> DEFINE next == [NoJob EXCEPT !.path = path,
                                   !.stage = IF path \in Files THEN "decode" ELSE "fetch"]
  <2>1. job' = [job EXCEPT ![Newest + 1] = next] /\ next.stage \in {"decode", "fetch"}
    BY <1>1 DEF StartFetch, NoJob
  <2> HIDE DEF next
  <2>2. \A m \in Jobs : job'[m] = job[m] \/ job'[m].stage \in {"decode", "fetch"}
    BY <2>1, <1>T DEF TypeInv
  <2>3. \A p : Content(p)' = Content(p)
    BY <1>1 DEF StartFetch, Content
  <2>4. Threads'
    BY <2>2, <2>3 DEF IInv, Threads, HoldsTheFile, ResultIsATrack
  <2> QED
    BY <1>1, <2>3, <2>4
       DEF StartFetch, IInv, RecordsAreTrue, ScanHoldsTheFile, DeckIsATrack, OneTrackOnDeck
<1>3. CASE PollFetch
  <2>1. PICK n \in Jobs : /\ Waited(n) /\ Arrived(n)
          /\ IF job[n].stage = "ready" /\ job[n].path \notin Odd
             THEN deck' = [Applied(n) EXCEPT !.playing = ui.playOnLoad]
             ELSE IF job[n].stage = "ready" THEN deck' = AppliedHalf(n) ELSE deck' = deck
    BY <1>3 DEF PollFetch
  <2>2. HoldsTheFile(job[n]) /\ ResultIsATrack(job[n])
    BY DEF IInv, Threads
  <2>3. DeckIsATrack'
    <3>1. CASE job[n].stage = "ready"
      <4>1. deck' = [Applied(n) EXCEPT !.playing = ui.playOnLoad]
        BY <2>1, <2>2, <3>1 DEF ResultIsATrack
      <4>2. /\ deck'.audio = job[n].content /\ deck'.tags = job[n].content
            /\ deck'.wave = job[n].content /\ deck'.path = job[n].path
            /\ deck'.gridOrig = job[n].grid /\ deck'.linkGrid = deck'.grid
            /\ deck'.grid \in {job[n].grid, <<"hand", job[n].path>>}
        BY <1>T, <4>1 DEF Applied, DeckRecords
      <4> QED
        BY <2>2, <3>1, <4>2 DEF DeckIsATrack, OneTrackOnDeck, ResultIsATrack
    <3>2. CASE job[n].stage # "ready"
      BY <2>1, <3>2 DEF IInv, DeckIsATrack, OneTrackOnDeck
    <3> QED
      BY <3>1, <3>2
  <2> QED
    BY <1>3, <2>3 DEF PollFetch, IInv, RecordsAreTrue, ScanHoldsTheFile, Threads, HoldsTheFile,
                      ResultIsATrack, Content
<1>4. CASE AdjustGrid
  <2>1. DeckIsATrack'
    BY <1>T, <1>4 DEF AdjustGrid, IInv, DeckIsATrack, OneTrackOnDeck, DeckRecords
  <2> QED
    BY <1>4, <2>1 DEF AdjustGrid, IInv, RecordsAreTrue, ScanHoldsTheFile, Threads, HoldsTheFile,
                      ResultIsATrack, Content
<1>5. CASE ResetGrid
  <2>1. DeckIsATrack'
    BY <1>T, <1>5 DEF ResetGrid, IInv, DeckIsATrack, OneTrackOnDeck, DeckRecords
  <2> QED
    BY <1>5, <2>1 DEF ResetGrid, IInv, RecordsAreTrue, ScanHoldsTheFile, Threads, HoldsTheFile,
                      ResultIsATrack, Content
<1>6. ASSUME NEW n \in Jobs, DecodeFile(n)
      PROVE  (RecordsAreTrue /\ ScanHoldsTheFile /\ Threads /\ DeckIsATrack)'
  <2>1. Content(job[n].path) \in Made
    BY <1>6, <1>T, ContentTyped DEF DecodeFile, HaveTracks, HasATrack, Reading, Paths
  <2>2. PICK next \in {[job[n] EXCEPT !.stage = "grid", !.content = Content(job[n].path)],
                       [job[n] EXCEPT !.stage = "failed"]} : Step(n, next)
    BY <1>6 DEF DecodeFile
  <2>3. next \in JobRecords /\ HoldsTheFile(next) /\ ResultIsATrack(next)
    BY <1>T, <2>1, <2>2 DEF JobRecords, Stages, HoldsTheFile, ResultIsATrack
  <2> QED
    BY <1>6, <2>2, <2>3, ThreadMoved DEF DecodeFile, IInv, RecordsAreTrue
<1>7. ASSUME NEW n \in Jobs, TakeGrid(n)
      PROVE  (RecordsAreTrue /\ ScanHoldsTheFile /\ Threads /\ DeckIsATrack)'
  <2> DEFINE cached == Cached(job[n].path)
             next   == [job[n] EXCEPT !.grid = IF cached = None THEN job[n].content ELSE cached,
                                      !.stage = IF cached = None THEN "finishStore" ELSE "finish"]
  <2>1. job[n].path \in Files /\ job[n].content = Content(job[n].path) /\ job[n].content \in Made
    BY <1>7, <1>T DEF TakeGrid, HaveTracks, HasATrack, Reading, IInv, Threads, HoldsTheFile, JobRecords
  <2>2. cached \in {None, job[n].content}
    BY <1>T, <2>1, CachedIsTrue DEF IInv
  <2>3. PICK s \in {"finish", "finishStore"} :
          next = [job[n] EXCEPT !.grid = job[n].content, !.stage = s]
    BY <2>2
  <2>4. next \in JobRecords /\ HoldsTheFile(next) /\ ResultIsATrack(next)
    BY ZenonT(40), <1>T, <2>1, <2>3 DEF JobRecords, Stages, HoldsTheFile, ResultIsATrack
  <2>5. Step(n, next) /\ UNCHANGED cache
    BY <1>7 DEF TakeGrid
  <2> HIDE DEF next
  <2> QED
    BY <2>4, <2>5, ThreadMoved DEF IInv, RecordsAreTrue
<1>8. ASSUME NEW n \in Jobs, FetchFile(n)
      PROVE  (RecordsAreTrue /\ ScanHoldsTheFile /\ Threads /\ DeckIsATrack)'
  <2>1. Content(job[n].path) \in Made
    BY <1>8, <1>T, ContentTyped DEF FetchFile, HaveTracks, HasATrack, Loading
  <2>2. PICK next \in {[job[n] EXCEPT !.stage = "finish", !.content = Content(job[n].path),
                                      !.grid = Content(job[n].path)],
                       [job[n] EXCEPT !.stage = "failed"]} : Step(n, next)
    BY <1>8 DEF FetchFile
  <2>3. next \in JobRecords /\ HoldsTheFile(next) /\ ResultIsATrack(next)
    BY <1>T, <2>1, <2>2 DEF JobRecords, Stages, HoldsTheFile, ResultIsATrack
  <2> QED
    BY <1>8, <2>2, <2>3, ThreadMoved DEF FetchFile, IInv, RecordsAreTrue
<1>9. ASSUME NEW n \in Jobs, Finish(n)
      PROVE  (RecordsAreTrue /\ ScanHoldsTheFile /\ Threads /\ DeckIsATrack)'
  <2>1. PICK s \in {"failed", "ready", "store"} :
          /\ Step(n, [job[n] EXCEPT !.stage = s])
          /\ s # "failed" => Fits(n)
          /\ s = "store" => job[n].stage = "finishStore" /\ BeginRecord(job[n].path)
          /\ s # "store" => UNCHANGED cache
    BY <1>9 DEF Finish
  <2> DEFINE next == [job[n] EXCEPT !.stage = s]
  <2>2. job[n].path \in Paths /\ job[n].content = Content(job[n].path) /\ job[n].grid = job[n].content
    BY <1>9, <1>T DEF Finish, HaveTracks, HasATrack, Loading, Reading, IInv, Threads, HoldsTheFile, Paths
  <2>3. job[n].content[1] = job[n].path
    BY <1>T, <2>2, ContentTyped
  <2>4. next \in JobRecords /\ HoldsTheFile(next) /\ ResultIsATrack(next)
    BY <1>T, <2>1, <2>2, <2>3 DEF JobRecords, Stages, HoldsTheFile, ResultIsATrack, Fits
  <2>5. Step(n, next)
    BY <2>1
  <2> HIDE DEF next
  <2>6. RecordsAreTrue'
    <3>1. CASE s = "store"
      BY <1>T, <2>1, <3>1, BeginWritten DEF IInv, HaveTracks, HasATrack, Reading
    <3>2. CASE s # "store"
      BY <2>1, <3>2 DEF IInv, RecordsAreTrue
    <3> QED
      BY <3>1, <3>2
  <2> QED
    BY <2>4, <2>5, <2>6, ThreadMoved
<1>10. ASSUME NEW n \in Jobs, EndStore(n)
       PROVE  (RecordsAreTrue /\ ScanHoldsTheFile /\ Threads /\ DeckIsATrack)'
  <2> DEFINE next == [job[n] EXCEPT !.stage = "ready"]
  <2>1. /\ job[n].path \in Files /\ job[n].content = Content(job[n].path) /\ job[n].content \in Made
        /\ job[n].grid = job[n].content /\ job[n].path \notin Odd
    BY <1>10, <1>T DEF EndStore, HaveTracks, HasATrack, Reading, IInv, Threads, HoldsTheFile,
                       ResultIsATrack, JobRecords
  <2>2. job[n].content[1] = job[n].path
    BY <1>T, <2>1, ContentTyped DEF Paths
  <2>3. next \in JobRecords /\ HoldsTheFile(next) /\ ResultIsATrack(next)
    BY <1>T, <2>1, <2>2 DEF JobRecords, Stages, HoldsTheFile, ResultIsATrack
  <2>4. Step(n, next) /\ EndRecord(job[n].path, job[n].content)
    BY <1>10 DEF EndStore
  <2> HIDE DEF next
  <2>5. RecordsAreTrue'
    BY <1>T, <2>1, <2>4, EndWritten DEF IInv
  <2> QED
    BY <2>3, <2>4, <2>5, ThreadMoved
<1>11. ASSUME NEW n \in Jobs, ThreadDies(n)
       PROVE  (RecordsAreTrue /\ ScanHoldsTheFile /\ Threads /\ DeckIsATrack)'
  <2>1. /\ [job[n] EXCEPT !.stage = "dead"] \in JobRecords
        /\ HoldsTheFile([job[n] EXCEPT !.stage = "dead"])
        /\ ResultIsATrack([job[n] EXCEPT !.stage = "dead"])
    BY <1>T DEF JobRecords, Stages, HoldsTheFile, ResultIsATrack
  <2> QED
    BY <1>11, <2>1, ThreadMoved DEF ThreadDies, IInv, RecordsAreTrue
<1>12. CASE AnalyseFile
  <2>1. UNCHANGED <<deck, job, disk>>
    BY <1>12 DEF AnalyseFile
  <2>2. Threads' /\ DeckIsATrack'
    BY <2>1 DEF IInv, Threads, HoldsTheFile, ResultIsATrack, Content, DeckIsATrack, OneTrackOnDeck
  <2>3. CASE /\ scan.stage = "next" /\ scan.left # {} /\ UNCHANGED cache
             /\ \E path \in scan.left :
                  scan' = [scan EXCEPT !.left = @ \ {path}, !.path = path, !.content = Content(path),
                             !.stage = IF Cached(path) = None THEN "analysed" ELSE "next"]
    <3>1. scan'.content = Content(scan'.path)
      BY <1>T, <2>3 DEF TypeInv
    <3> QED
      BY <2>1, <2>2, <2>3, <3>1 DEF IInv, RecordsAreTrue, ScanHoldsTheFile, Content
  <2>4. CASE scan.stage = "analysed" /\ scan' = [scan EXCEPT !.stage = "store"] /\ BeginRecord(scan.path)
    <3>1. RecordsAreTrue'
      BY <1>T, <2>4, BeginWritten DEF IInv, HaveTracks
    <3>2. ScanHoldsTheFile'
      BY <1>T, <2>1, <2>4 DEF IInv, ScanHoldsTheFile, Content, TypeInv
    <3> QED
      BY <2>2, <3>1, <3>2
  <2>5. CASE /\ scan.stage = "store" /\ scan' = [scan EXCEPT !.stage = "next"]
             /\ EndRecord(scan.path, scan.content)
    <3>1. RecordsAreTrue'
      <4>1. scan.path \in Files /\ scan.content \in Made /\ scan.content = Content(scan.path)
        BY <1>T, <2>5 DEF IInv, HaveTracks, ScanHoldsTheFile, TypeInv
      <4> QED
        BY <1>T, <2>5, <4>1, EndWritten DEF IInv
    <3>2. ScanHoldsTheFile'
      BY <1>T, <2>5 DEF ScanHoldsTheFile, TypeInv
    <3> QED
      BY <2>2, <3>1, <3>2
  <2> QED
    BY <1>12, <2>3, <2>4, <2>5 DEF AnalyseFile
<1>13. CASE ReplaceFile
  <2>1. PICK path \in Files : ~InUse(path) /\ disk' = [disk EXCEPT ![path] = @ + 1]
    BY <1>13 DEF ReplaceFile
  <2>2. \A p : p # path => Content(p)' = Content(p)
    BY <1>T, <2>1 DEF TypeInv, Content
  <2>3. ScanHoldsTheFile'
    BY <1>13, <2>1, <2>2 DEF ReplaceFile, InUse, IInv, ScanHoldsTheFile
  <2>4. Threads'
    BY <1>13, <2>1, <2>2 DEF ReplaceFile, InUse, IInv, Threads, HoldsTheFile, ResultIsATrack
  <2> QED
    BY <1>13, <2>3, <2>4 DEF ReplaceFile, IInv, RecordsAreTrue, DeckIsATrack, OneTrackOnDeck
<1>14. CASE Restart
  <2>1. \A n \in Jobs : job'[n].stage \in {"gone", "none"}
    BY <1>14 DEF Restart, NoJob
  <2>2. Threads'
    BY <2>1 DEF Threads, HoldsTheFile, ResultIsATrack
  <2> QED
    BY <1>14, <2>2 DEF Restart, IInv, RecordsAreTrue, ScanHoldsTheFile, Started, DeckIsATrack,
                       OneTrackOnDeck, EmptyDeck
<1>15. CASE UNCHANGED loadVars
  BY <1>15 DEF loadVars, IInv, RecordsAreTrue, ScanHoldsTheFile, Threads, HoldsTheFile,
               ResultIsATrack, DeckIsATrack, OneTrackOnDeck, Content
<1>16. CASE LoadTrack \/ Autoload
  BY <1>1, <1>16 DEF LoadTrack, Autoload, Paths
<1> QED
  BY <1>3, <1>4, <1>5, <1>6, <1>7, <1>8, <1>9, <1>10, <1>11, <1>12, <1>13, <1>14, <1>15, <1>16
     DEF LoadNext, Loader

\* While no file is replaced under a thread that works on it, the deck's sound, tags,
\* waveform and grid are those of one track, and the sender's grid is the deck's.
THEOREM OneTrack ==
  ASSUME ReplaceInUse = FALSE
  PROVE  LoadSpec => []OneTrackOnDeck
<1>1. IInv /\ [LoadNext]_loadVars => IInv'
  BY TracksStep
<1>2. IInv => OneTrackOnDeck
  BY DEF IInv, DeckIsATrack
<1> QED
  BY <1>1, <1>2, TracksInit, PTL DEF LoadSpec

\* Under the same condition the analysis cache never answers with another
\* version's analysis, nor with a record whose writing was cut short.
THEOREM CacheIsTrue ==
  ASSUME ReplaceInUse = FALSE
  PROVE  LoadSpec => []CacheIsOfTheFile
<1>1. IInv /\ [LoadNext]_loadVars => IInv'
  BY TracksStep
<1>2. IInv => CacheIsOfTheFile
  BY CachedIsTrue DEF IInv, OrderInv, CacheIsOfTheFile
<1> QED
  BY <1>1, <1>2, TracksInit, PTL DEF LoadSpec
=============================================================================
