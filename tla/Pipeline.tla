------------------------------ MODULE Pipeline ------------------------------
(***************************************************************************)
(* From a camera's disk to the video browser: the scripts of processing/   *)
(* and the tables of video-browser/schema-mysql.sql.                       *)
(*                                                                         *)
(* scripts.sh, run by cron under a lock, copies new recordings, converts   *)
(* them, sorts them into folders by day, enters them in the database and   *)
(* looks for objects in them.  prune.sh, run by hand and under no lock, so *)
(* that runs may overlap, marks videos that show nothing of interest and   *)
(* removes their files and rows.  Each may die between any two steps.      *)
(***************************************************************************)
EXTENDS Integers, FiniteSets

CONSTANTS
    Videos,         \* recordings of one camera
    Content,        \* what each of them shows
    MaxFaults,      \* bound: commands that fail and scripts that die
    MaxPrunes       \* bound: runs of prune.sh

ASSUME PipelineConstants ==
    /\ Content \in [Videos -> {"nothing", "car", "person", "shadow", "both"}]
    /\ MaxFaults \in Nat /\ MaxPrunes \in Nat

\* What there is to see: a car is on the list of things not worth keeping, and
\* a tag of low confidence is not enough.
Car    == [tag |-> "car", confidence |-> "high"]
Person == [tag |-> "person", confidence |-> "high"]
Shadow == [tag |-> "person", confidence |-> "low"]
Objects(c) == CASE c = "car"    -> {Car}
                [] c = "person" -> {Person}
                [] c = "shadow" -> {Shadow}
                [] c = "both"   -> {Car, Person}
                [] OTHER        -> {}

\* A file: the whole video, a part that plays, or one that does not.
Files == {"none", "whole", "part", "broken"}
NoRow == [ran |-> FALSE, status |-> 0, size |-> "none"]
Runs == 1 .. MaxPrunes

VARIABLES
    camera,             \* on the camera: "none", "published", "removed"
    h264, mp4, day,     \* the folders h264/ and mp4/, and those by day
    images,             \* videos with images beside them
    row, video_tag,     \* tables videos and video_tag; "gone" is a row for an id that is
                        \* not in videos any more
    job, todo, current, \* scripts.sh, the videos left for its stage, those at hand
    found,              \* results of the object detection at hand
    prune, doomed,      \* runs of prune.sh, and the videos each has selected
    faults,
    scanned,            \* history: the file detection looked at, for the row there is
    marked,             \* history: what had been scanned of a video when it was marked
    robbed,             \* history: videos of which the REPLACE of another tag took a tag
    listed,             \* history: what a run of prune.sh found to delete
    stuck, skipped      \* history: videos whose files would not go; those whose row was
                        \* deleted by a run that had not found them

folders == <<h264, mp4, day>>
tables  == <<row, video_tag>>
script  == <<job, todo, current, found>>
pruning == <<prune, doomed, listed>>
kept    == <<stuck, skipped>>
history == <<scanned, marked, robbed, kept>>
vars    == <<camera, folders, images, tables, script, pruning, faults, history>>

Indexed(v) == row[v] # NoRow
Fault == faults > 0 /\ faults' = faults - 1

Init ==
    /\ camera = [v \in Videos |-> "none"] /\ h264 = {}
    /\ mp4 = [v \in Videos |-> "none"] /\ day = [v \in Videos |-> "none"] /\ images = {}
    /\ row = [v \in Videos |-> NoRow] /\ video_tag = {}
    /\ job = "idle" /\ todo = {} /\ current = {} /\ found = {}
    /\ prune = [p \in Runs |-> "ready"] /\ doomed = [p \in Runs |-> {}] /\ faults = MaxFaults
    /\ scanned = [v \in Videos |-> "none"] /\ marked = [v \in Videos |-> {}]
    /\ robbed = {} /\ listed = [p \in Runs |-> {}] /\ stuck = {} /\ skipped = {}

\* The recorder gives a finished file its name (Recorder).
Publish(v) ==
    /\ camera[v] = "none" /\ camera' = [camera EXCEPT ![v] = "published"]
    /\ UNCHANGED <<folders, images, tables, script, pruning, faults, history>>

-----------------------------------------------------------------------------
(* 01.copy.sh *)

Published == {v \in Videos : camera[v] = "published"}
Enter(stage, videos) == job' = stage /\ todo' = videos
WithoutMp4 == {v \in h264 : mp4[v] = "none" /\ day[v] = "none"}     \* mutant of Unconverted
Unconverted == h264
CopyRest == UNCHANGED <<mp4, day, images, tables, current, found, pruning, history>>

List == /\ job = "idle" /\ Enter("copy", Published)
        /\ UNCHANGED <<camera, h264, faults>> /\ CopyRest

\* rsync leaves a file under its name only when it is whole.  What was
\* listed is removed from the camera when all of it is copied.
Rsync(v) ==
    /\ job = "copy" /\ v \in todo \ h264 /\ h264' = h264 \cup {v}
    /\ UNCHANGED <<camera, job, todo, faults>> /\ CopyRest

AllThere == Published   \* mutant of Batch: rm *.h264
Batch == todo
Copied == /\ job = "copy" /\ todo \subseteq h264 /\ Enter("remove", Batch)
          /\ UNCHANGED <<camera, h264, faults>> /\ CopyRest

Remove(v) ==
    /\ job = "remove" /\ v \in todo /\ Enter("remove", todo \ {v})
    /\ camera' = [camera EXCEPT ![v] = "removed"] /\ UNCHANGED <<h264, faults>> /\ CopyRest

\* No host, or an ssh that lists nothing: the other stages follow.
NoHost == /\ job = "idle" /\ Fault /\ Enter("convert", Unconverted)
          /\ UNCHANGED <<camera, h264>> /\ CopyRest

\* A failing rsync or rm is the status of the script when it is the last
\* command, and ends scripts.sh.
CopyFails == /\ job \in {"copy", "remove"} /\ Fault
             /\ Enter("convert", Unconverted) \/ Enter("idle", {})
             /\ UNCHANGED <<camera, h264>> /\ CopyRest

ToConvert == /\ job = "remove" /\ todo = {} /\ Enter("convert", Unconverted)
             /\ UNCHANGED <<camera, h264, faults>> /\ CopyRest

-----------------------------------------------------------------------------
(* 02.convertscript.py and the script it writes: ffmpeg -y ... && rm source, *)
(* for four videos at once.                                                  *)

ConvertRest == UNCHANGED <<camera, day, images, tables, found, pruning, history>>

Convert(v) ==
    /\ job = "convert" /\ v \in todo \ current /\ Cardinality(current) < 4
    /\ mp4' = [mp4 EXCEPT ![v] = "whole"] /\ current' = current \cup {v}
    /\ UNCHANGED <<h264, job, todo, faults>> /\ ConvertRest

RemoveSource(v) ==
    /\ job = "convert" /\ v \in current /\ current' = current \ {v}
    /\ h264' = h264 \ {v} /\ todo' = todo \ {v}
    /\ UNCHANGED <<mp4, job, faults>> /\ ConvertRest

\* What is there is a part of the file, or what was there before, if ffmpeg failed
\* before it opened it; the source is kept.
ConvertFails(v, what) ==
    /\ job = "convert" /\ v \in todo \ current /\ Fault
    /\ mp4' = [mp4 EXCEPT ![v] = IF what = "old" THEN @ ELSE what] /\ todo' = todo \ {v}
    /\ UNCHANGED <<h264, job, current>> /\ ConvertRest

InMp4 == {v \in Videos : mp4[v] # "none"}
ToOrganize == /\ job = "convert" /\ todo = {} /\ Enter("organize", InMp4)
              /\ UNCHANGED <<h264, mp4, current, faults>> /\ ConvertRest

-----------------------------------------------------------------------------
(* 02.organize.py: os.rename() replaces what has the name *)

Organize(v) ==
    /\ job = "organize" /\ v \in todo /\ Enter("organize", todo \ {v})
    /\ day' = [day EXCEPT ![v] = mp4[v]] /\ mp4' = [mp4 EXCEPT ![v] = "none"]
    /\ UNCHANGED <<camera, h264, images, tables, current, found, pruning, faults, history>>

ToIndex ==
    /\ job = "organize" /\ todo = {} /\ Enter("index", {v \in Videos : day[v] # "none"})
    /\ UNCHANGED <<camera, folders, images, tables, current, found, pruning, faults, history>>

-----------------------------------------------------------------------------
(* 03.index.py *)

\* REPLACE INTO video_tag removes the rows that a unique index forbids: there is
\* one on videoId and one on tagId.  Of several tags for a video the last stays.
Conflict(r, v, gone, tag) == r.tag = tag \/ (r.video = v /\ ~r.gone /\ ~gone)
Replace(v, gone, tags, last) ==
    {r \in video_tag : ~\E o \in tags : Conflict(r, v, gone, o.tag)}
        \cup {[video |-> v, gone |-> gone, tag |-> last.tag, confidence |-> last.confidence]}
Robbed(v, tags) ==
    {w \in Videos \ {v} : \E r \in video_tag, o \in tags : r.video = w /\ r.tag = o.tag}
        \cup {w \in {v} : \E o, p \in tags : o # p}
CameraTag == [tag |-> "camera", confidence |-> "zero"]

IndexRest == UNCHANGED <<camera, h264, mp4, images, current, found, pruning, faults,
                         scanned, marked, kept>>
Inserted(v) == [ran |-> FALSE, status |-> 0, size |-> day[v]]

\* One transaction for the video and the tag of its camera.
IndexNew(v) ==
    /\ job = "index" /\ v \in todo /\ day[v] \in {"whole", "part"} /\ ~Indexed(v)
    /\ row' = [row EXCEPT ![v] = Inserted(v)]
    /\ video_tag' = Replace(v, FALSE, {CameraTag}, CameraTag)
    /\ robbed' = robbed \cup Robbed(v, {CameraTag})
    /\ Enter("index", todo \ {v}) /\ UNCHANGED day /\ IndexRest

\* OpenCV finds no frame rate.
IndexBroken(v) ==
    /\ job = "index" /\ v \in todo /\ day[v] = "broken" /\ ~Indexed(v)
    /\ day' = [day EXCEPT ![v] = "none"]
    /\ Enter("index", todo \ {v}) /\ UNCHANGED <<tables, robbed>> /\ IndexRest

IndexKnown(v) ==
    /\ job = "index" /\ v \in todo /\ day[v] # "none" /\ Indexed(v)
    /\ row' = [row EXCEPT ![v].size = day[v]]
    /\ Enter("index", todo \ {v}) /\ UNCHANGED <<day, video_tag, robbed>> /\ IndexRest

\* os.stat() of a file that was pruned meanwhile ends the script.
IndexMissing(v) ==
    /\ job = "index" /\ v \in todo /\ day[v] = "none"
    /\ Enter("idle", {}) /\ UNCHANGED <<day, tables, robbed>> /\ IndexRest

ToDetect == /\ job = "index" /\ todo = {} /\ Enter("detect", {})
            /\ UNCHANGED <<day, tables, robbed>> /\ IndexRest

-----------------------------------------------------------------------------
(* 04.detection.py *)

NotRun == {v \in Videos : Indexed(v) /\ ~row[v].ran}
DetectRest == UNCHANGED <<camera, folders, todo, pruning, faults>>

\* The video is fetched and looked at.  In a part there may be less to see.
Fetch(v) ==
    /\ job = "detect" /\ current = {} /\ v \in NotRun /\ day[v] \in {"whole", "part"}
    /\ current' = {v} /\ job' = "fetched"
    /\ \/ found' = Objects(Content[v])
       \/ day[v] = "part" /\ found' = {}
    /\ scanned' = [scanned EXCEPT ![v] = day[v]]
    /\ UNCHANGED <<images, tables, marked, robbed, kept>> /\ DetectRest

\* A video that is gone, or cannot be read, ends the script.
FetchFails(v) ==
    /\ job = "detect" /\ current = {} /\ v \in NotRun /\ day[v] \in {"none", "broken"}
    /\ job' = "idle" /\ UNCHANGED <<current, found, images, tables, history>> /\ DetectRest

Upload ==
    /\ job = "fetched" /\ images' = images \cup current /\ job' = "uploaded"
    /\ UNCHANGED <<current, found, tables, history>> /\ DetectRest

\* One transaction for all that was found, in the order of the model's results.
CommitTags ==
    /\ job = "uploaded" /\ job' = "tagged"
    /\ IF found = {} THEN UNCHANGED <<video_tag, robbed>>
       ELSE \E v \in current, last \in found :
                /\ video_tag' = Replace(v, ~Indexed(v), found, last)
                /\ robbed' = robbed \cup Robbed(v, found)
    /\ UNCHANGED <<current, found, images, row, scanned, marked, kept>> /\ DetectRest

\* An UPDATE of a row that was deleted changes nothing.
CommitRan ==
    /\ job = "tagged" /\ job' = "detect" /\ current' = {} /\ found' = {}
    /\ row' = [v \in Videos |-> IF v \in current /\ Indexed(v) THEN [row[v] EXCEPT !.ran = TRUE] ELSE row[v]]
    /\ UNCHANGED <<images, video_tag, history>> /\ DetectRest

Done == /\ job = "detect" /\ NotRun = {} /\ job' = "idle"
        /\ UNCHANGED <<current, found, images, tables, history>> /\ DetectRest

ScriptDies ==
    /\ job # "idle" /\ Fault /\ Enter("idle", {}) /\ current' = {} /\ found' = {}
    /\ UNCHANGED <<camera, folders, images, tables, pruning, history>>

-----------------------------------------------------------------------------
(* 06.prune-mark.py, 07.prune-files.py and 08.prune-rows.py *)

TagsOf(v) == {r \in video_tag : r.video = v /\ ~r.gone}

DullSoFar(v) == /\ TagsOf(v) # {}         \* mutant of OnlyDull
                /\ \A r \in TagsOf(v) : r.tag \in {"car", "camera"}
OnlyDull(v) == /\ row[v].ran /\ TagsOf(v) # {}
               /\ \A r \in TagsOf(v) : r.tag \in {"car", "camera"}
OnlyLow(v)  == /\ row[v].ran /\ \E r \in TagsOf(v) : r.confidence = "low"
               /\ ~\E r \in TagsOf(v) : r.confidence = "high"
UntaggedByDetection(v) == \A r \in TagsOf(v) : r.tag = "camera"      \* mutant of Untagged
Untagged(v) == TagsOf(v) = {}

PruneRest == UNCHANGED <<camera, h264, mp4, script>>

Deleted == 2

At(p, phase) == prune[p] = phase
Go(p, phase, videos) == /\ prune' = [prune EXCEPT ![p] = phase]
                        /\ doomed' = [doomed EXCEPT ![p] = videos]

Select(p) ==
    /\ At(p, "ready") /\ \A q \in Runs : q < p => ~At(q, "ready")    \* numbered as they start
    /\ Go(p, "mark", {v \in Videos : /\ Indexed(v) /\ row[v].status # Deleted
                                     /\ OnlyDull(v) \/ OnlyLow(v) \/ Untagged(v)})
    /\ UNCHANGED <<day, images, tables, faults, history, listed>> /\ PruneRest

ToDelete == {v \in Videos : row[v].status = Deleted}

Mark(p) ==
    /\ At(p, "mark") /\ Go(p, "list", {})
    /\ row' = [v \in Videos |-> IF v \in doomed[p] /\ Indexed(v) THEN [row[v] EXCEPT !.status = Deleted]
                                ELSE row[v]]
    /\ marked' = [v \in Videos |-> IF v \in doomed[p] THEN marked[v] \cup {scanned[v]} ELSE marked[v]]
    /\ UNCHANGED <<day, images, video_tag, faults, scanned, robbed, kept, listed>> /\ PruneRest

ListDoomed(p) ==
    /\ At(p, "list") /\ Go(p, "files", ToDelete) /\ listed' = [listed EXCEPT ![p] = ToDelete]
    /\ UNCHANGED <<day, images, tables, faults, history>> /\ PruneRest

RemoveFiles(p, v) ==
    /\ At(p, "files") /\ v \in doomed[p] /\ Go(p, "files", doomed[p] \ {v})
    /\ day' = [day EXCEPT ![v] = "none"] /\ images' = images \ {v}
    /\ UNCHANGED <<tables, faults, history, listed>> /\ PruneRest

\* except: a=True
RemoveFilesFails(p, v) ==
    /\ At(p, "files") /\ v \in doomed[p] /\ Fault /\ Go(p, "files", doomed[p] \ {v})
    /\ stuck' = stuck \cup {v}
    /\ UNCHANGED <<day, images, tables, scanned, marked, robbed, skipped, listed>> /\ PruneRest

\* Whoever marked them; another run may have selected their ids, which are gone.
DeleteRows(p) ==
    /\ At(p, "files") /\ doomed[p] = {}
    /\ prune' = [prune EXCEPT ![p] = "ended"]
    /\ doomed' = [q \in Runs |-> IF At(q, "mark") THEN doomed[q] \ ToDelete ELSE doomed[q]]
    /\ video_tag' = {r \in video_tag : r.gone \/ r.video \notin ToDelete}
    /\ row' = [v \in Videos |-> IF v \in ToDelete THEN NoRow ELSE row[v]]
    /\ scanned' = [v \in Videos |-> IF v \in ToDelete THEN "none" ELSE scanned[v]]
    /\ skipped' = skipped \cup (ToDelete \ listed[p]) /\ listed' = [q \in Runs |-> listed[q] \ ToDelete]
    /\ UNCHANGED <<day, images, faults, marked, robbed, stuck>> /\ PruneRest

PruneDies(p) ==
    /\ prune[p] \in {"mark", "list", "files"} /\ Fault /\ Go(p, "ended", {})
    /\ listed' = [listed EXCEPT ![p] = {}]
    /\ UNCHANGED <<day, images, tables, history>> /\ PruneRest

-----------------------------------------------------------------------------
Copy    == List \/ Copied \/ ToConvert \/ \E v \in Videos : Rsync(v) \/ Remove(v)
Mp4     == ToOrganize \/ ToIndex
           \/ \E v \in Videos : Convert(v) \/ RemoveSource(v) \/ Organize(v)
Index   == ToDetect \/ \E v \in Videos : IndexNew(v) \/ IndexBroken(v) \/ IndexKnown(v) \/ IndexMissing(v)
Detect  == Upload \/ CommitTags \/ CommitRan \/ Done \/ \E v \in Videos : Fetch(v) \/ FetchFails(v)
Scripts == Copy \/ Mp4 \/ Index \/ Detect
Failing == NoHost \/ CopyFails \/ ScriptDies
           \/ \E v \in Videos, what \in {"part", "broken", "old"} : ConvertFails(v, what)
           \/ \E p \in Runs : PruneDies(p) \/ \E w \in Videos : RemoveFilesFails(p, w)
Prune   == \E p \in Runs : \/ Select(p) \/ Mark(p) \/ ListDoomed(p) \/ DeleteRows(p)
                          \/ \E v \in Videos : RemoveFiles(p, v)

Next == Scripts \/ Failing \/ Prune \/ \E v \in Videos : Publish(v)

\* cron starts scripts.sh again and again, and the videos to look at come in
\* random order; nothing makes anybody run prune.sh.
Spec == Init /\ [][Next]_vars /\ WF_vars(Scripts) /\ \A v \in Videos : SF_vars(Fetch(v))

-----------------------------------------------------------------------------
(* Properties *)

TypeOK ==
    /\ camera \in [Videos -> {"none", "published", "removed"}]
    /\ {h264, images, todo, robbed, stuck, skipped} \subseteq SUBSET Videos
    /\ {doomed, listed} \subseteq [Runs -> SUBSET Videos]
    /\ {mp4, day, scanned} \subseteq [Videos -> Files]
    /\ marked \in [Videos -> SUBSET Files]
    /\ row \in [Videos -> [ran : BOOLEAN, status : {0, 2}, size : Files]]
    /\ video_tag \subseteq [video : Videos, gone : BOOLEAN, tag : {"camera", "car", "person"},
                            confidence : {"zero", "low", "high"}]
    /\ job \in {"idle", "copy", "remove", "convert", "organize", "index", "detect", "fetched",
                "uploaded", "tagged"}
    /\ current \in SUBSET Videos
    /\ found \subseteq [tag : {"car", "person"}, confidence : {"low", "high"}]
    /\ prune \in [Runs -> {"ready", "mark", "list", "files", "ended"}]
    /\ faults \in 0 .. MaxFaults

\* A video that was published is whole in one of the places it comes through,
\* until prune-mark has marked it, whichever command fails or script dies
\* (01.copy.sh:48, 02.convertscript.py:41, 03.index.py:79-83).
Whole(v) == camera[v] = "published" \/ v \in h264 \/ "whole" \in {mp4[v], day[v]}
NothingIsLost == \A v \in Videos : camera[v] # "none" /\ marked[v] = {} => Whole(v)

\* What is marked has been looked at, and when all of it was, it shows nothing
\* that is worth keeping (06.prune-mark.py:72-122): of the videos of which no tag
\* was lost to the REPLACE of another tag, as the unique indexes of
\* schema-mysql.sql:36-37 make it.
WorthKeeping(v) == Content[v] \in {"person", "both"}
MarkedWasScanned ==
    \A v \in Videos \ robbed : /\ "none" \notin marked[v]
                               /\ WorthKeeping(v) => "whole" \notin marked[v]

\* Nothing stays behind of a video that is pruned while detection runs: tags and
\* images are those of a row (04.detection.py:110-131, 08.prune-rows.py:16-19).
\* But for files that could not be removed, for what one run of prune.sh deletes
\* that another has marked, and for videos that were marked as they lost their tags.
NothingLeftBehind ==
    /\ \A r \in video_tag : r.gone \/ ~Indexed(r.video) => r.video \in robbed
    /\ \A v \in images \ (stuck \cup skipped \cup robbed) : Indexed(v)

\* Every video is listed and looked at in the end, or marked (crontab.txt:2).
Listed(v) == Indexed(v) /\ row[v].ran /\ day[v] = "whole"
EveryVideoIsListed ==
    \A v \in Videos : camera[v] = "published" ~> Listed(v) \/ marked[v] # {}

\* What is marked is not worth keeping.
MarkedIsDull == \A v \in Videos : WorthKeeping(v) => marked[v] \subseteq {"part"}
=============================================================================
