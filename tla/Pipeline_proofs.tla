-------------------------- MODULE Pipeline_proofs --------------------------
(***************************************************************************)
(* What TLAPS proves of the way of a video to the browser, for any number  *)
(* of videos, of failures and of runs of prune.sh.                         *)
(***************************************************************************)
EXTENDS Pipeline, TLAPS

-----------------------------------------------------------------------------
(* Types *)

\* An object that detection reports is a tag with a confidence.
LEMMA ObjectsAreTags ==
    ASSUME NEW c
    PROVE  Objects(c) \subseteq [tag : {"car", "person"}, confidence : {"low", "high"}]
BY DEF Objects, Car, Person, Shadow

\* REPLACE leaves rows of the table.
TagRows == [video : Videos, gone : BOOLEAN, tag : {"camera", "car", "person"},
            confidence : {"zero", "low", "high"}]
LEMMA ReplaceTypes ==
    ASSUME NEW v \in Videos, NEW gone \in BOOLEAN, NEW tags, NEW last, video_tag \subseteq TagRows,
           last.tag \in {"camera", "car", "person"}, last.confidence \in {"zero", "low", "high"}
    PROVE  Replace(v, gone, tags, last) \subseteq TagRows /\ Robbed(v, tags) \subseteq Videos
<1>1. [video |-> v, gone |-> gone, tag |-> last.tag, confidence |-> last.confidence] \in TagRows
    BY DEF TagRows
<1>2. Replace(v, gone, tags, last) \subseteq TagRows
    BY <1>1 DEF Replace
<1> QED BY <1>2 DEF Robbed

\* A stage keeps the types, whichever of its commands it runs.
LEMMA CopyTypes == TypeOK /\ Copy => TypeOK'
<1> SUFFICES ASSUME TypeOK, Copy PROVE TypeOK'
    OBVIOUS
<1> USE DEF TypeOK, CopyRest, Enter, folders, tables, script, pruning, history, kept
<1>1. CASE List
    BY <1>1 DEF List, Published
<1>2. CASE Copied
    BY <1>2 DEF Copied, Batch
<1>3. CASE ToConvert
    BY <1>3 DEF ToConvert, Unconverted
<1>4. ASSUME NEW v \in Videos, Rsync(v) PROVE TypeOK'
    BY <1>4 DEF Rsync
<1>5. ASSUME NEW v \in Videos, Remove(v) PROVE TypeOK'
    BY <1>5 DEF Remove
<1> QED BY <1>1, <1>2, <1>3, <1>4, <1>5 DEF Copy

LEMMA Mp4Types == TypeOK /\ Mp4 => TypeOK'
<1> SUFFICES ASSUME TypeOK, Mp4 PROVE TypeOK'
    OBVIOUS
<1> USE DEF TypeOK, ConvertRest, Enter, folders, tables, script, pruning, history, kept, Files
<1>1. CASE ToOrganize
    BY <1>1 DEF ToOrganize, InMp4
<1>2. CASE ToIndex
    BY <1>2 DEF ToIndex
<1>3. ASSUME NEW v \in Videos, Convert(v) PROVE TypeOK'
    BY <1>3 DEF Convert
<1>4. ASSUME NEW v \in Videos, RemoveSource(v) PROVE TypeOK'
    BY <1>4 DEF RemoveSource
<1>5. ASSUME NEW v \in Videos, Organize(v) PROVE TypeOK'
    BY <1>5 DEF Organize
<1> QED BY <1>1, <1>2, <1>3, <1>4, <1>5 DEF Mp4

LEMMA IndexTypes == TypeOK /\ Index => TypeOK'
<1> SUFFICES ASSUME TypeOK, Index PROVE TypeOK'
    OBVIOUS
<1> USE DEF TypeOK, IndexRest, Enter, folders, tables, script, pruning, history, kept, Files
<1>1. CASE ToDetect
    BY <1>1 DEF ToDetect
<1>2. ASSUME NEW v \in Videos, IndexNew(v) PROVE TypeOK'
    <2>1. CameraTag.tag = "camera" /\ CameraTag.confidence = "zero" /\ video_tag \subseteq TagRows
        BY DEF CameraTag, TagRows
    <2>2. /\ Replace(v, FALSE, {CameraTag}, CameraTag) \subseteq TagRows
          /\ Robbed(v, {CameraTag}) \subseteq Videos
        <3> HIDE DEF TypeOK
        <3> QED BY <2>1, ReplaceTypes
    <2>3. row' \in [Videos -> [ran : BOOLEAN, status : {0, 2}, size : Files]]
        BY <1>2 DEF IndexNew, Inserted
    <2>4. UNCHANGED <<camera, folders, images, current, found, pruning, faults, scanned, marked, kept>>
          /\ job' = "index" /\ todo' \subseteq todo
        BY <1>2 DEF IndexNew
    <2>5. video_tag' \subseteq TagRows /\ robbed' \subseteq Videos
        BY <1>2, <2>2 DEF IndexNew
    <2> QED BY <2>3, <2>4, <2>5 DEF TagRows
<1>3. ASSUME NEW v \in Videos, IndexBroken(v) PROVE TypeOK'
    BY <1>3 DEF IndexBroken
<1>4. ASSUME NEW v \in Videos, IndexKnown(v) PROVE TypeOK'
    BY SMTT(30), <1>4 DEF IndexKnown
<1>5. ASSUME NEW v \in Videos, IndexMissing(v) PROVE TypeOK'
    BY <1>5 DEF IndexMissing
<1> QED BY <1>1, <1>2, <1>3, <1>4, <1>5 DEF Index

LEMMA DetectTypes == TypeOK /\ Detect => TypeOK'
<1> SUFFICES ASSUME TypeOK, Detect PROVE TypeOK'
    OBVIOUS
<1> USE DEF TypeOK, DetectRest, folders, tables, script, pruning, history, kept, Files
<1>1. CASE Upload
    BY <1>1 DEF Upload
<1>2. CASE CommitTags
    <2>1. UNCHANGED <<row, images, folders, current, found, scanned, marked, kept>> /\ job' = "tagged"
        BY <1>2 DEF CommitTags
    <2>2. CASE found = {}
        BY <1>2, <2>1, <2>2 DEF CommitTags
    <2>3. CASE found # {}
        <3>1. PICK v \in current, last \in found :
                /\ video_tag' = Replace(v, ~Indexed(v), found, last)
                /\ robbed' = robbed \cup Robbed(v, found)
            BY <1>2, <2>3 DEF CommitTags
        <3>2. video_tag' \subseteq TagRows /\ Robbed(v, found) \subseteq Videos
            BY <3>1, ReplaceTypes DEF Indexed, TagRows
        <3> QED BY <1>2, <2>1, <3>1, <3>2 DEF CommitTags, TagRows
    <2> QED BY <2>2, <2>3
<1>3. CASE CommitRan
    <2> DEFINE R == [ran : BOOLEAN, status : {0, 2}, size : Files]
    <2>1. \A r \in R : [r EXCEPT !.ran = TRUE] \in R
        OBVIOUS
    <2>2. \A w \in Videos : row'[w] \in {[row[w] EXCEPT !.ran = TRUE], row[w]}
        BY <1>3 DEF CommitRan
    <2>3. row' \in [Videos -> R]
        <3>1. DOMAIN row' = Videos /\ row' = [w \in Videos |-> row'[w]]
            BY <1>3 DEF CommitRan
        <3>2. row \in [Videos -> R]
            OBVIOUS
        <3> HIDE DEF R, TypeOK, Files
        <3> QED BY <2>1, <2>2, <3>1, <3>2
    <2> HIDE DEF R
    <2> QED BY <1>3, <2>3 DEF CommitRan, R
<1>4. CASE Done
    BY <1>4 DEF Done
<1>5. ASSUME NEW v \in Videos, Fetch(v) PROVE TypeOK'
    BY <1>5, ObjectsAreTags DEF Fetch
<1>6. ASSUME NEW v \in Videos, FetchFails(v) PROVE TypeOK'
    BY <1>6 DEF FetchFails
<1> QED BY <1>1, <1>2, <1>3, <1>4, <1>5, <1>6 DEF Detect

LEMMA PruneTypes == TypeOK /\ Prune => TypeOK'
<1> SUFFICES ASSUME TypeOK, Prune PROVE TypeOK'
    OBVIOUS
<1> USE DEF TypeOK, PruneRest, At, Go, folders, tables, script, pruning, history, kept, Files
<1>1. ASSUME NEW p \in Runs, Select(p) PROVE TypeOK'
    BY <1>1 DEF Select
<1>2. ASSUME NEW p \in Runs, Mark(p) PROVE TypeOK'
    BY <1>2 DEF Mark, Deleted
<1>3. ASSUME NEW p \in Runs, ListDoomed(p) PROVE TypeOK'
    BY <1>3 DEF ListDoomed, ToDelete
<1>4. ASSUME NEW p \in Runs, DeleteRows(p) PROVE TypeOK'
    BY <1>4 DEF DeleteRows, NoRow, ToDelete
<1>5. ASSUME NEW p \in Runs, NEW v \in Videos, RemoveFiles(p, v) PROVE TypeOK'
    BY <1>5 DEF RemoveFiles
<1> QED BY <1>1, <1>2, <1>3, <1>4, <1>5 DEF Prune

LEMMA FailingTypes == TypeOK /\ Failing => TypeOK'
<1> SUFFICES ASSUME TypeOK, Failing PROVE TypeOK'
    OBVIOUS
<1> USE PipelineConstants DEF TypeOK, Fault, Enter, CopyRest, ConvertRest, PruneRest, Go,
        folders, tables, script, pruning, history, kept, Files
<1>1. CASE NoHost
    BY <1>1 DEF NoHost, Unconverted
<1>2. CASE CopyFails
    BY <1>2 DEF CopyFails, Unconverted
<1>3. CASE ScriptDies
    BY <1>3 DEF ScriptDies
<1>4. ASSUME NEW p \in Runs, PruneDies(p) PROVE TypeOK'
    BY <1>4 DEF PruneDies
<1>5. ASSUME NEW p \in Runs, NEW v \in Videos, RemoveFilesFails(p, v) PROVE TypeOK'
    BY <1>5 DEF RemoveFilesFails
<1>6. ASSUME NEW v \in Videos, NEW what \in {"part", "broken", "old"}, ConvertFails(v, what) PROVE TypeOK'
    BY <1>6 DEF ConvertFails
<1> HIDE DEF TypeOK, Fault, Enter, CopyRest, ConvertRest, PruneRest, Go
<1> QED BY <1>1, <1>2, <1>3, <1>4, <1>5, <1>6 DEF Failing

LEMMA InitTypes == Init => TypeOK
BY PipelineConstants DEF Init, TypeOK, Files, NoRow

\* Files, tables and the two scripts keep their types (processing/scripts.sh,
\* processing/prune.sh).
THEOREM TypeCorrect == Spec => []TypeOK
<1>1. TypeOK /\ [Next]_vars => TypeOK'
    <2> SUFFICES ASSUME TypeOK, [Next]_vars PROVE TypeOK'
        OBVIOUS
    <2>1. CASE Scripts
        BY <2>1, CopyTypes, Mp4Types, IndexTypes, DetectTypes DEF Scripts
    <2>2. CASE Failing
        BY <2>2, FailingTypes
    <2>3. CASE Prune
        BY <2>3, PruneTypes
    <2>4. ASSUME NEW v \in Videos, Publish(v) PROVE TypeOK'
        BY <2>4 DEF Publish, TypeOK, folders, tables, script, pruning, history, kept
    <2>5. CASE UNCHANGED vars
        BY <2>5 DEF TypeOK, vars, folders, tables, script, pruning, history, kept
    <2> QED BY <2>1, <2>2, <2>3, <2>4, <2>5 DEF Next
<1> QED BY <1>1, InitTypes, PTL DEF Spec

-----------------------------------------------------------------------------
(* No video is lost *)

\* Each stage works on files that are there, and so may remove what they were
\* made from.
InHand      == job \in {"convert", "fetched", "uploaded", "tagged"}
WorkIsThere ==
    /\ job = "remove" => todo \subseteq h264
    /\ job = "convert" => /\ todo \subseteq h264 /\ current \subseteq todo
                          /\ \A v \in current : mp4[v] = "whole"
    /\ ~InHand => current = {}
    /\ job = "organize" => \A v \in todo : mp4[v] # "none"

\* The source of a conversion that failed is still there.
PartsHaveSources == \A v \in Videos : mp4[v] \in {"part", "broken"} => v \in h264

\* prune-files removes what prune-mark has marked.
DeletedIsMarked == \A v \in Videos : row[v].status = Deleted => marked[v] # {}
DoomedIsMarked  == \A p \in Runs : prune[p] = "files" => \A v \in doomed[p] : marked[v] # {}

LossInv == TypeOK /\ WorkIsThere /\ PartsHaveSources /\ DeletedIsMarked /\ DoomedIsMarked
           /\ NothingIsLost

\* What prune.sh has marked does not change unless prune.sh does.
LEMMA MarksStay ==
    ASSUME DeletedIsMarked, DoomedIsMarked, UNCHANGED <<prune, doomed, marked>>,
           \A v \in Videos : row'[v].status = Deleted => row[v].status = Deleted
    PROVE  DeletedIsMarked' /\ DoomedIsMarked'
BY DEF DeletedIsMarked, DoomedIsMarked

LEMMA CopyLoses == LossInv /\ Copy => LossInv'
<1> SUFFICES ASSUME LossInv, Copy PROVE LossInv'
    OBVIOUS
<1>1. TypeOK'
    BY CopyTypes DEF LossInv
<1>2. DeletedIsMarked' /\ DoomedIsMarked'
    BY MarksStay DEF LossInv, Copy, List, Copied, ToConvert, Rsync, Remove, CopyRest, tables,
       pruning, history, kept
<1>3. PartsHaveSources'
    BY DEF LossInv, PartsHaveSources, Copy, List, Copied, ToConvert, Rsync, Remove, CopyRest
<1>4. WorkIsThere'
    BY DEF LossInv, WorkIsThere, InHand, Copy, List, Copied, ToConvert, Rsync, Remove, CopyRest,
       Enter, Batch, Unconverted
<1>5. NothingIsLost'
    <2> USE DEF LossInv, NothingIsLost, Whole, CopyRest, history
    <2>1. CASE List \/ Copied \/ ToConvert
        BY <2>1 DEF List, Copied, ToConvert
    <2>2. ASSUME NEW v \in Videos, Rsync(v) PROVE NothingIsLost'
        BY <2>2 DEF Rsync
    <2>3. ASSUME NEW v \in Videos, Remove(v) PROVE NothingIsLost'
        BY <2>3 DEF Remove, WorkIsThere, TypeOK
    <2> QED BY <2>1, <2>2, <2>3 DEF Copy
<1> QED BY <1>1, <1>2, <1>3, <1>4, <1>5 DEF LossInv

LEMMA Mp4Loses == LossInv /\ Mp4 => LossInv'
<1> SUFFICES ASSUME LossInv, Mp4 PROVE LossInv'
    OBVIOUS
<1>1. TypeOK'
    BY Mp4Types DEF LossInv
<1>2. DeletedIsMarked' /\ DoomedIsMarked'
    BY MarksStay DEF LossInv, Mp4, ToOrganize, ToIndex, Convert, RemoveSource, Organize,
       ConvertRest, tables, pruning, history, kept
<1> DEFINE Rest == PartsHaveSources' /\ WorkIsThere' /\ NothingIsLost'
<1> USE DEF LossInv, WorkIsThere, InHand, PartsHaveSources, NothingIsLost, Whole, ConvertRest,
        Enter, history
<1>3. CASE ToOrganize
    BY <1>1, <1>2, <1>3 DEF ToOrganize, InMp4
<1>4. CASE ToIndex
    BY <1>1, <1>2, <1>4 DEF ToIndex, folders
<1>5. ASSUME NEW v \in Videos, Convert(v) PROVE Rest
    BY <1>5 DEF Convert, TypeOK
<1>6. ASSUME NEW v \in Videos, RemoveSource(v) PROVE Rest
    BY <1>6 DEF RemoveSource, TypeOK
<1>7. ASSUME NEW v \in Videos, Organize(v) PROVE Rest
    BY <1>7 DEF Organize, TypeOK, Files
<1> HIDE DEF WorkIsThere, PartsHaveSources, NothingIsLost
<1> QED BY <1>1, <1>2, <1>3, <1>4, <1>5, <1>6, <1>7 DEF Mp4

LEMMA IndexLoses == LossInv /\ Index => LossInv'
<1> SUFFICES ASSUME LossInv, Index PROVE LossInv'
    OBVIOUS
<1>1. TypeOK'
    BY IndexTypes DEF LossInv
<1>2. DeletedIsMarked' /\ DoomedIsMarked'
    <2> USE DEF IndexRest, tables, pruning, history, kept
    <2>1. ASSUME NEW v \in Videos, IndexNew(v) PROVE DeletedIsMarked' /\ DoomedIsMarked'
        BY <2>1, MarksStay DEF IndexNew, Inserted, LossInv, TypeOK, Deleted
    <2>2. ASSUME NEW v \in Videos, IndexKnown(v) PROVE DeletedIsMarked' /\ DoomedIsMarked'
        BY <2>2, MarksStay DEF IndexKnown, LossInv, TypeOK
    <2>3. CASE UNCHANGED row
        BY <2>3, MarksStay DEF Index, ToDetect, IndexNew, IndexBroken, IndexKnown, IndexMissing, LossInv
    <2> QED BY <2>1, <2>2, <2>3 DEF Index, ToDetect, IndexBroken, IndexMissing
<1>3. PartsHaveSources'
    BY DEF LossInv, PartsHaveSources, Index, ToDetect, IndexNew, IndexBroken, IndexKnown,
       IndexMissing, IndexRest
<1>4. WorkIsThere'
    BY DEF LossInv, WorkIsThere, InHand, Index, ToDetect, IndexNew, IndexBroken, IndexKnown,
       IndexMissing, IndexRest, Enter
<1>5. NothingIsLost'
    <2> USE DEF LossInv, NothingIsLost, Whole, IndexRest, history
    <2>1. ASSUME NEW v \in Videos, IndexBroken(v) PROVE NothingIsLost'
        BY <2>1 DEF IndexBroken, TypeOK
    <2>2. CASE UNCHANGED day
        BY <2>2 DEF Index, ToDetect, IndexNew, IndexBroken, IndexKnown, IndexMissing
    <2> QED BY <2>1, <2>2 DEF Index, ToDetect, IndexNew, IndexKnown, IndexMissing
<1> QED BY <1>1, <1>2, <1>3, <1>4, <1>5 DEF LossInv

LEMMA DetectLoses == LossInv /\ Detect => LossInv'
<1> SUFFICES ASSUME LossInv, Detect PROVE LossInv'
    OBVIOUS
<1> USE DEF Detect, Upload, CommitTags, CommitRan, Done, Fetch, FetchFails, DetectRest, LossInv
<1>1. TypeOK'
    BY DetectTypes
<1>2. DeletedIsMarked' /\ DoomedIsMarked'
    <2>1. UNCHANGED <<prune, doomed, marked>>
        BY DEF history, pruning
    <2>2. ASSUME NEW w \in Videos PROVE row'[w].status = row[w].status
        BY DEF TypeOK, tables
    <2> QED BY <2>1, <2>2, MarksStay
<1>3. PartsHaveSources' /\ NothingIsLost'
    BY DEF PartsHaveSources, NothingIsLost, Whole, history, folders
<1>4. WorkIsThere'
    BY DEF WorkIsThere, InHand
<1> QED BY <1>1, <1>2, <1>3, <1>4

LEMMA PruneLoses == LossInv /\ Prune => LossInv'
<1> SUFFICES ASSUME LossInv, Prune PROVE LossInv'
    OBVIOUS
<1>1. TypeOK'
    BY PruneTypes DEF LossInv
<1> USE DEF LossInv, PruneRest
<1>2. PartsHaveSources' /\ WorkIsThere'
    BY DEF Prune, Select, Mark, ListDoomed, DeleteRows, RemoveFiles, PartsHaveSources,
       WorkIsThere, InHand, script
<1> DEFINE Rest == DeletedIsMarked' /\ DoomedIsMarked' /\ NothingIsLost'
<1> USE DEF DeletedIsMarked, DoomedIsMarked, NothingIsLost, Whole, ToDelete, At, Go, history, tables
<1>3. ASSUME NEW p \in Runs, Select(p) PROVE Rest
    BY <1>3 DEF Select, TypeOK
<1>4. ASSUME NEW p \in Runs, Mark(p) PROVE Rest
    BY <1>4 DEF Mark, TypeOK
<1>5. ASSUME NEW p \in Runs, ListDoomed(p) PROVE Rest
    BY <1>5 DEF ListDoomed, TypeOK
<1>6. ASSUME NEW p \in Runs, DeleteRows(p) PROVE Rest
    BY <1>6 DEF DeleteRows, NoRow, Deleted, TypeOK
<1>7. ASSUME NEW p \in Runs, NEW v \in Videos, RemoveFiles(p, v) PROVE Rest
    BY <1>7 DEF RemoveFiles, TypeOK
<1> HIDE DEF DeletedIsMarked, DoomedIsMarked, NothingIsLost
<1> QED BY <1>1, <1>2, <1>3, <1>4, <1>5, <1>6, <1>7 DEF Prune

LEMMA FailingLoses == LossInv /\ Failing => LossInv'
<1> SUFFICES ASSUME LossInv, Failing PROVE LossInv'
    OBVIOUS
<1>1. TypeOK'
    BY FailingTypes DEF LossInv
<1> DEFINE Rest == WorkIsThere' /\ PartsHaveSources' /\ DeletedIsMarked' /\ DoomedIsMarked'
                   /\ NothingIsLost'
<1> USE DEF LossInv, WorkIsThere, InHand, PartsHaveSources, DeletedIsMarked, DoomedIsMarked,
        NothingIsLost, Whole, CopyRest, ConvertRest, PruneRest, Enter, Go, folders, tables, script,
        pruning, history, kept
<1>2. CASE NoHost
    BY <1>1, <1>2 DEF NoHost, Unconverted
<1>3. CASE CopyFails
    BY <1>1, <1>3 DEF CopyFails, Unconverted
<1>4. CASE ScriptDies
    BY <1>1, <1>4 DEF ScriptDies
<1>5. ASSUME NEW p \in Runs, PruneDies(p) PROVE Rest
    BY <1>5 DEF PruneDies, TypeOK
<1>6. ASSUME NEW p \in Runs, NEW v \in Videos, RemoveFilesFails(p, v) PROVE Rest
    <2>1. /\ UNCHANGED <<camera, h264, mp4, day, row, marked, job, todo, current, prune>>
          /\ doomed' = [doomed EXCEPT ![p] = @ \ {v}] /\ prune[p] = "files"
        BY <1>6 DEF RemoveFilesFails, At, TypeOK
    <2>2. DoomedIsMarked'
        BY <2>1 DEF TypeOK
    <2> HIDE DEF DoomedIsMarked
    <2> QED BY <2>1, <2>2
<1>7. ASSUME NEW v \in Videos, NEW what \in {"part", "broken", "old"}, ConvertFails(v, what) PROVE Rest
    BY <1>7 DEF ConvertFails, TypeOK
<1> HIDE DEF WorkIsThere, PartsHaveSources, DeletedIsMarked, DoomedIsMarked, NothingIsLost
<1> QED BY <1>1, <1>2, <1>3, <1>4, <1>5, <1>6, <1>7 DEF Failing

LEMMA InitLoses == Init => LossInv
<1> SUFFICES ASSUME Init PROVE LossInv
    OBVIOUS
<1>1. TypeOK
    BY InitTypes
<1> QED BY <1>1 DEF Init, LossInv, WorkIsThere, InHand, PartsHaveSources, DeletedIsMarked,
        DoomedIsMarked, NothingIsLost, NoRow, Deleted

LEMMA LossStep == LossInv /\ [Next]_vars => LossInv'
<1> SUFFICES ASSUME LossInv, [Next]_vars PROVE LossInv'
    OBVIOUS
<1>1. CASE Scripts
    BY <1>1, CopyLoses, Mp4Loses, IndexLoses, DetectLoses DEF Scripts
<1>2. CASE Failing
    BY <1>2, FailingLoses
<1>3. CASE Prune
    BY <1>3, PruneLoses
<1>4. ASSUME NEW v \in Videos, Publish(v) PROVE LossInv'
    BY <1>4 DEF Publish, LossInv, TypeOK, WorkIsThere, InHand, PartsHaveSources,
       DeletedIsMarked, DoomedIsMarked, NothingIsLost, Whole, folders, tables, script,
       pruning, history, kept
<1>5. CASE UNCHANGED vars
    BY <1>5 DEF vars, LossInv, TypeOK, WorkIsThere, InHand, PartsHaveSources,
       DeletedIsMarked, DoomedIsMarked, NothingIsLost, Whole, folders, tables, script,
       pruning, history, kept
<1> QED BY <1>1, <1>2, <1>3, <1>4, <1>5 DEF Next

\* Whatever command fails and whenever a script dies or prune.sh runs, a video
\* that was published and never marked is whole somewhere (01.copy.sh:48,
\* 02.convertscript.py:41, 03.index.py:79-83).
THEOREM NoVideoLost == Spec => []NothingIsLost
<1>1. LossInv => NothingIsLost
    BY DEF LossInv
<1> QED BY <1>1, LossStep, InitLoses, PTL DEF Spec

-----------------------------------------------------------------------------
(* Pruning beside detection *)

\* A video that was looked at as a whole has the tag of what is worth keeping.
HasPerson(v) == \E r \in TagsOf(v) : r.tag = "person" /\ r.confidence = "high"
SeenWhole(v) == WorthKeeping(v) /\ scanned[v] = "whole"
Tagged(v) ==
    /\ Indexed(v) => TagsOf(v) # {}
    /\ row[v].ran => scanned[v] # "none" /\ (SeenWhole(v) => HasPerson(v))
    /\ row[v].status = Deleted => row[v].ran

\* prune.sh leaves the video alone that detection is working on.
AtDetection == job \in {"fetched", "uploaded", "tagged"}
AtWork(v) ==
    AtDetection /\ v \in current =>
        /\ Indexed(v) /\ ~row[v].ran /\ scanned[v] # "none"
        /\ SeenWhole(v) => /\ found = Objects(Content[v])
                           /\ job = "tagged" => HasPerson(v)

\* What a run has selected was looked at and shows nothing; the images of what it
\* will delete the rows of are gone, or will be, or could not be removed.
Pruned(v) ==
    /\ \A p \in Runs : prune[p] = "mark" /\ v \in doomed[p] => row[v].ran /\ ~SeenWhole(v)
    /\ \A p \in Runs : v \in listed[p] =>
           /\ row[v].status = Deleted
           /\ prune[p] = "files" /\ v \in images => v \in doomed[p] \cup stuck
    /\ "none" \notin marked[v] /\ (WorthKeeping(v) => "whole" \notin marked[v])
    /\ v \in images \ (stuck \cup skipped) => Indexed(v)

\* All of that is so of a video of which no tag was lost; one of which a tag is
\* left without a row has lost one.
VideoInv(v) == Tagged(v) /\ AtWork(v) /\ Pruned(v)
TagsOfRows  == \A r \in video_tag : r.gone \/ ~Indexed(r.video) => r.video \in robbed
OneAtWork   == AtDetection => \A v \in current : current = {v}
RowInv      == TagsOfRows /\ OneAtWork /\ \A v \in Videos \ robbed : VideoInv(v)

\* Most steps are about something else.
LEMMA VideoStays ==
    ASSUME NEW v \in Videos, VideoInv(v), UNCHANGED <<pruning, kept>>, v \in images' <=> v \in images,
           scanned'[v] = scanned[v], marked'[v] = marked[v], Indexed(v)' = Indexed(v),
           row'[v].ran = row[v].ran, row'[v].status = row[v].status, TagsOf(v)' = TagsOf(v), AtWork(v)'
    PROVE  VideoInv(v)'
<1>1. SeenWhole(v)' = SeenWhole(v)
    BY DEF SeenWhole, WorthKeeping
<1>2. Tagged(v)'
    BY <1>1 DEF VideoInv, Tagged, HasPerson
<1>3. Pruned(v)'
    BY <1>1 DEF VideoInv, Pruned, pruning, kept, WorthKeeping
<1> QED BY <1>2, <1>3 DEF VideoInv

LEMMA RowsStay ==
    ASSUME RowInv, UNCHANGED <<images, tables, pruning, history>>,
           AtDetection' => UNCHANGED <<current, found>> /\ AtDetection /\ (job' = "tagged" => job = "tagged")
    PROVE  RowInv'
<1>1. TagsOfRows' /\ OneAtWork'
    BY DEF RowInv, TagsOfRows, OneAtWork, Indexed, tables, history
<1>2. ASSUME NEW v \in Videos, v \notin robbed PROVE VideoInv(v)'
    <2>1. VideoInv(v)
        BY <1>2 DEF RowInv
    <2>2. UNCHANGED <<row, video_tag, scanned, marked, kept>>
        BY DEF tables, history
    <2>3. TagsOf(v)' = TagsOf(v) /\ Indexed(v)' = Indexed(v)
        BY <2>2 DEF TagsOf, Indexed
    <2>4. AtWork(v)'
        BY <2>1, <2>2, <2>3 DEF VideoInv, AtWork, SeenWhole, WorthKeeping, HasPerson
    <2> QED BY <2>1, <2>2, <2>3, <2>4, VideoStays
<1> QED BY <1>1, <1>2 DEF RowInv, history

\* REPLACE adds a row, and takes none of a video that it does not rob.
LEMMA ReplaceKeeps ==
    ASSUME NEW v, NEW gone \in BOOLEAN, NEW tags, NEW last, \A r \in video_tag : r.video \in Videos
    PROVE  /\ [video |-> v, gone |-> gone, tag |-> last.tag, confidence |-> last.confidence]
              \in Replace(v, gone, tags, last)
           /\ \A r \in Replace(v, gone, tags, last) : \/ r \in video_tag
                 \/ r = [video |-> v, gone |-> gone, tag |-> last.tag, confidence |-> last.confidence]
           /\ \A w \in Videos : w # v /\ w \notin Robbed(v, tags) =>
                  {r \in Replace(v, gone, tags, last) : r.video = w /\ ~r.gone}
                      = {r \in video_tag : r.video = w /\ ~r.gone}
<1> DEFINE c == [video |-> v, gone |-> gone, tag |-> last.tag, confidence |-> last.confidence]
           after == Replace(v, gone, tags, last)
<1>1. after = {r \in video_tag : ~\E o \in tags : Conflict(r, v, gone, o.tag)} \cup {c}
    BY DEF Replace
<1>2. ASSUME NEW w \in Videos, w # v, w \notin Robbed(v, tags), NEW r \in video_tag, r.video = w
      PROVE  r \in after
    BY <1>1, <1>2 DEF Robbed, Conflict
<1>3. c.video = v
    OBVIOUS
<1> HIDE DEF c, after
<1> QED BY <1>1, <1>2, <1>3 DEF c, after

LEMMA IndexNewKeepsRows ==
    ASSUME TypeOK, RowInv, NEW v \in Videos, IndexNew(v)
    PROVE  RowInv'
<1> DEFINE c == [video |-> v, gone |-> FALSE, tag |-> CameraTag.tag, confidence |-> CameraTag.confidence]
<1>0. \A r \in video_tag : r.video \in Videos
    BY DEF TypeOK
<1>1. /\ ~AtDetection' /\ ~Indexed(v) /\ UNCHANGED <<images, pruning, kept, scanned, marked>>
      /\ video_tag' = Replace(v, FALSE, {CameraTag}, CameraTag)
      /\ robbed' = robbed \cup Robbed(v, {CameraTag})
    BY DEF IndexNew, IndexRest, Enter, AtDetection
<1>2. /\ row[v].ran = FALSE /\ row[v].status # Deleted /\ row'[v].ran = FALSE /\ row'[v].status # Deleted
      /\ Indexed(v)' /\ \A w \in Videos : w # v => row'[w] = row[w] /\ Indexed(w)' = Indexed(w)
    BY DEF IndexNew, Inserted, Indexed, NoRow, TypeOK, Deleted
<1>3. /\ c \in video_tag' /\ \A r \in video_tag' : r \in video_tag \/ r = c
      /\ \A w \in Videos : w # v /\ w \notin robbed' => TagsOf(w)' = TagsOf(w)
    <2>1. /\ c \in video_tag' /\ \A r \in video_tag' : r \in video_tag \/ r = c
          /\ \A w \in Videos : w # v /\ w \notin Robbed(v, {CameraTag}) =>
                {r \in video_tag' : r.video = w /\ ~r.gone} = {r \in video_tag : r.video = w /\ ~r.gone}
        <3>1. /\ c \in Replace(v, FALSE, {CameraTag}, CameraTag)
              /\ \A r \in Replace(v, FALSE, {CameraTag}, CameraTag) : r \in video_tag \/ r = c
              /\ \A w \in Videos : w # v /\ w \notin Robbed(v, {CameraTag}) =>
                    {r \in Replace(v, FALSE, {CameraTag}, CameraTag) : r.video = w /\ ~r.gone}
                        = {r \in video_tag : r.video = w /\ ~r.gone}
            <4>1. FALSE \in BOOLEAN
                OBVIOUS
            <4> QED BY ONLY <1>0, <4>1, ReplaceKeeps, Zenon
        <3> HIDE DEF c
        <3> QED BY <1>1, <3>1
    <2> QED BY <1>1, <2>1 DEF TagsOf
<1>4. TagsOfRows' /\ OneAtWork'
    <2>1. \A r \in video_tag' : r.gone \/ ~Indexed(r.video)' => r \in video_tag
        BY <1>2, <1>3
    <2>2. \A r \in video_tag : ~Indexed(r.video)' => ~Indexed(r.video)
        BY <1>0, <1>2
    <2>3. TagsOfRows'
        BY <1>1, <2>1, <2>2 DEF RowInv, TagsOfRows
    <2> QED BY <1>1, <2>3 DEF OneAtWork
<1>5. ASSUME NEW w \in Videos, w \notin robbed' PROVE VideoInv(w)'
    <2>1. VideoInv(w) /\ AtWork(w)'
        BY <1>1, <1>5 DEF RowInv, AtWork
    <2>2. CASE w = v
        <3>1. c \in TagsOf(v)'
            BY <1>3 DEF TagsOf
        <3>2. Tagged(w)'
            BY <1>2, <2>2, <3>1 DEF Tagged
        <3>3. Pruned(w)'
            BY <1>1, <1>2, <2>1, <2>2 DEF VideoInv, Pruned, SeenWhole, WorthKeeping, pruning, kept
        <3> QED BY <2>1, <3>2, <3>3 DEF VideoInv
    <2>3. CASE w # v
        BY <1>1, <1>2, <1>3, <1>5, <2>1, <2>3, VideoStays
    <2> QED BY <2>2, <2>3
<1> QED BY <1>4, <1>5 DEF RowInv

LEMMA IndexKeepsRows == TypeOK /\ RowInv /\ Index => RowInv'
<1> SUFFICES ASSUME TypeOK, RowInv, Index PROVE RowInv'
    OBVIOUS
<1>1. ASSUME NEW v \in Videos, IndexKnown(v) PROVE RowInv'
    <2>1. ~AtDetection' /\ UNCHANGED <<images, video_tag, robbed, pruning, kept, scanned, marked>>
        BY <1>1 DEF IndexKnown, IndexRest, Enter, AtDetection
    <2>2. ASSUME NEW w \in Videos
          PROVE  /\ Indexed(w)' = Indexed(w) /\ row'[w].status = row[w].status
                 /\ row'[w].ran = row[w].ran
        <3>1. row'[w] = IF w = v THEN [row[v] EXCEPT !.size = day[v]] ELSE row[w]
            BY <1>1 DEF IndexKnown, TypeOK
        <3>2. row[v] \in [ran : BOOLEAN, status : {0, 2}, size : Files]
            BY DEF TypeOK
        <3>3. CASE w = v
            <4>1. row'[v].size = day[v] /\ row'[v].ran = row[v].ran /\ row'[v].status = row[v].status
                BY <3>1, <3>2, <3>3
            <4>2. Indexed(v) /\ day[v] # "none"
                BY <1>1 DEF IndexKnown
            <4>3. row'[v] # NoRow
                BY <4>1, <4>2 DEF NoRow
            <4> QED BY <3>3, <4>1, <4>2, <4>3 DEF Indexed
        <3>4. CASE w # v
            BY <3>1, <3>4 DEF Indexed
        <3> QED BY <3>3, <3>4
    <2>3. TagsOfRows' /\ OneAtWork'
        <3>1. \A r \in video_tag : r.video \in Videos
            BY DEF TypeOK
        <3> QED BY <2>1, <2>2, <3>1 DEF RowInv, TagsOfRows, OneAtWork
    <2>4. ASSUME NEW w \in Videos, w \notin robbed PROVE VideoInv(w)'
        <3>1. VideoInv(w) /\ AtWork(w)' /\ TagsOf(w)' = TagsOf(w)
            BY <2>1, <2>4 DEF RowInv, AtWork, TagsOf
        <3> QED BY <2>1, <2>2, <3>1, VideoStays
    <2> QED BY <2>1, <2>3, <2>4 DEF RowInv
<1>2. CASE UNCHANGED <<tables, robbed>>
    BY <1>2, RowsStay DEF Index, ToDetect, IndexNew, IndexBroken, IndexKnown, IndexMissing,
       IndexRest, Enter, AtDetection, history
<1> QED BY <1>1, <1>2, IndexNewKeepsRows DEF Index, ToDetect, IndexBroken, IndexMissing

LEMMA FetchKeepsRows ==
    ASSUME TypeOK, RowInv, NEW v \in Videos, Fetch(v)
    PROVE  RowInv'
<1>1. /\ UNCHANGED <<images, row, video_tag, pruning, marked, robbed, kept>>
      /\ current' = {v} /\ job' = "fetched" /\ ~row[v].ran /\ Indexed(v)
      /\ scanned'[v] = day[v] /\ day[v] \in {"whole", "part"}
      /\ \A w \in Videos : w # v => scanned'[w] = scanned[w]
      /\ found' = Objects(Content[v]) \/ day[v] = "part"
    BY DEF Fetch, DetectRest, tables, NotRun, TypeOK
<1>2. TagsOfRows' /\ OneAtWork'
    BY <1>1 DEF RowInv, TagsOfRows, OneAtWork, Indexed
<1>3. ASSUME NEW w \in Videos, w \notin robbed PROVE VideoInv(w)'
    <2>1. VideoInv(w) /\ TagsOf(w)' = TagsOf(w) /\ Indexed(w)' = Indexed(w)
        BY <1>1, <1>3 DEF RowInv, TagsOf, Indexed
    <2>2. AtWork(w)'
        BY <1>1 DEF AtWork, Indexed, SeenWhole, WorthKeeping
    <2>3. CASE w = v
        <3>1. Tagged(w)'
            BY <1>1, <2>1, <2>3 DEF VideoInv, Tagged
        <3>2. Pruned(w)'
            BY <1>1, <2>1, <2>3 DEF VideoInv, Pruned, pruning, kept, WorthKeeping
        <3> QED BY <2>2, <3>1, <3>2 DEF VideoInv
    <2>4. CASE w # v
        BY <1>1, <2>1, <2>2, <2>4, VideoStays
    <2> QED BY <2>3, <2>4
<1> QED BY <1>1, <1>2, <1>3 DEF RowInv

LEMMA UploadKeepsRows ==
    ASSUME TypeOK, RowInv, Upload
    PROVE  RowInv'
<1>1. /\ UNCHANGED <<row, video_tag, pruning, history, current, found>>
      /\ job = "fetched" /\ job' = "uploaded" /\ images' = images \cup current
    BY DEF Upload, DetectRest, tables
<1>2. TagsOfRows' /\ OneAtWork'
    BY <1>1 DEF RowInv, TagsOfRows, OneAtWork, Indexed, AtDetection, history
<1>3. ASSUME NEW w \in Videos, w \notin robbed PROVE VideoInv(w)'
    <2>1. VideoInv(w) /\ TagsOf(w)' = TagsOf(w) /\ Indexed(w)' = Indexed(w)
        BY <1>1, <1>3 DEF RowInv, TagsOf, Indexed
    <2>2. UNCHANGED <<scanned, marked, kept>> /\ SeenWhole(w)' = SeenWhole(w)
        BY <1>1 DEF history, SeenWhole, WorthKeeping
    <2>3. AtWork(w)'
        BY <1>1, <2>1, <2>2 DEF VideoInv, AtWork, AtDetection
    <2>4. CASE w \in current
        <3>1. Indexed(w) /\ ~row[w].ran /\ row[w].status # Deleted
            BY <1>1, <2>1, <2>4 DEF VideoInv, AtWork, AtDetection, Tagged
        <3>2. Tagged(w)'
            BY <1>1, <2>1, <2>2 DEF VideoInv, Tagged, HasPerson
        <3>3. Pruned(w)'
            BY <1>1, <2>1, <2>2, <3>1 DEF VideoInv, Pruned, pruning, kept, WorthKeeping
        <3> QED BY <2>3, <3>2, <3>3 DEF VideoInv
    <2>5. CASE w \notin current
        BY <1>1, <2>1, <2>2, <2>3, <2>5, VideoStays
    <2> QED BY <2>4, <2>5
<1> QED BY <1>1, <1>2, <1>3 DEF RowInv, history

\* One tag is all there is of a video that is not robbed.
LEMMA TagKeepsRows ==
    ASSUME TypeOK, RowInv, job = "uploaded", job' = "tagged",
           NEW v \in current, NEW last \in found, NEW gone \in BOOLEAN, gone <=> ~Indexed(v),
           video_tag' = Replace(v, gone, found, last),
           robbed' = robbed \cup Robbed(v, found),
           UNCHANGED <<current, found, images, row, scanned, marked, kept>>, DetectRest
    PROVE  RowInv'
<1> DEFINE c == [video |-> v, gone |-> gone, tag |-> last.tag, confidence |-> last.confidence]
<1>0. /\ v \in Videos /\ \A r \in video_tag : r.video \in Videos
      /\ AtDetection /\ current = {v} /\ UNCHANGED pruning
    <2>1. v \in Videos /\ \A r \in video_tag : r.video \in Videos
        BY DEF TypeOK
    <2> QED BY <2>1 DEF RowInv, OneAtWork, AtDetection, DetectRest
<1>1. /\ c \in video_tag' /\ \A r \in video_tag' : r \in video_tag \/ r = c
      /\ \A w \in Videos : w # v /\ w \notin robbed' => TagsOf(w)' = TagsOf(w)
    <2>1. /\ c \in video_tag' /\ \A r \in video_tag' : r \in video_tag \/ r = c
          /\ \A w \in Videos : w # v /\ w \notin Robbed(v, found) =>
                {r \in video_tag' : r.video = w /\ ~r.gone} = {r \in video_tag : r.video = w /\ ~r.gone}
        BY <1>0, ReplaceKeeps
    <2> QED BY <2>1 DEF TagsOf
<1>2. v \notin robbed' => /\ Indexed(v) /\ found = {last} /\ VideoInv(v)
    <2>1. v \notin Robbed(v, found) => \A o \in found : o = last
        BY DEF Robbed
    <2> QED BY <1>0, <2>1 DEF RowInv, VideoInv, AtWork
<1>3. TagsOfRows' /\ OneAtWork'
    BY <1>0, <1>1, <1>2 DEF RowInv, TagsOfRows, OneAtWork, Indexed
<1>4. ASSUME NEW w \in Videos, w \notin robbed' PROVE VideoInv(w)'
    <2>1. VideoInv(w) /\ Indexed(w)' = Indexed(w) /\ SeenWhole(w)' = SeenWhole(w)
        BY <1>4 DEF RowInv, Indexed, SeenWhole, WorthKeeping
    <2>2. CASE w = v
        <3>1. c \in TagsOf(v)'
            BY <1>1, <1>2, <1>4, <2>2 DEF TagsOf
        <3>2. Indexed(v) /\ ~row[v].ran /\ scanned[v] # "none" /\ row[v].status # Deleted
            BY <1>0, <2>1, <2>2 DEF VideoInv, AtWork, Tagged
        <3>3. SeenWhole(v) => found = Objects(Content[v]) /\ last = Person
            <4>1. SeenWhole(v) => found = Objects(Content[v])
                BY <1>0, <2>1, <2>2 DEF VideoInv, AtWork
            <4>2. SeenWhole(v) => Person \in Objects(Content[v])
                BY DEF SeenWhole, WorthKeeping, Objects
            <4> QED BY <1>2, <1>4, <2>2, <4>1, <4>2
        <3>4. SeenWhole(v) => HasPerson(v)'
            <4>1. last = Person => c.tag = "person" /\ c.confidence = "high"
                BY DEF Person
            <4> HIDE DEF c
            <4> QED BY <3>1, <3>3, <4>1 DEF HasPerson
        <3>5. AtWork(w)'
            BY <2>1, <2>2, <3>2, <3>3, <3>4 DEF AtWork
        <3>6. Tagged(w)'
            BY <2>1, <2>2, <3>1, <3>2 DEF Tagged
        <3>7. Pruned(w)'
            BY <1>0, <2>1, <2>2 DEF VideoInv, Pruned, pruning, kept, WorthKeeping
        <3> QED BY <3>5, <3>6, <3>7 DEF VideoInv
    <2>3. CASE w # v
        <3>1. AtWork(w)'
            BY <1>0, <2>3 DEF AtWork
        <3> QED BY <1>0, <1>1, <1>4, <2>1, <2>3, <3>1, VideoStays
    <2> QED BY <2>2, <2>3
<1> QED BY <1>3, <1>4 DEF RowInv

LEMMA RanKeepsRows ==
    ASSUME TypeOK, RowInv, CommitRan
    PROVE  RowInv'
<1>1. /\ UNCHANGED <<images, video_tag, pruning, history>> /\ current' = {}
      /\ ~AtDetection' /\ AtDetection /\ job = "tagged"
    BY DEF CommitRan, DetectRest, AtDetection
<1>2. ASSUME NEW w \in Videos
      PROVE  /\ Indexed(w)' = Indexed(w) /\ row'[w].status = row[w].status
             /\ row[w].ran => row'[w].ran
             /\ row'[w].ran => row[w].ran \/ w \in current
             /\ w \notin current => row'[w].ran = row[w].ran
    <2>1. row'[w] = IF w \in current /\ Indexed(w) THEN [row[w] EXCEPT !.ran = TRUE] ELSE row[w]
        BY DEF CommitRan
    <2>2. row[w] \in [ran : BOOLEAN, status : {0, 2}, size : Files]
        BY DEF TypeOK
    <2>3. CASE w \in current /\ Indexed(w)
        <3>1. row'[w].ran = TRUE /\ row'[w].status = row[w].status
            BY <2>1, <2>2, <2>3
        <3>2. row'[w] # NoRow
            BY <3>1 DEF NoRow
        <3> QED BY <2>3, <3>1, <3>2 DEF Indexed
    <2>4. CASE ~(w \in current /\ Indexed(w))
        BY <2>1, <2>4 DEF Indexed
    <2> QED BY <2>3, <2>4
<1>3. TagsOfRows' /\ OneAtWork'
    <2>1. \A r \in video_tag : r.video \in Videos
        BY DEF TypeOK
    <2> QED BY <1>1, <1>2, <2>1 DEF RowInv, TagsOfRows, OneAtWork, history
<1>4. ASSUME NEW w \in Videos, w \notin robbed PROVE VideoInv(w)'
    <2>1. VideoInv(w) /\ TagsOf(w)' = TagsOf(w) /\ AtWork(w)'
        BY <1>1, <1>4 DEF RowInv, TagsOf, AtWork
    <2>2. UNCHANGED <<scanned, marked, kept>> /\ SeenWhole(w)' = SeenWhole(w)
        BY <1>1 DEF history, SeenWhole, WorthKeeping
    <2>3. Tagged(w)'
        BY <1>1, <1>2, <2>1, <2>2 DEF VideoInv, Tagged, AtWork, HasPerson
    <2>4. Pruned(w)'
        BY <1>1, <1>2, <2>1, <2>2 DEF VideoInv, Pruned, pruning, kept, WorthKeeping
    <2> QED BY <2>1, <2>3, <2>4 DEF VideoInv
<1> QED BY <1>1, <1>3, <1>4 DEF RowInv, history

LEMMA DetectKeepsRows == TypeOK /\ RowInv /\ Detect => RowInv'
<1> SUFFICES ASSUME TypeOK, RowInv, Detect PROVE RowInv'
    OBVIOUS
<1>1. CASE CommitTags
    <2>0. /\ job = "uploaded" /\ job' = "tagged" /\ DetectRest
          /\ UNCHANGED <<current, found, images, row, scanned, marked, kept>>
        BY <1>1 DEF CommitTags
    <2>1. CASE found = {}
        <3>1. UNCHANGED <<video_tag, robbed, pruning>> /\ AtDetection
            BY <1>1, <2>0, <2>1 DEF CommitTags, DetectRest, AtDetection
        <3>2. TagsOfRows' /\ OneAtWork'
            BY <2>0, <3>1 DEF RowInv, TagsOfRows, OneAtWork, Indexed
        <3>3. ASSUME NEW w \in Videos, w \notin robbed PROVE VideoInv(w)'
            <4>1. VideoInv(w) /\ TagsOf(w)' = TagsOf(w) /\ Indexed(w)' = Indexed(w)
                BY <2>0, <3>1, <3>3 DEF RowInv, TagsOf, Indexed
            <4>2. w \in current => ~SeenWhole(w)
                BY <2>1, <3>1, <4>1 DEF VideoInv, AtWork, SeenWhole, WorthKeeping, Objects
            <4>3. AtWork(w)'
                BY <2>0, <3>1, <4>1, <4>2 DEF VideoInv, AtWork, SeenWhole, WorthKeeping
            <4> QED BY <2>0, <3>1, <4>1, <4>3, VideoStays
        <3> QED BY <3>1, <3>2, <3>3 DEF RowInv
    <2>2. CASE found # {}
        <3>1. PICK v \in current, last \in found :
                /\ video_tag' = Replace(v, ~Indexed(v), found, last)
                /\ robbed' = robbed \cup Robbed(v, found)
            BY <1>1, <2>2 DEF CommitTags
        <3>2. PICK gone \in BOOLEAN : gone = ~Indexed(v)
            BY DEF Indexed
        <3> QED BY <2>0, <3>1, <3>2, TagKeepsRows
    <2> QED BY <2>1, <2>2
<1>2. CASE Done
    BY <1>2, RowsStay DEF Done, DetectRest, AtDetection
<1>3. ASSUME NEW v \in Videos, FetchFails(v) PROVE RowInv'
    BY <1>3, RowsStay DEF FetchFails, DetectRest, AtDetection
<1> QED BY <1>1, <1>2, <1>3, FetchKeepsRows, UploadKeepsRows, RanKeepsRows DEF Detect

\* What prune.sh does to a video that keeps its row and tags.
LEMMA PruneStays ==
    ASSUME NEW v \in Videos, VideoInv(v), PruneRest, Pruned(v)', UNCHANGED video_tag,
           scanned'[v] = scanned[v], Indexed(v)' = Indexed(v), row'[v].ran = row[v].ran,
           row'[v].status = Deleted => row[v].ran
    PROVE  VideoInv(v)'
<1>1. TagsOf(v)' = TagsOf(v) /\ SeenWhole(v)' = SeenWhole(v) /\ UNCHANGED <<job, current, found>>
    BY DEF TagsOf, SeenWhole, WorthKeeping, PruneRest, script
<1>2. Tagged(v)' /\ AtWork(v)'
    BY <1>1 DEF VideoInv, Tagged, AtWork, AtDetection, HasPerson
<1> QED BY <1>2 DEF VideoInv

LEMMA SelectKeepsRows ==
    ASSUME TypeOK, RowInv, NEW p \in Runs, Select(p)
    PROVE  RowInv'
<1>1. /\ UNCHANGED <<images, row, video_tag, history, listed>> /\ PruneRest
      /\ prune' = [prune EXCEPT ![p] = "mark"] /\ prune[p] = "ready"
      /\ \A q \in Runs : q # p => prune'[q] = prune[q] /\ doomed'[q] = doomed[q]
    BY DEF Select, At, Go, tables, TypeOK
<1>2. TagsOfRows' /\ OneAtWork'
    BY <1>1 DEF RowInv, TagsOfRows, OneAtWork, Indexed, AtDetection, history, PruneRest, script
<1>3. ASSUME NEW v \in Videos, v \notin robbed PROVE VideoInv(v)'
    <2>1. VideoInv(v)
        BY <1>3 DEF RowInv
    <2>2. ASSUME v \in doomed'[p] PROVE row[v].ran /\ ~SeenWhole(v)
        <3>1. Indexed(v) /\ (OnlyDull(v) \/ OnlyLow(v) \/ Untagged(v))
            BY <2>2 DEF Select, Go, TypeOK
        <3>2. TagsOf(v) # {} /\ row[v].ran
            BY <2>1, <3>1 DEF VideoInv, Tagged, OnlyDull, OnlyLow, Untagged
        <3>3. ASSUME SeenWhole(v) PROVE FALSE
            <4>1. HasPerson(v)
                BY <2>1, <3>2, <3>3 DEF VideoInv, Tagged
            <4> QED BY <3>1, <3>2, <4>1 DEF HasPerson, OnlyDull, OnlyLow, Untagged
        <3> QED BY <3>2, <3>3
    <2>3. UNCHANGED <<scanned, marked, stuck, skipped>>
        BY <1>1 DEF history, kept
    <2>4. Pruned(v)'
        <3>1. \A q \in Runs : prune'[q] = "mark" /\ v \in doomed'[q] => row[v].ran /\ ~SeenWhole(v)
            BY <1>1, <2>1, <2>2 DEF VideoInv, Pruned
        <3>2. \A q \in Runs : prune'[q] = "files" => q # p
            BY <1>1 DEF TypeOK
        <3> QED BY <1>1, <2>1, <2>3, <3>1, <3>2 DEF VideoInv, Pruned, SeenWhole, WorthKeeping, Indexed
    <2>5. row[v].status = Deleted => row[v].ran
        BY <2>1 DEF VideoInv, Tagged
    <2> QED BY <1>1, <2>1, <2>3, <2>4, <2>5, PruneStays DEF Indexed
<1> QED BY <1>1, <1>2, <1>3 DEF RowInv, history

LEMMA MarkKeepsRows ==
    ASSUME TypeOK, RowInv, NEW p \in Runs, Mark(p)
    PROVE  RowInv'
<1>1. /\ UNCHANGED <<images, video_tag, scanned, robbed, kept, listed>> /\ PruneRest
      /\ prune[p] = "mark" /\ prune'[p] = "list"
      /\ \A q \in Runs : q # p => prune'[q] = prune[q] /\ doomed'[q] = doomed[q]
    BY DEF Mark, At, Go, TypeOK
<1>2. ASSUME NEW v \in Videos
      PROVE  /\ Indexed(v)' = Indexed(v) /\ row'[v].ran = row[v].ran
             /\ row[v].status = Deleted => row'[v].status = Deleted
             /\ row'[v].status = Deleted => row[v].status = Deleted \/ v \in doomed[p]
             /\ marked'[v] = IF v \in doomed[p] THEN marked[v] \cup {scanned[v]} ELSE marked[v]
    <2>1. row'[v] = IF v \in doomed[p] /\ Indexed(v) THEN [row[v] EXCEPT !.status = Deleted] ELSE row[v]
        BY DEF Mark
    <2>2. row[v] \in [ran : BOOLEAN, status : {0, 2}, size : Files]
        BY DEF TypeOK
    <2> QED BY <2>1, <2>2 DEF Indexed, NoRow, Deleted, Mark
<1>3. TagsOfRows' /\ OneAtWork'
    <2>1. \A r \in video_tag : r.video \in Videos
        BY DEF TypeOK
    <2> QED BY <1>1, <1>2, <2>1 DEF RowInv, TagsOfRows, OneAtWork, AtDetection, PruneRest, script
<1>4. ASSUME NEW v \in Videos, v \notin robbed PROVE VideoInv(v)'
    <2>1. VideoInv(v)
        BY <1>4 DEF RowInv
    <2>2. v \in doomed[p] => row[v].ran /\ scanned[v] # "none" /\ ~SeenWhole(v)
        BY <1>1, <2>1 DEF VideoInv, Pruned, Tagged
    <2>3. SeenWhole(v)' = SeenWhole(v)
        BY <1>1 DEF SeenWhole, WorthKeeping
    <2>4. Pruned(v)'
        <3>1. \A q \in Runs : prune'[q] = "mark" /\ v \in doomed'[q] => row'[v].ran /\ ~SeenWhole(v)
            BY <1>1, <1>2, <2>1 DEF VideoInv, Pruned
        <3>2. "none" \notin marked'[v] /\ (WorthKeeping(v) => "whole" \notin marked'[v])
            BY <1>2, <2>1, <2>2 DEF VideoInv, Pruned, SeenWhole
        <3>3. \A q \in Runs : prune'[q] = "files" => q # p
            BY <1>1
        <3> QED BY <1>1, <1>2, <2>1, <2>3, <3>1, <3>2, <3>3 DEF VideoInv, Pruned, WorthKeeping, kept
    <2>5. row'[v].status = Deleted => row[v].ran
        BY <1>2, <2>1, <2>2 DEF VideoInv, Tagged
    <2> QED BY <1>1, <1>2, <2>1, <2>4, <2>5, PruneStays
<1> QED BY <1>1, <1>3, <1>4 DEF RowInv

\* Listing, removing files and dying touch no table.
LEMMA FilesKeepRows ==
    ASSUME TypeOK, RowInv, NEW p \in Runs, PruneRest, UNCHANGED <<tables, scanned, marked, robbed, skipped>>,
           images' \subseteq images, stuck \subseteq stuck',
           \A q \in Runs : q # p => prune'[q] = prune[q] /\ doomed'[q] = doomed[q] /\ listed'[q] = listed[q],
           prune'[p] # "mark",
           \A v \in Videos \ robbed : v \in listed'[p] =>
               /\ row[v].status = Deleted
               /\ prune'[p] = "files" /\ v \in images' => v \in doomed'[p] \cup stuck'
    PROVE  RowInv'
<1>1. TagsOfRows' /\ OneAtWork'
    BY DEF RowInv, TagsOfRows, OneAtWork, Indexed, AtDetection, tables, PruneRest, script
<1>2. ASSUME NEW v \in Videos, v \notin robbed PROVE VideoInv(v)'
    <2>1. VideoInv(v) /\ UNCHANGED <<row, video_tag>>
        BY <1>2 DEF RowInv, tables
    <2>2. SeenWhole(v)' = SeenWhole(v) /\ Indexed(v)' = Indexed(v)
        BY <2>1 DEF SeenWhole, WorthKeeping, Indexed
    <2>3. Pruned(v)'
        <3>1. \A q \in Runs : prune'[q] = "mark" /\ v \in doomed'[q] => row[v].ran /\ ~SeenWhole(v)
            BY <2>1 DEF VideoInv, Pruned
        <3>2. ASSUME NEW q \in Runs, v \in listed'[q]
              PROVE  /\ row[v].status = Deleted
                     /\ prune'[q] = "files" /\ v \in images' => v \in doomed'[q] \cup stuck'
            <4>1. CASE q = p
                BY <1>2, <3>2, <4>1
            <4>2. CASE q # p
                BY <2>1, <3>2, <4>2 DEF VideoInv, Pruned
            <4> QED BY <4>1, <4>2
        <3> QED BY <2>1, <2>2, <3>1, <3>2 DEF VideoInv, Pruned, WorthKeeping
    <2>4. row[v].status = Deleted => row[v].ran
        BY <2>1 DEF VideoInv, Tagged
    <2> QED BY <2>1, <2>2, <2>3, <2>4, PruneStays
<1> QED BY <1>1, <1>2 DEF RowInv

LEMMA DeleteKeepsRows ==
    ASSUME TypeOK, RowInv, NEW p \in Runs, DeleteRows(p)
    PROVE  RowInv'
<1>1. /\ UNCHANGED <<images, marked, robbed, stuck>> /\ PruneRest
      /\ prune[p] = "files" /\ doomed[p] = {} /\ ToDelete \subseteq Videos
      /\ video_tag' = {r \in video_tag : r.gone \/ r.video \notin ToDelete}
      /\ skipped' = skipped \cup (ToDelete \ listed[p])
    BY DEF DeleteRows, ToDelete, At
<1>2. ASSUME NEW q \in Runs
      PROVE  /\ listed'[q] = listed[q] \ ToDelete
             /\ prune'[q] = "mark" => prune[q] = "mark" /\ doomed'[q] = doomed[q] \ ToDelete
             /\ prune'[q] = "files" => prune[q] = "files" /\ doomed'[q] = doomed[q]
    BY DEF DeleteRows, At, TypeOK
<1>3. ASSUME NEW v \in Videos, v \in ToDelete
      PROVE  ~Indexed(v)' /\ ~row'[v].ran /\ row'[v].status # Deleted
    BY <1>3 DEF DeleteRows, NoRow, Indexed, Deleted
<1>4. ASSUME NEW v \in Videos, v \notin ToDelete
      PROVE  row'[v] = row[v] /\ scanned'[v] = scanned[v] /\ Indexed(v)' = Indexed(v)
    BY <1>4 DEF DeleteRows, Indexed
<1>5. UNCHANGED <<job, current, found>>
    BY <1>1 DEF PruneRest, script
<1>6. TagsOfRows' /\ OneAtWork'
    <2>1. \A r \in video_tag : r.video \in Videos
        BY DEF TypeOK
    <2> QED BY <1>1, <1>4, <1>5, <2>1 DEF RowInv, TagsOfRows, OneAtWork, AtDetection
<1>7. ASSUME NEW v \in Videos, v \notin robbed PROVE VideoInv(v)'
    <2>1. VideoInv(v)
        BY <1>7 DEF RowInv
    <2>2. CASE v \in ToDelete
        <3>1. row[v].status = Deleted
            BY <2>2 DEF ToDelete
        <3>2. Tagged(v)'
            BY <1>3, <2>2 DEF Tagged
        <3>3. AtWork(v)'
            BY <1>5, <2>1, <3>1 DEF VideoInv, AtWork, Tagged, AtDetection
        <3>4. Pruned(v)'
            <4>1. \A q \in Runs : v \notin listed'[q] /\ (prune'[q] = "mark" => v \notin doomed'[q])
                BY <1>2, <2>2
            <4>2. v \in images' => v \in stuck' \cup skipped'
                BY <1>1, <2>1, <2>2 DEF VideoInv, Pruned
            <4> QED BY <1>1, <2>1, <4>1, <4>2 DEF VideoInv, Pruned, WorthKeeping
        <3> QED BY <3>2, <3>3, <3>4 DEF VideoInv
    <2>3. CASE v \notin ToDelete
        <3>1. TagsOf(v)' = TagsOf(v) /\ SeenWhole(v)' = SeenWhole(v) /\ row'[v] = row[v]
            BY <1>1, <1>4, <2>3 DEF TagsOf, SeenWhole, WorthKeeping
        <3>2. Tagged(v)' /\ AtWork(v)'
            BY <1>4, <1>5, <2>1, <2>3, <3>1 DEF VideoInv, Tagged, AtWork, AtDetection, HasPerson
        <3>3. Pruned(v)'
            <4>1. \A q \in Runs : prune'[q] = "mark" /\ v \in doomed'[q] => row[v].ran /\ ~SeenWhole(v)
                BY <1>2, <2>1 DEF VideoInv, Pruned
            <4>2. \A q \in Runs : v \notin listed'[q]
                BY <1>2, <2>1, <2>3 DEF VideoInv, Pruned, ToDelete
            <4> QED BY <1>1, <1>4, <2>1, <2>3, <3>1, <4>1, <4>2 DEF VideoInv, Pruned, WorthKeeping
        <3> QED BY <3>2, <3>3 DEF VideoInv
    <2> QED BY <2>2, <2>3
<1> QED BY <1>1, <1>6, <1>7 DEF RowInv

LEMMA PruneKeepsRows == TypeOK /\ RowInv /\ Prune => RowInv'
<1> SUFFICES ASSUME TypeOK, RowInv, Prune PROVE RowInv'
    OBVIOUS
<1>1. ASSUME NEW p \in Runs, ListDoomed(p) PROVE RowInv'
    <2>1. /\ PruneRest /\ UNCHANGED <<tables, scanned, marked, robbed, skipped, images, stuck>>
          /\ prune'[p] = "files" /\ doomed'[p] = ToDelete /\ listed'[p] = ToDelete
          /\ \A q \in Runs : q # p => prune'[q] = prune[q] /\ doomed'[q] = doomed[q] /\ listed'[q] = listed[q]
        BY <1>1 DEF ListDoomed, Go, history, kept, TypeOK
    <2> QED BY <2>1, FilesKeepRows DEF ToDelete
<1>2. ASSUME NEW p \in Runs, NEW v \in Videos, RemoveFiles(p, v) PROVE RowInv'
    <2>1. /\ PruneRest /\ UNCHANGED <<tables, scanned, marked, robbed, skipped, stuck, listed>>
          /\ prune[p] = "files" /\ prune'[p] = "files" /\ doomed'[p] = doomed[p] \ {v} /\ images' = images \ {v}
          /\ \A q \in Runs : q # p => prune'[q] = prune[q] /\ doomed'[q] = doomed[q] /\ listed'[q] = listed[q]
        BY <1>2 DEF RemoveFiles, At, Go, history, kept, TypeOK
    <2>2. ASSUME NEW w \in Videos \ robbed, w \in listed'[p]
          PROVE  row[w].status = Deleted /\ (w \in images' => w \in doomed'[p] \cup stuck')
        BY <2>1, <2>2 DEF RowInv, VideoInv, Pruned
    <2> QED BY <2>1, <2>2, FilesKeepRows
<1> QED BY <1>1, <1>2, SelectKeepsRows, MarkKeepsRows, DeleteKeepsRows DEF Prune

LEMMA FailingKeepsRows == TypeOK /\ RowInv /\ Failing => RowInv'
<1> SUFFICES ASSUME TypeOK, RowInv, Failing PROVE RowInv'
    OBVIOUS
<1>1. CASE NoHost \/ CopyFails \/ ScriptDies
    BY <1>1, RowsStay DEF NoHost, CopyFails, ScriptDies, CopyRest, Enter, AtDetection, Unconverted
<1>2. ASSUME NEW v \in Videos, NEW what \in {"part", "broken", "old"}, ConvertFails(v, what) PROVE RowInv'
    BY <1>2, RowsStay DEF ConvertFails, ConvertRest, AtDetection
<1>3. ASSUME NEW p \in Runs, PruneDies(p) PROVE RowInv'
    <2>1. /\ PruneRest /\ UNCHANGED <<tables, scanned, marked, robbed, skipped, images, stuck>>
          /\ prune'[p] = "ended" /\ listed'[p] = {}
          /\ \A q \in Runs : q # p => prune'[q] = prune[q] /\ doomed'[q] = doomed[q] /\ listed'[q] = listed[q]
        BY <1>3 DEF PruneDies, Go, history, kept, TypeOK
    <2> QED BY <2>1, FilesKeepRows
<1>4. ASSUME NEW p \in Runs, NEW v \in Videos, RemoveFilesFails(p, v) PROVE RowInv'
    <2>1. /\ PruneRest /\ UNCHANGED <<tables, scanned, marked, robbed, skipped, images, listed>>
          /\ prune[p] = "files" /\ prune'[p] = "files" /\ doomed'[p] = doomed[p] \ {v} /\ stuck' = stuck \cup {v}
          /\ \A q \in Runs : q # p => prune'[q] = prune[q] /\ doomed'[q] = doomed[q] /\ listed'[q] = listed[q]
        BY <1>4 DEF RemoveFilesFails, At, Go, TypeOK
    <2>2. ASSUME NEW w \in Videos \ robbed, w \in listed'[p]
          PROVE  row[w].status = Deleted /\ (w \in images' => w \in doomed'[p] \cup stuck')
        BY <2>1, <2>2 DEF RowInv, VideoInv, Pruned
    <2> QED BY <2>1, <2>2, FilesKeepRows
<1> QED BY <1>1, <1>2, <1>3, <1>4 DEF Failing

LEMMA InitRows == Init => RowInv
BY DEF Init, RowInv, TagsOfRows, OneAtWork, VideoInv, Tagged, AtWork, AtDetection, Pruned, Indexed,
       NoRow, Deleted

LEMMA RowsStep == TypeOK /\ RowInv /\ [Next]_vars => RowInv'
<1> SUFFICES ASSUME TypeOK, RowInv, [Next]_vars PROVE RowInv'
    OBVIOUS
<1>1. CASE Copy
    BY <1>1, RowsStay DEF Copy, List, Copied, ToConvert, Rsync, Remove, CopyRest, Enter, AtDetection
<1>2. CASE Mp4
    BY <1>2, RowsStay DEF Mp4, ToOrganize, ToIndex, Convert, RemoveSource, Organize, ConvertRest, Enter,
       AtDetection
<1>3. ASSUME NEW v \in Videos, Publish(v) PROVE RowInv'
    BY <1>3, RowsStay DEF Publish, script, AtDetection
<1>4. CASE UNCHANGED vars
    BY <1>4, RowsStay DEF vars, script, AtDetection
<1> QED BY <1>1, <1>2, <1>3, <1>4, IndexKeepsRows, DetectKeepsRows, PruneKeepsRows,
           FailingKeepsRows DEF Next, Scripts

LEMMA RowsHold == Spec => [](TypeOK /\ RowInv)
<1>1. TypeOK /\ RowInv /\ [Next]_vars => RowInv'
    BY RowsStep
<1>2. Spec => []TypeOK
    BY TypeCorrect
<1>3. Init /\ [][Next]_vars /\ []TypeOK => []RowInv
    BY <1>1, InitRows, PTL
<1> QED BY <1>2, <1>3, PTL DEF Spec

\* What prune-mark marks was looked at, and nothing worth keeping is marked that
\* was looked at as a whole (06.prune-mark.py:72-122), however many runs of
\* prune.sh overlap with each other and with detection, and whichever fail: unless
\* a REPLACE has taken a tag of the video (schema-mysql.sql:36-37).
THEOREM MarkedOnlyWhenScanned == Spec => []MarkedWasScanned
<1>1. RowInv => MarkedWasScanned
    BY DEF RowInv, VideoInv, Pruned, MarkedWasScanned
<1> QED BY <1>1, RowsHold, PTL

\* Detection and any number of runs of prune.sh, which nothing keeps from running
\* at the same time, leave no tag and no image of a video that is not in the
\* database (04.detection.py:110-131, 08.prune-rows.py:16-19), but for images that
\* could not be removed, those of a row that a run deletes and has not listed, and
\* what is left of a video that was marked as it lost its tags.
THEOREM NoLeftovers == Spec => []NothingLeftBehind
<1>1. TypeOK /\ RowInv => NothingLeftBehind
    BY DEF TypeOK, RowInv, TagsOfRows, VideoInv, Pruned, NothingLeftBehind
<1> QED BY <1>1, RowsHold, PTL
=============================================================================
