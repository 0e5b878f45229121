----------------------------- MODULE MCPipeline -----------------------------
(* Two videos of one camera, a person and a shadow that is taken for a person
   with little confidence, so that their tags meet in the index on tagId. *)
EXTENDS Pipeline
CONSTANTS v1, v2
TwoVideos == {v1, v2}
PersonAndShadow == [v \in TwoVideos |-> IF v = v1 THEN "person" ELSE "shadow"]
=============================================================================
