--------------------------- MODULE MCDockerImages ---------------------------
(***************************************************************************)
(* Two documents name images of one repository, of one tag or of none; the     *)
(* hub's pages hold one entry each, so that every list takes several.           *)
(***************************************************************************)
EXTENDS DockerImages

MCHub == <<"b", "a", "ab">>
MCHubTags == <<"v", "latest">>
MCQueries == {{"a", "ab"}}
MCImages == {Image("a", "v", "none"), Image("a", None, "none"), Image(None, None, "none")}
MCHubs == {[r \in {"a"} |-> {"v"}]}
=============================================================================
