---------------------------- MODULE MCRepoRegistry ----------------------------
(***************************************************************************)
(* Instances of RepoRegistry for TLC.                                      *)
(***************************************************************************)
EXTENDS RepoRegistry, TLC

Symmetry == Permutations(Callers)

Capitals == "GitHub.com" :> GitHub @@ "/Team" :> "/team" @@ "/App" :> "/app" @@ ".GIT" :> ".git"

Url(host, path) == [host |-> host, path |-> path]

\* A repository on GitHub in three ways, the last of which is not usual; a repository on
\* googlesource.com in two ways, one of the same name on another host, and a URL that is
\* refused there.
SomeUrls ==
  [c \in Canonicalizers |->
     IF c = "github"
       THEN {Url(GitHub, <<"/team", "/app", ".git", "/git-upload-pack">>),
             Url("GitHub.com", <<"/Team", "/App", "/">>),
             Url(GitHub, <<"/team", "/App", ".GIT">>)}
       ELSE {Url("one.googlesource.com", <<"/a", "/team", "/app">>),
             Url("one.googlesource.com", <<"/team", "/app", ".git">>),
             Url("two.googlesource.com", <<"/team", "/app">>),
             Url(GitHub, <<"/team", "/app">>)}]

OneUrl == [c \in Canonicalizers |-> {Url(CloudSource, <<"/p", "/team", "/r", "/app">>)}]
=============================================================================
