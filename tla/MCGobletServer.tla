---------------------------- MODULE MCGobletServer ----------------------------
(***************************************************************************)
(* An instance of GobletServer for TLC.                                    *)
(***************************************************************************)
EXTENDS GobletServer, TLC

Capitals == "GitHub.com" :> GitHub @@ "/Team" :> "/team" @@ "/App" :> "/app"

Url(host, path) == [host |-> host, path |-> path]

\* Two repositories, one that is listed twice in two ways, or none.
SomeConfigurations ==
  {<<>>,
   <<Url(GitHub, <<"/Team", "/App">>), Url(GitHub, <<"/team", "/lib">>)>>,
   <<Url(GitHub, <<"/Team", "/App", "/">>), Url("GitHub.com", <<"/team", "/app", ".git">>)>>}

\* One request for each endpoint and one for none.
AllEndpoints ==
  {Url(GitHub, <<"/Team", "/App", ".git", "/git-upload-pack">>),
   Url(GitHub, <<"/team", "/app", "/info/refs">>),
   Url(GitHub, <<"/team", "/app", "/git-receive-pack">>),
   Url(GitHub, <<"/team", "/app">>)}

SomeBodies == {<<"ls-refs", "fetch", "empty", "fetch">>, <<"fetch", "unknown">>, <<"damaged">>}
=============================================================================
