---------------------------- MODULE Canonicalizer ----------------------------
(***************************************************************************)
(* From the URL of a request, of the configuration or of a manifest to the *)
(* directory in which the repository is cached: DefaultURLCanonicalizer,   *)
(* github.URLCanonicalizer and google.CanonicalizeURL, and the             *)
(* filepath.Join of openManagedRepository.                                 *)
(*                                                                         *)
(* A URL is a host and a path; the path is a sequence of tokens, each of   *)
(* them a piece that the code compares, removes or lowers as a whole:      *)
(* "/team", "/app", ".git", "/info/refs", and "/" for a slash with nothing *)
(* behind it.                                                              *)
(***************************************************************************)
EXTENDS Sequences, SequencesExt

CONSTANT Lower   \* the hosts and tokens that have capitals, and what they are without

GitHub == "github.com"
GoogleSource == {"one.googlesource.com", "two.googlesource.com"}
CloudSource == "source.developers.google.com"

Endpoints == {"/info/refs", "/git-upload-pack", "/git-receive-pack"}
Endings == Endpoints \cup {"/", ".git"}

\* What has been lowered has no capitals, the names that the code compares have none, and
\* a slash is in no other way a slash.
ASSUME LowerAssumption ==
  /\ \A s \in DOMAIN Lower : Lower[s] \notin DOMAIN Lower /\ Lower[s] # "/"
  /\ \A s \in Endings \cup {GitHub} : s \notin DOMAIN Lower

ToLower(s) == IF s \in DOMAIN Lower THEN Lower[s] ELSE s

TrimSuffix(path, tokens) ==
  IF path # <<>> /\ Last(path) \in tokens THEN Front(path) ELSE path

\* Mutant: the other order, ".git" first.
TrimPathGitFirst(path) == TrimSuffix(TrimSuffix(path, {".git"}), Endpoints)

\* One endpoint, then one ".git".
TrimPath(path) == TrimSuffix(TrimSuffix(path, Endpoints), {".git"})

DefaultURLCanonicalizer(u) == [host |-> ToLower(u.host), path |-> TrimPath(u.path)]

LowerPath(path) == [i \in DOMAIN path |-> ToLower(path[i])]

\* Names are the same in any case on GitHub, and only there.  The suffixes are gone before
\* the path is lowered: "/App.GIT" becomes "/app.git".
URLCanonicalizer(u) ==
  LET ret == DefaultURLCanonicalizer(u)
  IN IF ret.host = GitHub THEN [ret EXCEPT !.path = LowerPath(@)] ELSE ret

Refused == [host |-> "", path |-> <<>>]

\* "/a/" asks googlesource.com for authentication; "/a.git" is a name.
Authenticated(path) == Len(path) > 1 /\ path[1] = "/a" /\ ToLower(path[2]) # ".git"
TrimPrefix(path) == IF Authenticated(path) THEN Tail(path) ELSE path

\* The host is taken as it is written.
CanonicalizeURL(u) ==
  CASE u.host \in GoogleSource -> [host |-> u.host, path |-> TrimPath(TrimPrefix(u.path))]
    [] u.host = CloudSource -> [host |-> u.host, path |-> TrimPath(u.path)]
    [] OTHER -> Refused

\* ServerConfig.URLCanonicalizer is one of the two.
Canonicalizers == {"github", "google"}
Canonical(config, u) == IF config = "github" THEN URLCanonicalizer(u) ELSE CanonicalizeURL(u)

\* Mutant: the directory is named after the path alone.
JoinPathOnly(u) == [host |-> "", path |-> TrimSuffix(u.path, {"/"})]

\* filepath.Join(root, host, path) drops the slash at the end of the path.
Join(u) == [host |-> u.host, path |-> TrimSuffix(u.path, {"/"})]

(***************************************************************************)
(* What a URL means, whatever the code makes of it: the repository that    *)
(* its host has under that URL.                                            *)
(***************************************************************************)
NameOf(path) == TrimSuffix(TrimSuffix(TrimSuffix(path, Endpoints), {"/"}), {".git"})

GitHubRepository(u) ==
  LET host == ToLower(u.host)
  IN <<host, NameOf(IF host = GitHub THEN LowerPath(u.path) ELSE u.path)>>

GoogleRepository(u) ==
  <<u.host, NameOf(IF u.host \in GoogleSource THEN TrimPrefix(u.path) ELSE u.path)>>

RepositoryOf(config, u) == IF config = "github" THEN GitHubRepository(u) ELSE GoogleRepository(u)

\* No host has a repository without a name, or with one that ends in a suffix; on
\* googlesource.com no name begins with "/a".
Names(config, u) ==
  LET name == RepositoryOf(config, u)[2]
  IN /\ name # <<>> /\ Last(name) \notin Endings
     /\ config = "google" /\ u.host \in GoogleSource => name[1] # "/a"

\* The usual ways to write a URL: the endings are in small letters, and no slash follows
\* a ".git".
Usual(u) ==
  \A i \in DOMAIN u.path :
    /\ ToLower(u.path[i]) \in Endings => u.path[i] \in Endings
    /\ u.path[i] = "/" /\ i > 1 => u.path[i - 1] # ".git"
=============================================================================
