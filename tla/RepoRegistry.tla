----------------------------- MODULE RepoRegistry -----------------------------
(***************************************************************************)
(* How a repository comes into being: getManagedRepo and                   *)
(* openManagedRepository, called at the same time by HTTP handlers, by the *)
(* background rounds and by main, with URLs that are written in many ways. *)
(* A URL leads to a directory, localDiskPath; the first caller for it      *)
(* stores the new object in managedRepos and gives it its pools; once.Do   *)
(* creates and configures the repository on disk.                          *)
(*                                                                         *)
(* The program may die at any point; the disk keeps what was written.      *)
(***************************************************************************)
EXTENDS Naturals, Sequences, Canonicalizer

CONSTANTS
  Callers,       \* the goroutines that open a repository
  Urls,          \* Urls[c]: the URLs they open on a server whose URLCanonicalizer is c
  NoUrl,
  MaxFailures,   \* bound on failing git commands
  MaxRestarts    \* bound on deaths of the program

ASSUME BoundAssumption == MaxFailures \in Nat /\ MaxRestarts \in Nat
ASSUME UrlAssumption == \A c \in Canonicalizers : NoUrl \notin Urls[c]

\* What a server accepts names a repository of its host.
ASSUME NameAssumption ==
  \A c \in Canonicalizers : \A u \in Urls[c] : Canonical(c, u) # Refused =>
    Names(c, u) /\ u.path \in Seq({u.path[i] : i \in DOMAIN u.path})

\* The git commands of the initialisation: init --bare, the six settings, the mirror.
GitSteps == <<"init", "config", "remote">>
Pools == {"fetchUpstreamPool", "serveFetchPool"}

Paths == UNION {{Join(Canonical(c, u)) : u \in Urls[c]} : c \in Canonicalizers}
NoPath == Refused

VARIABLES
  config,       \* which URLCanonicalizer the ServerConfig has
  \* In memory.
  stored,       \* stored[p]: whose canonical URL is the upstreamURL of the object that
                \* managedRepos holds for the path, or NoUrl
  pools,        \* pools[p]: the pools of that object that are not nil
  once,         \* once[p]: its once: "new", "running", "done"
  pc,           \* pc[t]: where a caller is
  url,          \* url[t]: the URL it opens
  dir,          \* dir[t]: localDiskPath, the directory for it
  next,         \* next[p]: the next git command of the initialisation
  \* On disk.
  dirExists,    \* dirExists[p]: the directory exists
  configured,   \* configured[p]: the git commands that succeeded in it
  remote,       \* remote[p]: whose canonical URL "origin" is, or NoUrl
  \* History.
  failures, restarts,
  damaged       \* damaged[p]: a git command failed, or the program died while it configured

objects == <<stored, pools>>
disk == <<dirExists, configured, remote>>
history == <<failures, restarts, damaged>>
vars == <<config, objects, once, pc, url, dir, next, disk, history>>

AllSteps == {GitSteps[i] : i \in DOMAIN GitSteps}

PCs == {"idle", "load", "new_fetch", "new_serve", "once", "stat", "mkdir", "git", "use",
        "done", "failed", "panicked"}

TypeOK ==
  /\ config \in Canonicalizers
  /\ stored \in [Paths -> Urls[config] \cup {NoUrl}] /\ pools \in [Paths -> SUBSET Pools]
  /\ once \in [Paths -> {"new", "running", "done"}]
  /\ pc \in [Callers -> PCs] /\ url \in [Callers -> Urls[config] \cup {NoUrl}]
  /\ dir \in [Callers -> Paths \cup {NoPath}]
  /\ \A t \in Callers : url[t] = NoUrl <=> pc[t] \in {"idle", "done", "failed", "panicked"}
  /\ next \in [Paths -> 1..Len(GitSteps)]
  /\ dirExists \in [Paths -> BOOLEAN] /\ configured \in [Paths -> SUBSET AllSteps]
  /\ remote \in [Paths -> Urls[config] \cup {NoUrl}]
  /\ failures \in 0..MaxFailures /\ restarts \in 0..MaxRestarts /\ damaged \in [Paths -> BOOLEAN]

Init ==
  /\ config \in Canonicalizers
  /\ stored = [p \in Paths |-> NoUrl] /\ pools = [p \in Paths |-> {}]
  /\ once = [p \in Paths |-> "new"]
  /\ pc = [t \in Callers |-> "idle"]
  /\ url = [t \in Callers |-> NoUrl] /\ dir = [t \in Callers |-> NoPath]
  /\ next = [p \in Paths |-> 1]
  /\ dirExists = [p \in Paths |-> FALSE] /\ configured = [p \in Paths |-> {}]
  /\ remote = [p \in Paths |-> NoUrl]
  /\ failures = 0 /\ restarts = 0 /\ damaged = [p \in Paths |-> FALSE]

Goto(t, from, to) == pc[t] = from /\ pc' = [pc EXCEPT ![t] = to]

\* URLCanonicalizer accepts or refuses the URL.
Canonicalize(t) ==
  /\ \E u \in Urls[config] :
       LET canonical == Canonical(config, u)
       IN \/ /\ Goto(t, "idle", "load") /\ canonical # Refused
             /\ url' = [url EXCEPT ![t] = u] /\ dir' = [dir EXCEPT ![t] = Join(canonical)]
          \/ Goto(t, "idle", "failed") /\ canonical = Refused /\ UNCHANGED <<url, dir>>
  /\ UNCHANGED <<config, objects, once, next, disk, history>>

\* LoadOrStore.  The lock of the new object is held, but no caller of this function
\* waits for it.
LoadOrStore(t) ==
  LET p == dir[t]
  IN /\ \/ Goto(t, "load", "new_fetch") /\ stored[p] = NoUrl /\ stored' = [stored EXCEPT ![p] = url[t]]
        \/ Goto(t, "load", "once") /\ stored[p] # NoUrl /\ UNCHANGED stored
     /\ UNCHANGED <<config, pools, once, url, dir, next, disk, history>>

NewPool(t) ==
  LET add(pool) == pools' = [pools EXCEPT ![dir[t]] = @ \cup {pool}]
  IN /\ \/ Goto(t, "new_fetch", "new_serve") /\ add("fetchUpstreamPool")
        \/ Goto(t, "new_serve", "once") /\ add("serveFetchPool")
     /\ UNCHANGED <<config, stored, once, url, dir, next, disk, history>>

SetOnce(t, to) == once' = [once EXCEPT ![dir[t]] = to]

\* Mutant: a flag instead of sync.Once, so that later callers do not wait.
DoOnceNoWait(t) ==
  /\ \/ Goto(t, "once", "stat") /\ once[dir[t]] = "new" /\ SetOnce(t, "running")
     \/ Goto(t, "once", "use") /\ once[dir[t]] # "new" /\ UNCHANGED once
  /\ UNCHANGED <<config, objects, url, dir, next, disk, history>>

\* Mutant: no once at all; every caller looks for the directory.
DoOnceEvery(t) ==
  /\ Goto(t, "once", "stat") /\ SetOnce(t, "running")
  /\ UNCHANGED <<config, objects, url, dir, next, disk, history>>

\* once.Do: the first caller runs the function, the others wait until it has returned.
DoOnce(t) ==
  /\ \/ Goto(t, "once", "stat") /\ once[dir[t]] = "new" /\ SetOnce(t, "running")
     \/ Goto(t, "once", "use") /\ once[dir[t]] = "done" /\ UNCHANGED once
  /\ UNCHANGED <<config, objects, url, dir, next, disk, history>>

\* Mutant: the function returns without marking the once as done.
StatForgets(t) ==
  /\ \/ Goto(t, "stat", "use") /\ dirExists[dir[t]]
     \/ Goto(t, "stat", "mkdir") /\ ~dirExists[dir[t]]
  /\ UNCHANGED <<config, objects, once, url, dir, next, disk, history>>

\* "already exists. Skipped configuration", whatever the directory holds.
Stat(t) ==
  /\ \/ Goto(t, "stat", "use") /\ dirExists[dir[t]] /\ SetOnce(t, "done")
     \/ Goto(t, "stat", "mkdir") /\ ~dirExists[dir[t]] /\ UNCHANGED once
  /\ UNCHANGED <<config, objects, url, dir, next, disk, history>>

Mkdir(t) ==
  /\ Goto(t, "mkdir", "git")
  /\ dirExists' = [dirExists EXCEPT ![dir[t]] = TRUE]
  /\ next' = [next EXCEPT ![dir[t]] = 1]
  /\ UNCHANGED <<config, objects, once, url, dir, configured, remote, history>>

\* Mutant: one command too many.
EndStepTooFar(t) ==
  LET p == dir[t]
  IN \/ /\ Goto(t, "git", "git") /\ UNCHANGED once
        /\ next[p] <= Len(GitSteps) /\ next' = [next EXCEPT ![p] = @ + 1]
     \/ /\ Goto(t, "git", "use") /\ SetOnce(t, "done")
        /\ next[p] > Len(GitSteps) /\ next' = [next EXCEPT ![p] = 1]

\* After the last command the function returns and the once is done.
EndStep(t) ==
  LET p == dir[t]
  IN \/ /\ Goto(t, "git", "git") /\ UNCHANGED once
        /\ next[p] < Len(GitSteps) /\ next' = [next EXCEPT ![p] = @ + 1]
     \/ /\ Goto(t, "git", "use") /\ SetOnce(t, "done")
        /\ next[p] = Len(GitSteps) /\ next' = [next EXCEPT ![p] = 1]

\* Without a repository, every later command fails.
NoRepository(p) == GitSteps[next[p]] # "init" /\ "init" \notin configured[p]

\* git remote add takes the URL of the caller that configures, not upstreamURL.
RunGit(t) ==
  LET p == dir[t]
  IN /\ EndStep(t)
     /\ ~NoRepository(p)
     /\ configured' = [configured EXCEPT ![p] = @ \cup {GitSteps[next[p]]}]
     /\ remote' = IF GitSteps[next[p]] = "remote" THEN [remote EXCEPT ![p] = url[t]] ELSE remote
     /\ UNCHANGED <<config, objects, url, dir, dirExists, history>>

\* The error that runGit returns is ignored.
RunGitFails(t) ==
  /\ EndStep(t)
  /\ \/ NoRepository(dir[t]) /\ UNCHANGED failures
     \/ failures < MaxFailures /\ failures' = failures + 1
  /\ damaged' = [damaged EXCEPT ![dir[t]] = TRUE]
  /\ UNCHANGED <<config, objects, url, dir, disk, restarts>>

\* The caller submits a task to one of the pools; a nil pool is a nil dereference.
Use(t, pool) ==
  /\ Goto(t, "use", IF pool \in pools[dir[t]] THEN "done" ELSE "panicked")
  /\ url' = [url EXCEPT ![t] = NoUrl] /\ dir' = [dir EXCEPT ![t] = NoPath]
  /\ UNCHANGED <<config, objects, once, next, disk, history>>

\* The program dies and is started again: log.Fatalf after an error of Stat or
\* MkdirAll, or a kill from outside.
Restart ==
  /\ restarts < MaxRestarts
  /\ restarts' = restarts + 1
  /\ stored' = [p \in Paths |-> NoUrl] /\ pools' = [p \in Paths |-> {}]
  /\ once' = [p \in Paths |-> "new"] /\ next' = [p \in Paths |-> 1]
  /\ pc' = [t \in Callers |-> "idle"]
  /\ url' = [t \in Callers |-> NoUrl] /\ dir' = [t \in Callers |-> NoPath]
  /\ damaged' = [p \in Paths |-> damaged[p] \/ \E t \in Callers : pc[t] = "git" /\ dir[t] = p]
  /\ UNCHANGED <<config, disk, failures>>

Step(t) ==
  \/ Canonicalize(t) \/ LoadOrStore(t) \/ NewPool(t) \/ DoOnce(t)
  \/ Stat(t) \/ Mkdir(t) \/ RunGit(t) \/ RunGitFails(t)
  \/ \E pool \in Pools : Use(t, pool)

Next == Restart \/ \E t \in Callers : Step(t)

Spec == Init /\ [][Next]_vars

\* The goroutines are scheduled and the git commands end.
FairSpec == Spec /\ \A t \in Callers : WF_vars(Step(t))

(***************************************************************************)
(* Properties.                                                             *)
(***************************************************************************)
Ended(t) == pc[t] \in {"done", "failed", "panicked"}

\* No caller uses a repository that another caller is still configuring, and it is
\* configured in full unless a git command failed in it or the program died in between.
ConfiguredBeforeUse ==
  \A t \in Callers : pc[t] = "use" =>
    LET p == dir[t]
    IN once[p] = "done" /\ dirExists[p] /\ (configured[p] = AllSteps \/ damaged[p])

\* One caller at a time creates and configures a repository, also when the one that
\* stored the object comes last.
OneInitializer ==
  \A t, u \in Callers :
    /\ pc[t] \in {"stat", "mkdir", "git"} /\ pc[u] \in {"stat", "mkdir", "git"}
    /\ dir[t] = dir[u]
    => t = u

\* The repository that a URL means, and the one that its canonical form is fetched from.
Meant(u) == RepositoryOf(config, u)
Fetched(u) == RepositoryOf(config, Canonical(config, u))

\* What a caller is given mirrors the repository that it means, however its URL is
\* written, whoever stored the object and whoever configured the directory, in this start
\* of the program or in an earlier one: requests that go to the upstreamURL of the object
\* and fetches that go to "origin" ask for that repository and for no other.
RightMirror ==
  \A t \in Callers : pc[t] = "use" =>
    LET p == dir[t]
    IN /\ Fetched(stored[p]) = Meant(url[t])
       /\ remote[p] # NoUrl => Fetched(remote[p]) = Meant(url[t])

\* The disk never holds two mirrors of a repository, over all starts of the program, as
\* long as its URL is written in the usual ways.  (In the others a second mirror exists: the
\* "/App.GIT" of a request is kept as "/app.git", and so is an "/app.git/" of the
\* configuration.)
OneMirror ==
  \A p, q \in Paths :
    /\ remote[p] # NoUrl /\ remote[q] # NoUrl
    /\ Usual(remote[p]) /\ Usual(remote[q])
    /\ Meant(remote[p]) = Meant(remote[q])
    => p = q

\* Every caller comes back, also those that wait for the initialisation of another.
EveryOpenReturns == \A t \in Callers : pc[t] = "load" ~> (Ended(t) \/ pc[t] = "idle")

(***************************************************************************)
(* What the documentation says.                                            *)
(***************************************************************************)
\* "this proxy server serves git-fetch requests if it can be served from the local
\* cache": a caller that has opened the repository can hand its task to a pool.
PoolsReady == \A t \in Callers : pc[t] # "panicked"
=============================================================================
