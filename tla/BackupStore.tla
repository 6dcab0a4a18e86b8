----------------------------- MODULE BackupStore -----------------------------
(***************************************************************************)
(* The bundle backup (google/backup.go): RunBackupProcess recovers the     *)
(* repositories that the manifests in the bucket list, then saves a bundle *)
(* of every managed repository and a new manifest every hour.              *)
(*                                                                         *)
(* The name of a bundle is the second of the repository's last update, the *)
(* name of a manifest the second it was written in.  The state of a        *)
(* repository is a version: 0 is the empty repository, and the upstream    *)
(* goes from one version to the next.  Calls of the bucket fail, and the   *)
(* server may be replaced by a new one with an empty disk at any point.    *)
(***************************************************************************)
EXTENDS Integers, FiniteSets

CONSTANTS
  Repos,         \* the repositories
  Strangers,     \* where a name that is no number may sort among the bundles of a
                 \* repository: "none" (there is none), "before" or "after" them
  ManifestAge,   \* manifestCleanUpDuration
  MaxTime,       \* bound on the clock
  MaxPushes,     \* bound on the versions of a repository
  MaxFailures,   \* bound on failing calls
  MaxRestarts    \* bound on new servers

ASSUME StrangerAssumption == Strangers \subseteq {"none", "before", "after"}
ASSUME BoundAssumption ==
  /\ ManifestAge \in Nat /\ MaxTime \in Nat \ {0} /\ MaxPushes \in Nat
  /\ MaxFailures \in Nat /\ MaxRestarts \in Nat

Times == 0..MaxTime    \* 0 is the epoch; the clock starts at 1
Versions == 0..MaxPushes

VARIABLES
  \* The upstream and the clock.
  now,
  up,           \* up[r]: the version upstream
  upAt,         \* upAt[r][t]: the version upstream when second t began
  \* The managed repositories of this server.
  managed,      \* the repositories in managedRepos
  local,        \* local[r]: the version on disk
  lastUpdate,   \* lastUpdate[r]: LastUpdateTime; 0 until the first fetch
  \* The bucket.
  bundle,       \* bundle[r][t]: the version in the bundle named t; 0 = no such object
  stranger,     \* stranger[r]: where another object sorts among the bundles
  manifest,     \* manifest[t]: the repositories that the manifest named t lists
  \* RunBackupProcess.
  pc,
  todo,         \* the repositories that the loop has still to visit
  cur,          \* the repositories whose bundle is being written: one or none
  name,         \* name of that bundle
  urls,         \* urls of saveBackup
  stamp,        \* now of saveBackup
  \* History.
  failures, restarts,
  lostCommit    \* an error of Close was ignored

env == <<now, up, upAt>>
repos == <<managed, local, lastUpdate>>
bucket == <<bundle, stranger, manifest>>
process == <<pc, todo, cur, name, urls, stamp>>
vars == <<env, repos, bucket, process, failures, restarts, lostCommit>>

TypeOK ==
  /\ now \in Times \ {0} /\ up \in [Repos -> Versions] /\ upAt \in [Repos -> [Times -> Versions]]
  /\ managed \subseteq Repos /\ local \in [Repos -> Versions] /\ lastUpdate \in [Repos -> 0..now]
  /\ bundle \in [Repos -> [Times -> Versions]] /\ stranger \in [Repos -> Strangers]
  /\ manifest \in [Times -> SUBSET Repos]
  /\ pc \in {"list", "recover", "sleep", "save", "name", "write", "manifest", "gc"}
  /\ todo \subseteq Repos /\ urls \subseteq Repos
  /\ cur \subseteq todo /\ Cardinality(cur) <= 1 /\ (cur # {} <=> pc \in {"name", "write"})
  /\ name \in Times /\ stamp \in Times
  /\ failures \in 0..MaxFailures /\ restarts \in 0..MaxRestarts /\ lostCommit \in BOOLEAN

Init ==
  /\ now = 1 /\ up = [r \in Repos |-> 0] /\ upAt = [r \in Repos |-> [t \in Times |-> 0]]
  /\ managed = {} /\ local = [r \in Repos |-> 0] /\ lastUpdate = [r \in Repos |-> 0]
  /\ bundle = [r \in Repos |-> [t \in Times |-> 0]] /\ stranger \in [Repos -> Strangers]
  /\ manifest = [t \in Times |-> {}]
  /\ pc = "list" /\ todo = {} /\ cur = {} /\ name = 0 /\ urls = {} /\ stamp = 0
  /\ failures = 0 /\ restarts = 0 /\ lostCommit = FALSE

Fail == failures < MaxFailures /\ failures' = failures + 1

(***************************************************************************)
(* The environment.                                                        *)
(***************************************************************************)
Tick ==
  /\ now < MaxTime
  /\ now' = now + 1
  /\ upAt' = [r \in Repos |-> [upAt[r] EXCEPT ![now + 1] = up[r]]]
  /\ UNCHANGED <<up, repos, bucket, process, failures, restarts, lostCommit>>

Push(r) ==
  /\ up[r] < MaxPushes
  /\ up' = [up EXCEPT ![r] = @ + 1]
  /\ UNCHANGED <<now, upAt, repos, bucket, process, failures, restarts, lostCommit>>

\* A request opens a repository.  Its fetch succeeds, fails, or brings everything and
\* leaves lastUpdate as it was.  Requests are served when the recovery is over.
Fetch(r) ==
  /\ pc \notin {"list", "recover"}
  /\ managed' = managed \cup {r}
  /\ local' \in {local, [local EXCEPT ![r] = up[r]]}
  /\ lastUpdate' \in {lastUpdate, [lastUpdate EXCEPT ![r] = now]}
  /\ lastUpdate' # lastUpdate => local'[r] = up[r]
  /\ UNCHANGED <<env, bucket, process, failures, restarts, lostCommit>>

\* A new server with an empty disk takes over.
Restart ==
  /\ restarts < MaxRestarts
  /\ restarts' = restarts + 1
  /\ managed' = {} /\ local' = [r \in Repos |-> 0] /\ lastUpdate' = [r \in Repos |-> 0]
  /\ pc' = "list" /\ todo' = {} /\ cur' = {} /\ name' = 0 /\ urls' = {} /\ stamp' = 0
  /\ UNCHANGED <<env, bucket, failures, lostCommit>>

(***************************************************************************)
(* gcBundle: list the objects of a repository, take the newest bundle and  *)
(* delete the others.  Whether an object is a bundle is decided by the     *)
(* name of the first object listed.                                        *)
(***************************************************************************)
Bundles(r) == {t \in Times : bundle[r][t] # 0}

Newest(S) == CHOOSE t \in S : \A u \in S : u <= t

\* The objects that pass the test: all of them or none.
Passed(r) == IF stranger[r] = "before" THEN {} ELSE Bundles(r)

\* The name that sorts last, when it is the stranger's, is no time: ParseInt gives 0.
\* Without any bundle the time is the zero time, which is before second 0.
Latest(r) ==
  CASE Passed(r) = {} -> -1
    [] Passed(r) # {} /\ stranger[r] = "after" -> 0
    [] OTHER -> Newest(Passed(r))

\* Mutant: the oldest bundle is kept.
OlderDescending(r) == {t \in Passed(r) : stranger[r] = "after" \/ \E u \in Passed(r) : u < t}

\* Everything behind the first of the names, sorted in reverse.
Older(r) == {t \in Passed(r) : stranger[r] = "after" \/ \E u \in Passed(r) : u > t}

Without(r, D) == [bundle EXCEPT ![r] = [t \in Times |-> IF t \in D THEN 0 ELSE @[t]]]

\* Errors of Delete are ignored.
GcBundle(r) ==
  \/ bundle' = Without(r, Older(r)) /\ UNCHANGED failures
  \/ Fail /\ \E D \in SUBSET Older(r) : bundle' = Without(r, D)

(***************************************************************************)
(* recoverFromBackup.                                                      *)
(***************************************************************************)
Listed == UNION {manifest[t] : t \in Times}

\* A manifest that cannot be read is skipped, in full or from some line on; an error of
\* the listing ends the recovery.
ReadRepoList ==
  /\ pc = "list"
  /\ \/ todo' = Listed /\ UNCHANGED failures
     \/ Fail /\ todo' \in SUBSET Listed
  /\ pc' = "recover"
  /\ UNCHANGED <<env, repos, bucket, cur, name, urls, stamp, restarts, lostCommit>>

\* What git fetch takes from the object that sorts last: nothing if it is no bundle.
Recovered(r) == IF stranger[r] = "after" THEN local[r] ELSE bundle[r][Newest(Passed(r))]

\* The newest object is downloaded, the repository opened and the bundle fetched.
RecoverFromBundle(r) ==
  /\ pc = "recover" /\ r \in todo
  /\ Passed(r) # {}
  /\ GcBundle(r)
  /\ managed' = managed \cup {r}
  /\ local' = [local EXCEPT ![r] = Recovered(r)]
  /\ todo' = todo \ {r}
  /\ UNCHANGED <<env, lastUpdate, stranger, manifest, pc, cur, name, urls, stamp, restarts, lostCommit>>

\* There is no bundle, or a call fails: the repository is skipped, or it is opened and
\* stays empty.
RecoverSkips(r) ==
  /\ pc = "recover" /\ r \in todo
  /\ \/ Passed(r) = {} /\ UNCHANGED <<failures, managed, bundle>>
     \/ Fail /\ managed' \in {managed, managed \cup {r}}
        /\ \E D \in SUBSET Older(r) : bundle' = Without(r, D)
  /\ todo' = todo \ {r}
  /\ UNCHANGED <<env, local, lastUpdate, stranger, manifest, pc, cur, name, urls, stamp, restarts,
                 lostCommit>>

RecoveryEnds ==
  /\ pc = "recover" /\ todo = {}
  /\ pc' = "sleep"
  /\ UNCHANGED <<env, repos, bucket, todo, cur, name, urls, stamp, failures, restarts, lostCommit>>

(***************************************************************************)
(* saveBackup.                                                             *)
(***************************************************************************)
SaveBackup ==
  /\ pc = "sleep"
  /\ pc' = "save" /\ todo' = managed /\ urls' = {}
  /\ UNCHANGED <<env, repos, bucket, cur, name, stamp, failures, restarts, lostCommit>>

\* Mutant: a repository without a bundle counts as up to date when it was never fetched.
VisitRepoUnbacked(r) ==
  /\ pc = "save" /\ r \in todo
  /\ GcBundle(r)
  /\ \/ /\ Latest(r) >= lastUpdate[r] \/ lastUpdate[r] = 0
        /\ todo' = todo \ {r} /\ urls' = urls \cup {r}
        /\ UNCHANGED <<pc, cur>>
     \/ /\ Latest(r) < lastUpdate[r]
        /\ pc' = "name" /\ cur' = {r}
        /\ UNCHANGED <<todo, urls>>
  /\ UNCHANGED <<env, repos, stranger, manifest, name, stamp, restarts, lostCommit>>

\* Mutant: any bundle at all is good enough.
VisitRepoOnce(r) ==
  /\ pc = "save" /\ r \in todo
  /\ GcBundle(r)
  /\ \/ /\ Latest(r) >= 0
        /\ todo' = todo \ {r} /\ urls' = urls \cup {r}
        /\ UNCHANGED <<pc, cur>>
     \/ /\ Latest(r) < 0
        /\ pc' = "name" /\ cur' = {r}
        /\ UNCHANGED <<todo, urls>>
  /\ UNCHANGED <<env, repos, stranger, manifest, name, stamp, restarts, lostCommit>>

\* Seconds are compared: a bundle named after the last update is up to date.
VisitRepo(r) ==
  /\ pc = "save" /\ r \in todo
  /\ GcBundle(r)
  /\ \/ /\ Latest(r) >= lastUpdate[r]
        /\ todo' = todo \ {r} /\ urls' = urls \cup {r}
        /\ UNCHANGED <<pc, cur>>
     \/ /\ Latest(r) < lastUpdate[r]
        /\ pc' = "name" /\ cur' = {r}
        /\ UNCHANGED <<todo, urls>>
  /\ UNCHANGED <<env, repos, stranger, manifest, name, stamp, restarts, lostCommit>>

\* The listing fails: "cannot GC bundles. Skipping".
VisitFails(r) ==
  /\ pc = "save" /\ r \in todo
  /\ Fail
  /\ todo' = todo \ {r}
  /\ UNCHANGED <<env, repos, bucket, pc, cur, name, urls, stamp, restarts, lostCommit>>

\* Mutant: the bundle is named after the time of the backup.
NameBundleNow(r) ==
  /\ pc = "name" /\ r \in cur
  /\ pc' = "write" /\ name' = now
  /\ UNCHANGED <<env, repos, bucket, todo, cur, urls, stamp, failures, restarts, lostCommit>>

\* LastUpdateTime is read again for the name; a fetch may have come in between.
NameBundle(r) ==
  /\ pc = "name" /\ r \in cur
  /\ pc' = "write" /\ name' = lastUpdate[r]
  /\ UNCHANGED <<env, repos, bucket, todo, cur, urls, stamp, failures, restarts, lostCommit>>

\* Mutant: the loop goes on as if the bundle were still being written.
BundleDoneKeeps(r, listed) ==
  /\ pc = "write" /\ r \in cur
  /\ pc' = "save" /\ name' = 0 /\ todo' = todo \ {r}
  /\ urls' = IF listed THEN urls \cup {r} ELSE urls
  /\ UNCHANGED <<env, repos, stranger, manifest, cur, stamp, restarts>>

BundleDone(r, listed) ==
  /\ pc = "write" /\ r \in cur
  /\ pc' = "save" /\ cur' = {} /\ name' = 0 /\ todo' = todo \ {r}
  /\ urls' = IF listed THEN urls \cup {r} ELSE urls
  /\ UNCHANGED <<env, repos, stranger, manifest, stamp, restarts>>

\* The bundle holds what is on disk when git bundle runs; Close commits the object.
WriteBundle(r) ==
  /\ local[r] # 0
  /\ BundleDone(r, TRUE)
  /\ bundle' = [bundle EXCEPT ![r][name] = local[r]]
  /\ UNCHANGED <<failures, lostCommit>>

\* git bundle refuses an empty repository, or fails; the object is discarded.
WriteBundleFails(r) ==
  /\ BundleDone(r, FALSE)
  /\ \/ local[r] = 0 /\ UNCHANGED failures
     \/ Fail
  /\ UNCHANGED <<bundle, lostCommit>>

\* The error of Close is ignored.
CloseFails(r) ==
  /\ local[r] # 0
  /\ BundleDone(r, TRUE)
  /\ Fail /\ lostCommit' = TRUE
  /\ UNCHANGED bundle

SavedAll ==
  /\ pc = "save" /\ todo = {}
  /\ pc' = "manifest" /\ stamp' = now
  /\ UNCHANGED <<env, repos, bucket, todo, cur, name, urls, failures, restarts, lostCommit>>

WriteManifest ==
  /\ pc = "manifest"
  /\ pc' = "gc"
  /\ \/ manifest' = [manifest EXCEPT ![stamp] = urls] /\ UNCHANGED <<failures, lostCommit>>
     \/ Fail /\ lostCommit' = TRUE /\ UNCHANGED manifest
  /\ UNCHANGED <<env, repos, bundle, stranger, todo, cur, name, urls, stamp, restarts>>

\* An error while writing ends the round without the collection of old manifests.
WriteManifestFails ==
  /\ pc = "manifest"
  /\ Fail
  /\ pc' = "sleep" /\ urls' = {} /\ stamp' = 0
  /\ UNCHANGED <<env, repos, bucket, todo, cur, name, restarts, lostCommit>>

Old == {t \in Times : t < stamp - ManifestAge}

\* Mutant: the manifest that was just written is collected as well.
GcManifestsAll ==
  /\ pc = "gc"
  /\ manifest' = [t \in Times |-> {}]
  /\ pc' = "sleep" /\ urls' = {} /\ stamp' = 0
  /\ UNCHANGED <<env, repos, bundle, stranger, todo, cur, name, failures, restarts, lostCommit>>

GarbageCollectOldManifests ==
  /\ pc = "gc"
  /\ \/ manifest' = [t \in Times |-> IF t \in Old THEN {} ELSE manifest[t]] /\ UNCHANGED failures
     \/ Fail /\ \E D \in SUBSET Old : manifest' = [t \in Times |-> IF t \in D THEN {} ELSE manifest[t]]
  /\ pc' = "sleep" /\ urls' = {} /\ stamp' = 0
  /\ UNCHANGED <<env, repos, bundle, stranger, todo, cur, name, restarts, lostCommit>>

(***************************************************************************)
(* The specification.                                                      *)
(***************************************************************************)
Process ==
  \/ ReadRepoList \/ RecoveryEnds \/ SaveBackup \/ SavedAll
  \/ WriteManifest \/ WriteManifestFails \/ GarbageCollectOldManifests
  \/ \E r \in Repos :
       \/ RecoverFromBundle(r) \/ RecoverSkips(r) \/ VisitRepo(r) \/ VisitFails(r)
       \/ NameBundle(r) \/ WriteBundle(r) \/ WriteBundleFails(r) \/ CloseFails(r)

Next == Process \/ Tick \/ Restart \/ \E r \in Repos : Push(r) \/ Fetch(r)

Spec == Init /\ [][Next]_vars

\* The timer fires, and calls of the bucket and git bundle come back.
FairSpec == Spec /\ WF_vars(Process)

(***************************************************************************)
(* Properties.                                                             *)
(***************************************************************************)
\* The name of a bundle is honest: the bundle named t holds everything the upstream had
\* when second t began, although name and contents are read at different times, between
\* fetches, and after a recovery that leaves lastUpdate at 0.
NamedTruly == \A r \in Repos : \A t \in Bundles(r) : bundle[r][t] >= upAt[r][t]

\* No step of a save or of a recovery, with any of its calls failing, loses the newest
\* backup of a repository.
NewestKept ==
  [][\A r \in Repos : Bundles(r) # {} =>
       Bundles(r)' # {} /\ Newest(Bundles(r)') >= Newest(Bundles(r))]_vars

\* A new server finds a bundle for every repository that a manifest lists, as long as no
\* commit was lost.
ListedIsThere == ~lostCommit => \A r \in Listed : Bundles(r) # {}

\* What a manifest lists stays listed while no call fails: the collection of old manifests
\* drops none that a server, this one or one that has just recovered, does not list anew.
StaysListed == [][failures' = 0 => Listed \subseteq Listed']_vars

\* Every update is backed up in the end, unless the server is replaced before.
EveryUpdateSaved ==
  \A r \in Repos, t \in Times \ {0} :
    (lastUpdate[r] = t /\ local[r] # 0)
      ~> (lastUpdate[r] = 0 \/ \E u \in Bundles(r) : u >= t)

(***************************************************************************)
(* What a comment says.                                                    *)
(***************************************************************************)
\* "Ignore non-bundles": another object in the bucket does not cost a repository its
\* backup.
NonBundlesIgnored == [][\A r \in Repos : Bundles(r) # {} => Bundles(r)' # {}]_vars
=============================================================================
