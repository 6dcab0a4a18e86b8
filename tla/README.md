# Goblet in TLA+

Goblet is a caching proxy for `git fetch`: it mirrors upstream repositories on its
disk, forwards `ls-refs`, and serves `fetch` from the mirror when it can, after a
`git fetch` from the upstream when it cannot. This directory holds TLA+ modules of
its parts, the TLC configurations that check them on small instances, and proofs
that TLAPS checks for every instance. `PROJECT.json` maps each definition to the
lines it translates, and lists the runs, mutants, findings, hazards and theorems.

    tlc -workers 2 -config hook_safety.cfg MCPackObjectsHook
    tlapm ManagedRepositoryProofs.tla

## The system

| part | source | state | operations |
|---|---|---|---|
| protocol v2 handler | `git_protocol_v2_handler.go` | one goroutine per request | `handleV2Command`: `ls-refs`, `fetch` |
| managed repository | `managed_repository.go` | object store and refs on disk, `lastUpdateUnix`, `mu`, two `pond` pools | `fetchUpstream`, `runGC`, `hasAllWants`, `serveFetchLocal`, `lsRefsUpstream`, bundles |
| repository registry | `managed_repository.go` | `managedRepos`, the `once` of each repository, its directory | `getManagedRepo`, `openManagedRepository` |
| background fetches | `goblet.go`, `goblet-server/main.go` | an error channel per repository and round | pre-fetch, then `FetchRepositories` again and again by `RunEvery`, until it is cancelled |
| pack-objects hook | `hooks/packobjects/main.go` | cache directory shared by processes: `start`, `stdout`, `end`, `served` | serve from the entry, generate it, purge it |
| HTTP proxy | `http_proxy_server.go`, `reporting.go` | one goroutine per request | dispatch, parse all commands, run them in order, report errors |
| authorizer, token source | `github/` | cache of decisions; current token | check, refresh |
| URL canonicalizers | `goblet.go`, `github/url.go`, `google/hooks.go` | none | URL to cached path |
| bundle backup | `google/backup.go` | bucket of bundles and manifests | save, recover, collect |

How they meet: an HTTP request opens its repository through the registry and runs
its commands through the handler. The handler asks `hasAllWants`; on a miss it
submits a task to `fetchUpstreamPool`, which has one worker and a queue, and waits.
Background rounds submit tasks to the same pool. The worker runs `git fetch` twice,
and `git gc` when it finds `gc.log`. Serving submits to `serveFetchPool`, whose
workers run `git upload-pack`, which runs one hook process per pack. Handlers read
the disk with no lock while the worker changes it; hook processes share only a
directory.

What is hard here, and what makes each part correct:

* **Hook.** Processes interleave at every system call and are killed at any of them.
  The lock must be exclusive, a published entry complete and final, an answer
  complete, and nobody may wait for a dead owner.
* **Repository and handler.** Checks go stale in the queue and between check and
  serve, the upstream moves during a fetch, git commands fail, the program dies.
  `lastUpdateUnix` must not overstate, waiters must not fetch what is there, every
  request and every round must end, failures must be told.
* **Registry.** First calls race; initialisation can fail half way or be cut off.
  One caller initialises, the others wait, and what they get is usable and mirrors the
  repository that they mean.
* **Backup.** Calls of the bucket fail one by one and most errors are ignored, fetches
  run between reading the update time and writing the bundle, a new server starts from
  whatever the last one left. Names must not promise more than the bundles hold, the
  newest bundle must survive, and what the manifests list must be there.
* **Server.** Rounds over several repositories, some of which fail or are configured
  twice, read their channels in order while the workers send in any order, some of them
  twice; cancel waits for a round; the commands of a request fail one by one. Rounds and
  requests must end, answers must match the commands, nothing may be served before the
  pre-fetch is complete, and a stale repository must be fetched in the end.
* **Authorizer and token source.** Cached decisions and tokens are stale when used,
  concurrent answers are stored out of order, GitHub fails or cannot be reached. A
  revocation must take effect, what an outage leaves behind must not outlive an entry of
  the cache, a token must last, and the lock must be given back.
* **Canonicalizers.** One repository is written in many ways, suffixes are trimmed before
  letters are lowered, and `filepath.Join` cleans what is left. No two repositories may
  share a directory; the usual ways to write one must lead to one directory.

## Modules

| module | what it is |
|---|---|
| `PackCacheEntry` | what the hook promises of one cache entry, absent, building or ready, until it is broken |
| `PackObjectsHook` | every system call of the hook on one entry; extended by `MCPackObjectsHook` and `PackObjectsHookProofs`, and that by `PackObjectsHookRefinement` |
| `ManagedRepository` | one repository: requests, the worker of the pool, background rounds, git, the upstream; extended by `MCManagedRepository` and `ManagedRepositoryProofs` |
| `Canonicalizer` | the three URL canonicalizers and `filepath.Join` as operators, and what a URL means; extended by `CanonicalizerProofs` |
| `RepoRegistry` | the opening of repositories; extends `Canonicalizer`, extended by `MCRepoRegistry` and, with `CanonicalizerProofs`, by `RepoRegistryProofs` |
| `BackupStore` | the bucket, the process that saves to it and recovers from it, and the repositories it reads; extended by `MCBackupStore` and `BackupStoreProofs` |
| `GobletServer` | several repositories in one server: main, rounds, `RunEvery`, requests of several commands; extends `Canonicalizer`, extended by `MCGobletServer` and `GobletServerProofs` |
| `Authorizer` | the cache of decisions about one token and one repository |
| `TokenSource` | the server's own token and its lock |
| `MCGithub`, `GithubProofs` | extend the last two, which do not interact: a behaviour of `MCGithub` exercises one of them |

Operators whose comment begins with "Mutant" are never used by a specification: each
is a plausible mistake in the operator after it, kept to show that a property would
notice it.

### PackObjectsHook

One entry, and every process whose arguments and stdin hash to its key. `start`,
`stdout`, `end` and `served` are the four files; `stdout` names the process that
created the inode, because a process that holds a descriptor keeps reading an inode
that was unlinked. `content[p]` says whether the inode of `p` is complete. The steps
follow `main` system call by system call: `Lookup` (`fileExists(end)`), `OpenStdout`,
`CopyOut`, `AppendServed`; `RmEnd`, `RmStdout`, `RmList`, `RmEntry`, `RmDir` for
`purgeCacheDir` (`os.RemoveAll` lists a directory, unlinks what it listed and removes
the directory if it is empty); `CheckSize` to `CreateStdout` for `prepareCacheDir`;
`RunOk`, `RunFails`, `Publish`. `Kill` may follow any of them. `os.Stat` is taken to
fail only because a file is not there.

`os.Open(stdout)` can fail on a published entry (no descriptors left, an I/O error);
the process then purges the entry although others may be using it. The guarantees
below hold as long as this has not happened (`Undisturbed`); `hook_incomplete`
shows what happens when it has.

`ImplementsEntry` is refinement: the three files are the state of the abstract entry
(`EntryState`), and exit code and descriptor say how a process answered (`AnswerOf`). An
entry is `broken` from the first failing `os.Open` on, and promises nothing after that.

### ManagedRepository

Objects are commits, and `Reach` their histories. `refs` are the mirrored refs,
`tracking` the refs under `refs/remotes/origin` that the second `git fetch` writes.
A task of the pool is a request or a round. `phase` is where the worker is:

    all -> all_git -> origin -> origin_git -> store -> (gc -> gc_send) -> idle

`GitConnect` takes the refs as the upstream has them at that moment; objects arrive
one at a time (git unpacks small packs into loose objects); then the refs are
updated, all of them, or some if git fails. The result of the first fetch is
overwritten by the second (`EndFetchAll` leaves no error). `StoreUpdate` keeps the
start time. `RunGC` removes any unreachable objects that are not `recent`. A ref
deleted upstream stays in the mirror, since `git fetch --all` does not prune, and
leaves `tracking`, since the second fetch does.

The handler: `LsRefs` gives the client the hashes it will ask for; `Check`,
`SubmitFetch`, then `Cancelled`, `Recheck` or `RecheckMissing` after the wait,
`StartServe` and `ServeFetchLocal`. `hasAllWants` is one step; the worker decides
again whether to fetch in the step in which it picks the task up, since only the
worker itself changes what it looks at.

Rounds: `StartRound` (pre-fetch or timer), `SkipRound` / `NeedRound` (queue and
age), `SubmitRound`, `EndRound`. `errorChan[n]` is the channel of round `n`, with one
slot; the task may send into it twice. One unit of time is 15 minutes, the only
duration in the code that decides anything here. A crash loses the memory and keeps
the disk.

`unmoved` and `stable` are history variables: the heads that have not moved upstream
since the running, or the last successful, fetch took its start time.

### Canonicalizer

A URL is a host and a sequence of tokens, each of which the code compares, removes or
lowers as a whole: names, `.git`, an endpoint, and `/` for a slash with nothing behind it.
`Lower` is `strings.ToLower` as a table, from the hosts and tokens that have capitals to
what they are without; `.GIT` may be one of them. `URLCanonicalizer` trims first and lowers
then, as the code does, so that `/App.GIT` becomes `/app.git`. `Join` is what
`filepath.Join` does to these paths: it drops the slash at the end.

`RepositoryOf` does not translate code. It says what a URL means, independently of what
the code makes of it: the host, and the name without endpoint, slash and `.git`. `Names`
leaves out URLs that name nothing a host could have (no name, a name that ends in `.git`).
`Usual` are the ways in which the suffixes are in small letters and no slash follows a
`.git`; the properties say what holds in any spelling and what in these.

### RepoRegistry

Callers go through canonicalization, `LoadOrStore`, creation of the pools, `once.Do`,
`Stat`, `MkdirAll` and the git commands, grouped into init, the settings and the
remote. All state is by directory (`Paths`). `config` is the canonicalizer of the server,
and `Urls[config]` are the URLs that callers open. `stored[p]` is the URL whose canonical
form is the `upstreamURL` of the object, `remote[p]` the one whose canonical form `origin`
has; the code takes the first from whoever stored the object and the second from whoever
configured the directory, so they may be spelt differently. `RunGitFails` ignores the error
as the code does. `Restart` is a death of the program followed by a new start on the same
disk; a directory that it left half configured is kept by all later starts (`Stat`), and
`damaged` marks it, as it does one in which a command failed.

### BackupStore

Names of bundles and manifests are seconds; the clock starts at 1, and 0 is the epoch,
the update time of a repository that was never fetched. A repository without a bundle has
Go's zero time, long before the epoch, written -1. Contents are versions of the upstream,
0 for an empty repository, which `git bundle` refuses. The process goes

    list -> recover -> sleep -> save (-> name -> write -> save ...) -> manifest -> gc -> sleep

with one step for each repository in the loops; the update time is read when it is
compared (`VisitRepo`) and again for the name (`NameBundle`), the contents later
(`WriteBundle`). Each call of the bucket may fail: `GcBundle` deletes only some of the
older bundles, a manifest is read in part, `CloseFails` loses the object and goes on.
`stranger` is an object among the bundles whose name is no number, and where it sorts.
A fetch is one step here, since `ManagedRepository` has its parts; it may bring
everything and leave the update time alone. `Restart` is a new server with an empty
disk. `goblet-server` does not start this process; it is there for other programs.

### GobletServer

`ManagedRepository` looks into one repository; `GobletServer` puts several next to each
other and keeps of a fetch only that it succeeds or fails, and may bring what a waiting
command wants (`Brings`). `main` goes from `starting` through `prefetch` to `serving`, or
to `exited`. `loop` is `FetchRepositories`, called by main first and then by the goroutine
of `RunEvery`:

    select -> decide -> submit -> ... (next repository) -> receive -> ... -> select

`repositories` is the list of the configuration; two of its URLs may lead to one pool, and
it may be empty: then the pre-fetch and every round come back at once.
`errorChan[i]` has one slot; a task that finds `gc.log` sends a second time (`EndGC`),
and may outlive the round, whose channel then has a slot and no reader (`Outlive`).
`CallCancel` blocks until `TakeStop`. A request is authorized, dispatched by the end of its
path, its body parsed as a whole (`parseAllCommands`), and its commands run one by one:
`answers` is what the client is sent, in order, `status` the HTTP status.
That `hasAllWants` fails when a task is picked up is left to `FetchFails`, which ends the
same way. The decisions of the `google` authorizer are operators, those of the `github`
one are in `Authorizer`.

A pool is named by the directory of its repository (`CachedAs`), which is the key of
`managedRepos`: an entry of the configuration with a slash at its end shares the pool of the
one without.

### Authorizer and TokenSource

`Authorizer` follows one key of the cache. `flight[r]` is the time from GitHub's answer
until the request stores it, `age` that since the entry was set. `lost`, `refused` and
`broken` are history variables: the times since the token had access, since GitHub refused
it (with an answer, or it would have), and since a call broke off. The code tells three
failures apart. A status that refuses is cached (`Refuses`); a 5xx status is not
(`Unavailable`); a request that cannot be made, a connection that fails and a body that ends
early are cached as denials (`BreaksOff`), although GitHub has said nothing of the token.
`DenyIsRecent` says of a denial in the cache that it has one of the two causes the code
lets it have, and how old that may be. `ttlcache` drops an entry when its time is up, or
earlier if it is full (`Evict`). `TokenSource` counts down what is left of the token of the
source and of those handed out; a new one may have lost up to `MaxAnswer` of its life when
the answer of GitHub is read, and `Token()` does not check that. It returns a nil error
always: a caller may get no token, or an empty one.

## Runs

| run | instance | result |
|---|---|---|
| `hook_safety` | 3 processes, request at and above the size limit, 1 failing `os.Open`, fairness | all hold, implements `PackCacheEntry`, every process ends |
| `hook_incomplete` | 3 processes, 1 failing `os.Open` | violated: an incomplete output is served |
| `repo_rounds` | 2 requests, pre-fetch and another round, 3 commits, 1 push, 1 tick, queue of 1 | all hold |
| `repo_liveness` | 1 request, 2 rounds, 1 push, 1 tick, 1 crash, queue of 1, fairness | nothing is served before a fetch, every request is answered, every round ends |
| `repo_servable` | 2 requests, a chain of 3 commits | violated: told servable while objects are missing |
| `repo_error_sent` | 1 request | violated: an error is not sent |
| `registry` | 2 callers, 3 spellings of a repository on GitHub or 4 URLs of Google's, 1 failure, 1 restart, fairness | all hold: everyone gets the right mirror, there is one, and every caller returns |
| `registry_pools` | 2 callers | violated: a nil pool is used |
| `backup` | 1 repository, 2 versions, 3 seconds, 1 failing call, 1 new server, fairness | all hold, every update is saved |
| `backup_junk` | 1 repository, an object that is no bundle | violated: the bundles are deleted |
| `github` | 3 requests with one token, a time to live of 3 and a flight of 1; 3 callers, tokens of life 4 and answers of 1, fairness | all hold, every call returns |
| `server` | 2 repositories, one configured twice, or none, 1 connection with any number of requests, 4 URLs, 3 bodies, queues of 3, fairness | all hold; no one waits in vain, rounds, cancel and requests end |

**Bounds.** Three hook processes are what the longest race needs: one purges, one
generates, one reads. Two requests and a round fill a queue of one slot, so that
submitters block; the real capacity of 1000 changes only how many must come. Three
commits give a forced push (refs that are no heads are left to `repo_error_sent` and to the
proofs, which hold for any of them), one tick separates recent from old objects and a fresh
repository from a stale one. `MaxTime`, `MaxPushes`, `MaxCalls`, `MaxCrashes`,
`MaxOpenFailures`, `MaxFailures` and `MaxRestarts` bound what could go on for ever.
Since they do, and since requests and processes end, behaviours stop, and the runs do
not look for deadlock, except those of the backup, which goes on for ever; the liveness
runs find the waits that never end. Three seconds are what it takes to save, to save again
and to collect the first manifest, with `ManifestAge` 1; repositories meet in the backup
only as lines of a manifest, so one is enough. Three requests let two late answers
overwrite each other's while a third reads them; times beyond `TTL + MaxFlight` are all
alike. Two callers of `registry` race for one directory, or fill two; the new start makes
one of them meet what the other, or its own earlier call, left on the disk under another
spelling. The runs `server` and `repo_liveness` have one request at a time (a second one
is beyond what TLC can check with liveness): what keeps it waiting there are rounds and
their `git gc`, and two requests in one queue meet in `repo_rounds`, which checks safety
only. The `server` run takes the empty configuration and both of two URLs that differ in kind: two
pools whose workers send in any order, and one pool with two tasks of the same round; `QueueCap` 3
is the least that has room for the task of the one request and those of two repositories, and
so the least for which `NobodyWaitsInVain` promises room (see below); its rounds and requests
go on without a bound. It may stop, since the program may
exit, so it does not look for deadlock; `github` does. `repo_rounds` and some of
the runs that end in a violation use the symmetry of requests, processes or callers; no run
with liveness does.

**Fairness.** Weak fairness for each hook process, for each handler, for the worker
and for the goroutine of the rounds: the kernel and the Go scheduler run what can run,
and git commands end (the code sets no timeout; a git that hangs stops the
repository). Strong fairness only for `SubmitFetch` and `SubmitRound`: senders that
block on a Go channel are let in in their order. The backup has weak fairness for its
process: the timer fires and calls of the bucket come back, with an error or without; the
number of errors is bounded. In `server`, strong fairness for `TakeStop`, since a `select`
with two ready cases picks one at random; that fetches of a repository do not fail for ever
is a hypothesis of `StaleIsFetched` alone. In `github`,
weak fairness for a caller inside `Token()` and strong fairness for `Lock`: a `sync.Mutex`
does not starve those who wait. Nothing is assumed of clients, of the
upstream, of the clock, of kills and crashes.

## What disagrees with the documentation

* `hook_incomplete` (`hooks/packobjects/main.go:137`): a reader that saw `end` opens
  the `stdout` of a later generator and serves what is there so far, with exit code 0.
* `repo_servable` (`managed_repository.go:420`): the check sees the tip of a history
  that git is still writing.
* `repo_error_sent` (`git_protocol_v2_handler.go:143`): the `err` reported is nil, and
  the client gets an empty answer.
* `registry_pools` (`managed_repository.go:79`): the repository can be loaded before its
  pools exist.
* `backup_junk` (`google/backup.go:223`): "Ignore non-bundles" looks at the name of the
  first object for all of them.

Smaller things met on the way, which no run is about:

* An error before the first command is sent as a text with a status, although the comment
  at `http_proxy_server.go:112` speaks of an `ErrorPacket`.
* A flush packet with nothing before it ends the parsing of a body: later commands are
  dropped and the answer is a success.
* A path with no known endpoint is answered with an empty 200.
* The result of `git gc` goes into a channel that nobody reads after the first value.
* If 1000 tasks wait in the pool of a repository that is configured twice and has a
  `gc.log`, the round waits for room in the queue and the worker for the round. It takes as
  many requests at the same time: with fewer, `NoWaitIsInVain` shows that it cannot happen.
* A directory in which `git init` or a later command did not run is never repaired: every
  later start says "already exists. Skipped configuration" (`managed_repository.go:135`).
* Trimming before lowering keeps `/App.GIT` as `/app.git`, and `.git/` at the end of a
  configured URL is not trimmed: each makes a second mirror of `/app`, which is fetched and
  served correctly (`RightMirror`) but not shared.
* A broken connection to GitHub is remembered as a denial for 15 minutes, while a 5xx answer
  is not (`github/authorizer.go:140` and `154`).
* `Token()` returns a new token without looking at what is left of its life after a slow
  answer.
* `goblet-server` builds the GitHub authorizer and configures the one that lets all in.

## Proofs

All theorems are of the form `Spec => []P`, `Spec => [][A]_vars` or, for the hook,
`Spec => Abstract!Spec`, for every value of the constants that the named assumptions of the
modules admit. The argument is always the same: an inductive invariant, one lemma per kind
of step, and a last step that combines them. The invariants were found with TLC, on small
instances, before they were proved.

**PackObjectsHookProofs**: `Typing`, `LockIsExclusive`, `PublishedIsComplete`,
`ServedIsComplete`, for any number of processes. None of the last three is inductive.
The invariant is `IInv`: the types and, while no `os.Open` has failed on a published
entry, four parts. `LockInv`: the lock has at most one owner, and `start` exists exactly
while it has one. `FilesInv`: `stdout` was created by the owner, and `end` by an owner
that has finished with a complete output. `OwnerInv`: a generator owns the lock, and only
a generator that failed purges, which is why a purge never meets a published entry.
`ReaderInv`: a reader has a published entry before it, and what it copies is complete.
`openFailed` never decreases, so a state in which it is 0 has no disturbed past.

**PackObjectsHookRefinement** builds on it. `PublicationIsFinal` and `AbandonmentIsFinal`
are the two action properties: only an owner that is alive removes or replaces files, and a
published or abandoned entry has none. `Refinement` is that the hook implements
`PackCacheEntry` under the mapping of `Abstract`: each system call is mapped to the step of
the entry that it is, or to none. For the answers the proof needs `RouteInv`, which tells
from the exit code and the descriptor of a process which way it took: only a failure sets
the code, and only a hit ends with the descriptor of another process.

**ManagedRepositoryProofs**: `StoreIsFresh` and `NoMissIsNeedless`. What carries
`Freshness` is not the mirrored refs but the remote-tracking ones: `FreshInv` says that
the tracking ref of a stable head is where the head is upstream (`Tracked`), that
tracking refs keep their history in the store (`TrackingComplete`), that the second
fetch was told the truth about heads that have not moved since (`ToldTruth`), and that
after its success the tracking refs are there (`Brought`). The first fetch, whose error
is lost, plays no part, which is why losing it does no harm to the heads. That waiters
do not fetch needlessly follows from `Freshness` and the guard of the worker.

`Typing` is proved part by part (`TypeInv`). `ServesAfterPrefetch` and `RoundsAreSpaced`
follow from `RoundInv`: the pre-fetch is the only round that must fetch, its task is in one
place at a time, in the queue (`MustWaits`, `MustOnce`) or with the worker (`MustAlone`),
and while it is there main waits for a channel that is empty; the tasks of other rounds
exist only once main serves (`OthersWait`). A running task has sent nothing, or has sent
the error of its fetch and goes on with `git gc` (`RunInv`); a nil in the channel of the
pre-fetch means that `lastUpdate` is set (`ChanInv`). A crash empties the queue, and
each round has a channel of its own, so that nothing of the old process reaches the new one.

**RepoRegistryProofs**: `Typing`, `OneConfigures`, `UsedWhenConfigured`, `MirrorIsRight` and
`MirrorIsOne`, for any callers, any URLs that name a repository (`NameAssumption`) in any
spelling, and any number of failures and starts. `OnceInv` says that a caller is inside the initialisation only
while the `once` runs, that there is one such caller, and that nobody is past it before it
is done; `DiskInv` that the directory is not there before `MkdirAll`, and that the commands
before the next one have succeeded unless the repository is damaged. `DirInv` and
`MirrorInv` say that a caller's directory, the stored URL and the remote all lead to the
directory they are kept under. That they mean one repository, and the usual spellings of it
lead to one directory, is then what `GitHubKeeps` and `GoogleKeeps` say of canonical URLs.

**BackupStoreProofs**: `Typing` and `NamesAreTrue` for any repositories, versions, failures
and new servers. `NamesAreTrue` rests on `Honest`: versions go from upstream to the disk to
the bucket (`VersionInv`), the disk holds what `lastUpdate` stands for (`UpdateInv`), and so
it holds what the name of the bundle being written says (`WriterInv`), since the name is
read before the contents. Three results have a hypothesis on what else is in the bucket,
because without it the code does not keep them. `NewestIsKept` and `ListedIsBacked` assume
that no object whose name is no number sorts after the bundles: `backup_junk` is the
counterexample. `ListedStaysListed` assumes that there is no such object at all: one that
sorts before the bundles keeps a new server from recovering the repository, whose line then
disappears from the manifests. `BackedInv` carries the second (what is listed, or about to
be, has a bundle, unless a lost commit was ignored) and `RelistInv` the third (what is
listed is managed or still to be recovered, and already in the manifest being put together).

**GithubProofs**: `AuthTyping`, `DenialsAreRecent`, `AllowancesAreRecent` for any number of
requests and any `TTL` and `MaxFlight`; `TokenTyping` and `TokensOutliveUse` for any number
of callers, a use shorter than the margin before the expiry of a token, and answers that
leave a new token at least that margin (`LifeAssumption`; the code does not check the latter).
`DenialsAreRecent` speaks of both causes of a denial, an answer that refuses and a call that
breaks off; that a 5xx answer is no cause is what it says of outages. `AuthInv` carries the first: what GitHub says now is true now
(`NowInv`), an answer in flight is no older than its flight (`AnswerInv`), an entry no
older than its age and the longest flight (`CacheInv`); the bound follows since an entry's
age is below `TTL`. `UseInv` carries the second: what is left of a token in use and the
time it has been used add up to the margin. `Composition` says that the specification of the
run implements both parts, so that the theorems about the parts hold of it; `Typing` is one.

**GobletServerProofs**: `Typing`, `RoundsEnd`, `ServesWhenComplete`, `AnswersAreInOrder` and
`NoWaitIsInVain`, for configurations of any length with any
repetitions, any URLs and bodies, any number of requests and any capacity of the queues.
`Inv` has five parts. The types (`TypeInv`). `StageInv`: where a request is says what it has
been answered. `AskInv`: the task of a request waits or fetches only in the pool that the
request opened, while the request waits. `JobInv`: no two tasks of a pool, waiting or
fetching, are for the same request or the same repository of the round, so that whoever is
answered has no other task left. `RoundInv` says where the first value of each channel is: a
repository is open from its submission to that value and told afterwards; tasks of the round
that wait or fetch belong to open repositories (`WaitInv`, `FetchInv`), those in `git gc` to
told ones or to none (`GCInv`), the channels ahead of the loop are empty (`ChanInv`), and a
nil of the pre-fetch stands for a fetch that succeeded (`NilInv`). At the end of a round
nothing is open, and `RoundsEnd` follows; with no error collected, every channel of the
pre-fetch had a nil, and `ServesWhenComplete` follows. That cancel is called only by a
server that serves (`StopInv`) is needed to know that a stopped loop was between two rounds.

`NoWaitIsInVain` is what can be proved of the absence of deadlock, in terms of states. It
has three hazards to exclude: a full queue, a task that is gone, and a circle of the round,
which waits for a channel, and the worker of its pool, which waits for the round to read the
first of its two values. Room in the queue is counted (`AtMost`, `Room`): by `JobInv` and
`AskInv` a queue is injected into the requests that wait and the repositories under way, so
that a capacity of at least `Cardinality(Requests) + Len(repositories)` is never used up by
the others of the one who submits; this is where the hypothesis that the set of requests is
finite is needed. The rest needs `AwaitInv`, proved inductive on top of `Inv`: an open
repository and a waiting request have their task in the queue or in a fetch (`RoundAwaits`,
`RequestAwaits`, the converse of `WaitInv` and `AskInv`); the tasks of a round stand in the
queue in the order in which their channels are read, behind that of the worker (`InOrder`);
and a channel that has been read stays empty until `git gc` has its result (`ReadIsEmpty`).
So the channel of a worker that is held up has still to be read, and those of the tasks
behind it come later still: what the round waits for now is not among them. Every step of
the server is shown to keep all that is in hand but the one task it ends (`KeepsBut`).

**CanonicalizerProofs**: `GitHubCachesOnce` and `GoogleCachesOnce`, for any set of URLs that
name repositories, any hosts, names of any tokens and any length, and any table `Lower`.
`KeptApart`: the canonical URL means what the URL meant, and URLs of two repositories never
lead to one directory, however they are written. `KeptTogether`: two usual ways to write a
repository lead to one directory. The first is not obvious because lowering after trimming
may make a suffix that is not trimmed. The argument is that what the canonicalizer and
`filepath.Join` leave of a path is the name, or the name and one more ending, so that whoever
takes all endings off finds the name again (`NameStays`, `WithoutEndpoint`), and that trimming
and lowering leaves what trimming might leave of the lowered path, with one ending at most
(`LowerLeft`); in the usual ways nothing but the name is left (`OnlyTheName`). `RepoRegistryProofs` uses `GitHubKeeps` and
`GoogleKeeps`, the same facts about one URL.

**Left to TLC.** The nine liveness properties (`EveryHookFinishes`, `EveryRequestAnswered`,
`EveryRoundEnds`, `EveryOpenReturns`, `EveryUpdateSaved`, `EveryCallReturns`,
`EveryRoundComesBack`, `EveryRequestEnds`, `StaleIsFetched`): the prover has no reasoning
about fairness.

## Not modelled

`hasAnyUpdate`, `seedRepository`, `parseLsRefsResponse` and `monitoringReader.Close` (which
would call itself for ever) are never called. Contents of packs, packet lines and messages,
metrics, logging, the other settings of the configuration file and the test server have no
part in a decision that a property is about. The `google` package asks for the server's own
account at its start, which is a call before anything is served. Paths with `.`, `..` or
two slashes in a row, which `filepath.Join` would clean and Go's `ServeMux` redirects before
the proxy sees them, are no sequences of tokens here, and the parents that `MkdirAll` creates
are not directories of repositories. A git process that never
ends is not modelled: the code has no timeout, and everything behind it would wait.

## Plan

Every safety invariant, action property and refinement that a run checks is proved. What is
left to add: that a repository in `GobletServer` behaves as one of `ManagedRepository` with
its git commands hidden, an abstract pool that both implement.
