-------------------------- MODULE ManagedRepository --------------------------
(***************************************************************************)
(* One managed repository of the caching proxy: the requests that          *)
(* handleV2Command answers, the upstream fetches that the one worker of    *)
(* fetchUpstreamPool runs for them, and the periodic background fetches    *)
(* (FetchManagedRepositoryAsync, FetchRepositories, main).                 *)
(*                                                                         *)
(* The upstream server moves its refs at any time.  The git processes are  *)
(* external: git fetch reads the upstream refs, writes the objects it      *)
(* lacks one at a time, then the refs, and may fail at any point; git      *)
(* upload-pack succeeds when everything it walks is there; git gc removes  *)
(* unreachable objects older than 15 minutes.  Requests read the object    *)
(* store with no lock at all while the worker changes it.                  *)
(*                                                                         *)
(* An object is a commit, Reach its history.  One unit of time is the 15   *)
(* minutes that the code uses for the period of background fetches, for    *)
(* the age under which it skips one, and for the prune age of git gc.      *)
(***************************************************************************)
EXTENDS Naturals, Sequences, FiniteSets

CONSTANTS
  Commits, NoCommit,  \* commits; NoCommit: a ref that does not exist
  Reach,              \* Reach[c]: the commits in the history of c, and c
  Heads, Others,      \* the refs under refs/heads, and all other refs (tags, ...)
  Upstream,           \* the upstream refs at the start
  Requests,           \* the clients' requests
  Selections,         \* what clients ask for: <<refs whose hashes they want, want-refs>>
  QueueCap,           \* capacity of fetchUpstreamPool
  ServeWorkers,       \* workers of serveFetchPool
  MaxTime,            \* bound on the clock
  MaxPushes,          \* bound on upstream ref updates
  MaxCalls,           \* bound on background fetch rounds
  MaxCrashes          \* bound on crashes of the proxy

Refs == Heads \cup Others

ASSUME CommitAssumption == NoCommit \notin Commits
ASSUME ReachAssumption ==
  /\ Reach \in [Commits -> SUBSET Commits]
  /\ \A c \in Commits : c \in Reach[c]
  /\ \A c \in Commits : \A d \in Reach[c] : Reach[d] \subseteq Reach[c]
ASSUME RefAssumption ==
  /\ Heads \cap Others = {}
  /\ Upstream \in [Refs -> Commits \cup {NoCommit}]
  /\ Selections \subseteq Seq(Refs) \X SUBSET Refs
ASSUME BoundAssumption ==
  /\ QueueCap \in Nat \ {0} /\ ServeWorkers \in Nat \ {0}
  /\ MaxTime \in Nat /\ MaxPushes \in Nat /\ MaxCalls \in Nat /\ MaxCrashes \in Nat

VARIABLES
  \* The upstream server.
  upRefs,       \* its refs
  pushes,       \* how often they moved
  \* The local repository on disk.
  objs,         \* the objects in the store
  recent,       \* those written less than 15 minutes ago
  refs,         \* the mirrored refs
  tracking,     \* refs/remotes/origin/*, for the heads
  gcLog,        \* the file gc.log exists
  \* The proxy: clock, main and the background rounds.
  now,          \* the clock, in units of 15 minutes
  lastUpdate,   \* lastUpdateUnix; 0 until the first successful fetch
  server,       \* main: "starting" (pre-fetch), "serving", "exited"
  bg,           \* FetchRepositories: "sleep", "decide", "submit", "receive"
  bgAt,         \* when the last round ended
  call,         \* number of the current round
  errorChan,    \* errorChan[n]: what is buffered in the channel of round n
  crashes,
  \* fetchUpstreamPool and its worker.
  queue,        \* the tasks that wait
  task,         \* the task that runs, or NoTask
  phase,        \* what the worker does next
  startTime,    \* startTime of fetchUpstream
  adv,          \* the upstream refs that the running git fetch was told
  fetchErr,     \* err of fetchUpstream is not nil
  \* The requests.
  pc,
  want,         \* want[r]: hashes of the want lines, in order
  wantRefs,     \* wantRefs[r]: names of the want-ref lines
  gone,         \* gone[r]: the client has hung up (ctx.Done)
  outcome,      \* outcome[r]: how the request was answered
  \* History.
  unmoved,      \* heads that have not moved since the running fetch took its startTime
  stable        \* heads that have not moved since the last successful fetch started

upstream == <<upRefs, pushes>>
disk == <<objs, recent, refs, tracking, gcLog>>
main == <<server, bg, bgAt, call>>
worker == <<task, phase, startTime, adv, fetchErr>>
requests == <<pc, want, wantRefs, gone, outcome>>
history == <<unmoved, stable>>
vars == <<upstream, disk, now, lastUpdate, main, errorChan, crashes, queue, worker,
          requests, history>>

NoTask == <<"none">>
RequestTask(r) == <<"request", r>>
RoundTask(n, must) == <<"round", n, must>>
Tasks == {RequestTask(r) : r \in Requests} \cup {RoundTask(n, b) : n \in 1..MaxCalls, b \in BOOLEAN}

NoAdv == [r \in Refs |-> NoCommit]

PCs == {"idle", "check", "fetch_submit", "fetch_wait", "recheck", "serve_queue", "serving", "done"}
Phases == {"idle", "all", "all_git", "origin", "origin_git", "store", "gc", "gc_send"}

TypeOK ==
  /\ upRefs \in [Refs -> Commits \cup {NoCommit}] /\ pushes \in 0..MaxPushes
  /\ objs \subseteq Commits /\ recent \subseteq objs /\ gcLog \in BOOLEAN
  /\ refs \in [Refs -> Commits \cup {NoCommit}]
  /\ tracking \in [Heads -> Commits \cup {NoCommit}]
  /\ now \in 1..(MaxTime + 1) /\ lastUpdate \in 0..now
  /\ server \in {"starting", "serving", "exited"}
  /\ bg \in {"sleep", "decide", "submit", "receive"}
  /\ bgAt \in 0..now /\ call \in 0..MaxCalls /\ crashes \in 0..MaxCrashes
  /\ errorChan \in [1..MaxCalls -> {<<>>, <<"nil">>, <<"err">>}]
  /\ queue \in Seq(Tasks) /\ Len(queue) <= QueueCap
  /\ task \in Tasks \cup {NoTask} /\ phase \in Phases
  /\ startTime \in 0..now /\ fetchErr \in BOOLEAN
  /\ adv \in [Refs -> Commits \cup {NoCommit}]
  /\ pc \in [Requests -> PCs]
  /\ want \in [Requests -> Seq(Commits)]
  /\ wantRefs \in [Requests -> SUBSET Refs]
  /\ gone \in [Requests -> BOOLEAN]
  /\ outcome \in [Requests -> {"none", "pack", "error", "silent", "lost"}]
  /\ unmoved \subseteq Heads /\ stable \subseteq Heads

Init ==
  /\ upRefs = Upstream /\ pushes = 0
  /\ objs = {} /\ recent = {} /\ gcLog = FALSE
  /\ refs = [r \in Refs |-> NoCommit] /\ tracking = [h \in Heads |-> NoCommit]
  /\ now = 1 /\ lastUpdate = 0
  /\ server = "starting" /\ bg = "sleep" /\ bgAt = 0 /\ call = 0 /\ crashes = 0
  /\ errorChan = [n \in 1..MaxCalls |-> <<>>]
  /\ queue = <<>> /\ task = NoTask /\ phase = "idle"
  /\ startTime = 0 /\ adv = NoAdv /\ fetchErr = FALSE
  /\ pc = [r \in Requests |-> "idle"]
  /\ want = [r \in Requests |-> <<>>]
  /\ wantRefs = [r \in Requests |-> {}]
  /\ gone = [r \in Requests |-> FALSE]
  /\ outcome = [r \in Requests |-> "none"]
  /\ unmoved = {} /\ stable = {}

(***************************************************************************)
(* The environment: the upstream server and the clock.                     *)
(***************************************************************************)
\* A ref is created, moved (also by force) or deleted upstream.
Push(r, c) ==
  /\ pushes < MaxPushes
  /\ upRefs[r] # c
  /\ upRefs' = [upRefs EXCEPT ![r] = c]
  /\ pushes' = pushes + 1
  /\ unmoved' = unmoved \ {r}
  /\ stable' = stable \ {r}
  /\ UNCHANGED <<disk, now, lastUpdate, main, errorChan, crashes, queue, worker, requests>>

\* 15 minutes pass.
Tick ==
  /\ now <= MaxTime
  /\ now' = now + 1
  /\ recent' = {}
  /\ UNCHANGED <<upstream, objs, refs, tracking, gcLog, lastUpdate, main, errorChan, crashes,
                 queue, worker, requests, history>>

(***************************************************************************)
(* main and FetchRepositories for this repository.                         *)
(***************************************************************************)
FifteenMinutes == 1
ErrorChanCap == 1

Fresh == now - lastUpdate < FifteenMinutes

Send(n, err) ==
  /\ Len(errorChan[n]) < ErrorChanCap
  /\ errorChan' = [errorChan EXCEPT ![n] = Append(@, IF err THEN "err" ELSE "nil")]

\* The pre-fetch at the start of main, then one round 15 minutes after the other.
StartRound ==
  /\ bg = "sleep"
  /\ call < MaxCalls
  /\ \/ server = "starting" /\ bg' = "submit"
     \/ server = "serving" /\ now - bgAt >= FifteenMinutes /\ bg' = "decide"
  /\ call' = call + 1
  /\ UNCHANGED <<upstream, disk, now, lastUpdate, server, bgAt, errorChan, crashes, queue,
                 worker, requests, history>>

\* Mutant: a skipped round returns without the nil on its channel.
SkipRoundForgets ==
  /\ bg = "decide"
  /\ \/ queue # <<>> \/ \E r \in Requests : pc[r] = "fetch_submit"
     \/ Fresh
  /\ bg' = "receive"
  /\ UNCHANGED <<upstream, disk, now, lastUpdate, server, bgAt, call, errorChan, crashes, queue,
                 worker, requests, history>>

\* WaitingTasks counts the tasks in the queue and those whose Submit is blocked.
SkipRound ==
  /\ bg = "decide"
  /\ \/ queue # <<>> \/ \E r \in Requests : pc[r] = "fetch_submit"
     \/ Fresh
  /\ Send(call, FALSE)
  /\ bg' = "receive"
  /\ UNCHANGED <<upstream, disk, now, lastUpdate, server, bgAt, call, crashes, queue, worker,
                 requests, history>>

NeedRound ==
  /\ bg = "decide"
  /\ queue = <<>> /\ ~Fresh
  /\ bg' = "submit"
  /\ UNCHANGED <<upstream, disk, now, lastUpdate, server, bgAt, call, errorChan, crashes, queue,
                 worker, requests, history>>

SubmitRound ==
  /\ bg = "submit"
  /\ Len(queue) < QueueCap
  /\ queue' = Append(queue, RoundTask(call, server = "starting"))
  /\ bg' = "receive"
  /\ UNCHANGED <<upstream, disk, now, lastUpdate, server, bgAt, call, errorChan, crashes, worker,
                 requests, history>>

EndRound ==
  /\ bg = "receive"
  /\ errorChan[call] # <<>>
  /\ server = "serving" \/ Head(errorChan[call]) = "nil"
  /\ errorChan' = [errorChan EXCEPT ![call] = Tail(@)]
  /\ server' = "serving"
  /\ bg' = "sleep" /\ bgAt' = now
  /\ UNCHANGED <<upstream, disk, now, lastUpdate, call, crashes, queue, worker, requests, history>>

\* The program is not running any more: the memory is lost, the disk keeps what was
\* written.
Stop ==
  /\ lastUpdate' = 0
  /\ bg' = "sleep"
  /\ queue' = <<>> /\ task' = NoTask /\ phase' = "idle"
  /\ startTime' = 0 /\ adv' = NoAdv /\ fetchErr' = FALSE
  /\ pc' = [r \in Requests |-> IF pc[r] = "idle" THEN "idle" ELSE "done"]
  /\ outcome' = [r \in Requests |-> IF pc[r] \in {"idle", "done"} THEN outcome[r] ELSE "lost"]
  /\ want' = [r \in Requests |-> <<>>] /\ wantRefs' = [r \in Requests |-> {}]
  /\ gone' = [r \in Requests |-> FALSE]
  /\ unmoved' = {} /\ stable' = {}
  /\ UNCHANGED <<upstream, disk, now, bgAt, call, errorChan>>

\* Mutant: an error of the pre-fetch is only logged.
PrefetchFailsLogged ==
  /\ bg = "receive" /\ server = "starting"
  /\ errorChan[call] = <<"err">>
  /\ errorChan' = [errorChan EXCEPT ![call] = <<>>]
  /\ server' = "serving"
  /\ bg' = "sleep" /\ bgAt' = now
  /\ UNCHANGED <<upstream, disk, now, lastUpdate, call, crashes, queue, worker, requests, history>>

\* An error of the pre-fetch ends the program; later ones are only logged.
PrefetchFails ==
  /\ bg = "receive" /\ server = "starting"
  /\ errorChan[call] = <<"err">>
  /\ server' = "exited"
  /\ Stop
  /\ UNCHANGED crashes

\* The proxy and the git processes it runs are killed, and the proxy is started again.
Crash ==
  /\ crashes < MaxCrashes
  /\ crashes' = crashes + 1
  /\ server' = "starting"
  /\ Stop

(***************************************************************************)
(* The worker of fetchUpstreamPool picks up a task and decides again       *)
(* whether a fetch is needed.  Only the worker changes what it looks at.   *)
(***************************************************************************)
HasAllWants(r) ==
  /\ \A i \in DOMAIN want[r] : want[r][i] \in objs
  /\ \A w \in wantRefs[r] : refs[w] # NoCommit

PickUp(t) ==
  /\ phase = "idle"
  /\ queue # <<>> /\ Head(queue) = t
  /\ queue' = Tail(queue)

\* fetchUpstream takes the lock and its startTime.
BeginFetch(t) ==
  /\ PickUp(t)
  /\ task' = t /\ phase' = "all"
  /\ startTime' = now
  /\ unmoved' = Heads
  /\ UNCHANGED <<upstream, disk, now, lastUpdate, main, errorChan, crashes, adv, fetchErr,
                 requests, stable>>

\* Mutant: no second check when the task is picked up.
FetchForRequestUnchecked(r) == BeginFetch(RequestTask(r))

FetchForRequest(r) == ~HasAllWants(r) /\ BeginFetch(RequestTask(r))

\* Mutant: no second look at lastUpdateUnix when the task is picked up.
FetchForRoundUnchecked(n, must) == BeginFetch(RoundTask(n, must))

FetchForRound(n, must) == (must \/ ~Fresh) /\ BeginFetch(RoundTask(n, must))

\* Mutant: the waiter is not woken when there is nothing to fetch.
SkipRequestForgets(r) ==
  /\ PickUp(RequestTask(r))
  /\ UNCHANGED <<upstream, disk, now, lastUpdate, main, errorChan, crashes, worker, requests,
                 history>>

\* The wants are there by now, or hasAllWants returns an error: SubmitAndWait returns.
SkipRequest(r) ==
  /\ PickUp(RequestTask(r))
  /\ pc' = [pc EXCEPT ![r] = "recheck"]
  /\ UNCHANGED <<upstream, disk, now, lastUpdate, main, errorChan, crashes, worker, want, wantRefs,
                 gone, outcome, history>>

\* After its fetch, or without one, the task of a round looks for gc.log.
AfterFetch(n, must) ==
  \/ gcLog /\ phase' = "gc" /\ task' = RoundTask(n, must)
  \/ ~gcLog /\ phase' = "idle" /\ task' = NoTask

SkipTask(n) ==
  /\ PickUp(RoundTask(n, FALSE))
  /\ Fresh
  /\ Send(n, FALSE)
  /\ AfterFetch(n, FALSE)
  /\ UNCHANGED <<upstream, disk, now, lastUpdate, main, crashes, startTime, adv, fetchErr, requests,
                 history>>

(***************************************************************************)
(* fetchUpstream: git fetch --all, then git fetch of the heads and of the  *)
(* first additional want.  An error of the first is overwritten.           *)
(***************************************************************************)
FirstWant ==
  {want[r][1] : r \in {q \in Requests : task = RequestTask(q) /\ want[q] # <<>>}}

\* What the running git fetch has to bring.
Needed ==
  UNION {Reach[c] : c \in ({adv[r] : r \in Refs} \cup (IF phase = "origin_git" THEN FirstWant ELSE {}))
                           \ {NoCommit}}

\* f, with the refs in S as the upstream told them.
Updated(f, S) == [r \in DOMAIN f |-> IF r \in S /\ adv[r] # NoCommit THEN adv[r] ELSE f[r]]

GitConnect ==
  /\ \/ phase = "all" /\ phase' = "all_git" /\ adv' = upRefs
     \/ /\ phase = "origin" /\ phase' = "origin_git"
        /\ adv' = [r \in Refs |-> IF r \in Heads THEN upRefs[r] ELSE NoCommit]
  /\ UNCHANGED <<upstream, disk, now, lastUpdate, main, errorChan, crashes, queue, task, startTime,
                 fetchErr, requests, history>>

GitWriteObject(c) ==
  /\ phase \in {"all_git", "origin_git"}
  /\ c \in Needed \ objs
  /\ objs' = objs \cup {c} /\ recent' = recent \cup {c}
  /\ UNCHANGED <<upstream, refs, tracking, gcLog, now, lastUpdate, main, errorChan, crashes, queue,
                 worker, requests, history>>

\* git fetch ends with git gc --auto, which leaves gc.log when it has complaints.
GitLogsGc ==
  /\ phase \in {"all_git", "origin_git"}
  /\ ~gcLog
  /\ gcLog' = TRUE
  /\ UNCHANGED <<upstream, objs, recent, refs, tracking, now, lastUpdate, main, errorChan, crashes,
                 queue, worker, requests, history>>

\* git fetch --all: every ref of the mirror; a ref deleted upstream stays.  The exit
\* status, whatever it is, is forgotten; a failing fetch has updated some refs or none.
EndFetchAll ==
  /\ phase \in {"all", "all_git"}
  /\ phase' = "origin" /\ adv' = NoAdv
  /\ \/ UNCHANGED refs
     \/ /\ phase = "all_git" /\ Needed \subseteq objs
        /\ \E S \in SUBSET Refs : refs' = Updated(refs, S)
  /\ UNCHANGED <<upstream, objs, recent, tracking, gcLog, now, lastUpdate, main, errorChan, crashes,
                 queue, task, startTime, fetchErr, requests, history>>

\* git fetch --prune of the heads: the remote-tracking refs become what the upstream
\* told; git may update the mirrored heads along with them.
EndFetchOrigin ==
  /\ phase = "origin_git" /\ Needed \subseteq objs
  /\ phase' = "store" /\ fetchErr' = FALSE /\ adv' = NoAdv
  /\ tracking' = [h \in Heads |-> adv[h]]
  /\ refs' \in {refs, Updated(refs, Heads)}
  /\ UNCHANGED <<upstream, objs, recent, gcLog, now, lastUpdate, main, errorChan, crashes, queue,
                 task, startTime, requests, history>>

FailFetchOrigin ==
  /\ phase \in {"origin", "origin_git"}
  /\ phase' = "store" /\ fetchErr' = TRUE /\ adv' = NoAdv
  /\ \/ UNCHANGED tracking
     \/ /\ phase = "origin_git" /\ Needed \subseteq objs
        /\ \E S \in SUBSET Heads : tracking' = Updated(tracking, S)
  /\ UNCHANGED <<upstream, objs, recent, refs, gcLog, now, lastUpdate, main, errorChan, crashes,
                 queue, task, startTime, requests, history>>

\* Mutant: the update time is stored although the fetch failed.
StoreUpdateAlways ==
  /\ phase = "store"
  /\ lastUpdate' = startTime /\ stable' = unmoved
  /\ startTime' = 0 /\ unmoved' = {} /\ fetchErr' = FALSE

\* The time stored is that of the start.  The locals of fetchUpstream are gone after.
StoreUpdate ==
  /\ phase = "store"
  /\ lastUpdate' = IF fetchErr THEN lastUpdate ELSE startTime
  /\ stable' = IF fetchErr THEN stable ELSE unmoved
  /\ startTime' = 0 /\ unmoved' = {} /\ fetchErr' = FALSE

FinishRequest(r) ==
  /\ task = RequestTask(r)
  /\ StoreUpdate
  /\ pc' = [pc EXCEPT ![r] = "recheck"]
  /\ phase' = "idle" /\ task' = NoTask
  /\ UNCHANGED <<upstream, disk, now, main, errorChan, crashes, queue, adv, want, wantRefs, gone,
                 outcome>>

FinishRound(n, must) ==
  /\ task = RoundTask(n, must)
  /\ StoreUpdate
  /\ Send(n, fetchErr)
  /\ AfterFetch(n, must)
  /\ UNCHANGED <<upstream, disk, now, main, crashes, queue, adv, requests>>

(***************************************************************************)
(* After the fetch of a round: git gc if there is a gc.log.                *)
(***************************************************************************)
Rooted ==
  UNION {Reach[c] : c \in ({refs[r] : r \in Refs} \cup {tracking[h] : h \in Heads}) \ {NoCommit}}

\* Mutant: git gc --prune=now.
RunGCNow ==
  /\ phase = "gc"
  /\ phase' = "gc_send"
  /\ \E S \in SUBSET (objs \ Rooted) : objs' = objs \ S
  /\ fetchErr' \in BOOLEAN
  /\ gcLog' \in {fetchErr', TRUE}
  /\ UNCHANGED <<upstream, recent, refs, tracking, now, lastUpdate, main, errorChan, crashes, queue,
                 task, startTime, adv, requests, history>>

\* git gc may fail half way; it removes gc.log when it has nothing to complain about.
RunGC ==
  /\ phase = "gc"
  /\ phase' = "gc_send"
  /\ \E S \in SUBSET ((objs \ Rooted) \ recent) : objs' = objs \ S
  /\ fetchErr' \in BOOLEAN
  /\ gcLog' \in {fetchErr', TRUE}
  /\ UNCHANGED <<upstream, recent, refs, tracking, now, lastUpdate, main, errorChan, crashes, queue,
                 task, startTime, adv, requests, history>>

SendGC(n, must) ==
  /\ phase = "gc_send"
  /\ task = RoundTask(n, must)
  /\ Send(n, fetchErr)
  /\ phase' = "idle" /\ task' = NoTask /\ fetchErr' = FALSE
  /\ UNCHANGED <<upstream, disk, now, lastUpdate, main, crashes, queue, startTime, adv, requests,
                 history>>

(***************************************************************************)
(* handleV2Command.  A client lists the upstream refs (ls-refs is always   *)
(* forwarded), then asks for the hashes of some of them.                   *)
(***************************************************************************)
Quiet == <<upstream, disk, now, lastUpdate, main, errorChan, crashes, worker, history>>

Move(r, from, to) == pc[r] = from /\ pc' = [pc EXCEPT ![r] = to]

\* The request is answered; what it asked for is forgotten.
Answer(r, from, how) ==
  /\ Move(r, from, "done")
  /\ outcome' = [outcome EXCEPT ![r] = how]
  /\ want' = [want EXCEPT ![r] = <<>>]
  /\ wantRefs' = [wantRefs EXCEPT ![r] = {}]
  /\ gone' = [gone EXCEPT ![r] = FALSE]

LsRefs(r, tips, names) ==
  /\ server = "serving"
  /\ \A i \in DOMAIN tips : upRefs[tips[i]] # NoCommit
  /\ Move(r, "idle", "check")
  /\ want' = [want EXCEPT ![r] = [i \in DOMAIN tips |-> upRefs[tips[i]]]]
  /\ wantRefs' = [wantRefs EXCEPT ![r] = names]
  /\ UNCHANGED <<Quiet, queue, gone, outcome>>

LsRefsFails(r) ==
  /\ server = "serving"
  /\ Answer(r, "idle", "error")
  /\ UNCHANGED <<Quiet, queue>>

Check(r) ==
  /\ Move(r, "check", IF HasAllWants(r) THEN "serve_queue" ELSE "fetch_submit")
  /\ UNCHANGED <<Quiet, queue, want, wantRefs, gone, outcome>>

\* hasAllWants returns an error (the repository does not open, a want-ref is invalid).
CheckFails(r) ==
  /\ \/ Answer(r, "check", "error")
     \/ ~gone[r] /\ Answer(r, "recheck", "error")
  /\ UNCHANGED <<Quiet, queue>>

\* Submit blocks while the queue is full.
SubmitFetch(r) ==
  /\ Len(queue) < QueueCap
  /\ Move(r, "fetch_submit", "fetch_wait")
  /\ queue' = Append(queue, RequestTask(r))
  /\ UNCHANGED <<Quiet, want, wantRefs, gone, outcome>>

Cancelled(r) ==
  /\ gone[r]
  /\ Answer(r, "recheck", "error")
  /\ UNCHANGED <<Quiet, queue>>

Recheck(r) ==
  /\ ~gone[r] /\ HasAllWants(r)
  /\ Move(r, "recheck", "serve_queue")
  /\ UNCHANGED <<Quiet, queue, want, wantRefs, gone, outcome>>

\* reportError is called with the err of the enclosing scope, which is nil here.
RecheckMissing(r) ==
  /\ ~gone[r] /\ ~HasAllWants(r)
  /\ Answer(r, "recheck", "silent")
  /\ UNCHANGED <<Quiet, queue>>

StartServe(r) ==
  /\ Cardinality({q \in Requests : pc[q] = "serving"}) < ServeWorkers
  /\ Move(r, "serve_queue", "serving")
  /\ UNCHANGED <<Quiet, queue, want, wantRefs, gone, outcome>>

\* What git upload-pack walks.
Wanted(r) ==
  UNION {Reach[c] : c \in ({want[r][i] : i \in DOMAIN want[r]} \cup {refs[w] : w \in wantRefs[r]})
                           \ {NoCommit}}

ServeFetchLocal(r) ==
  /\ HasAllWants(r) /\ Wanted(r) \subseteq objs
  /\ Answer(r, "serving", "pack")
  /\ UNCHANGED <<Quiet, queue>>

\* An object is missing, the client is gone, or git does not start: an ErrorPacket.
ServeFetchLocalFails(r) ==
  /\ Answer(r, "serving", "error")
  /\ UNCHANGED <<Quiet, queue>>

HangUp(r) ==
  /\ pc[r] \notin {"idle", "done"} /\ ~gone[r]
  /\ gone' = [gone EXCEPT ![r] = TRUE]
  /\ UNCHANGED <<Quiet, queue, pc, want, wantRefs, outcome>>

(***************************************************************************)
(* The specification.                                                      *)
(***************************************************************************)
Round == StartRound \/ SkipRound \/ NeedRound \/ SubmitRound \/ EndRound \/ PrefetchFails

GitFetch ==
  \/ GitConnect \/ EndFetchAll \/ EndFetchOrigin \/ FailFetchOrigin
  \/ \E c \in Commits : GitWriteObject(c)

Work ==
  \/ GitFetch \/ RunGC
  \/ \E r \in Requests : FetchForRequest(r) \/ SkipRequest(r) \/ FinishRequest(r)
  \/ \E n \in 1..MaxCalls :
       \/ SkipTask(n)
       \/ \E must \in BOOLEAN : FetchForRound(n, must) \/ FinishRound(n, must) \/ SendGC(n, must)

Handle(r) ==
  \/ Check(r) \/ CheckFails(r) \/ SubmitFetch(r)
  \/ Cancelled(r) \/ Recheck(r) \/ RecheckMissing(r)
  \/ StartServe(r) \/ ServeFetchLocal(r) \/ ServeFetchLocalFails(r)

Client(r) == HangUp(r) \/ LsRefsFails(r) \/ \E s \in Selections : LsRefs(r, s[1], s[2])

Environment ==
  \/ Tick \/ GitLogsGc \/ Crash
  \/ \E r \in Refs, c \in Commits \cup {NoCommit} : Push(r, c)

Next == Environment \/ Round \/ Work \/ \E r \in Requests : Handle(r) \/ Client(r)

Spec == Init /\ [][Next]_vars

\* Go schedules every goroutine, every git process comes to an end, and the senders
\* blocked on the full channel of the pool are let in in their order.
Fairness ==
  /\ WF_vars(Round) /\ SF_vars(SubmitRound)
  /\ WF_vars(Work)
  /\ \A r \in Requests : WF_vars(Handle(r)) /\ SF_vars(SubmitFetch(r))

FairSpec == Spec /\ Fairness

(***************************************************************************)
(* Properties.                                                             *)
(***************************************************************************)
\* lastUpdate is honest: whatever a head pointed to when the last successful fetch
\* took its startTime is complete in the store for as long as the head has not moved
\* upstream, through failing fetches, a first git fetch that failed, and git gc.
Freshness == \A h \in stable : upRefs[h] # NoCommit => Reach[upRefs[h]] \subseteq objs

\* What a request can ask for and the store is known to hold.
Known == UNION {Reach[upRefs[h]] : h \in {g \in stable : upRefs[g] # NoCommit}}

Listed(r) == {want[r][i] : i \in DOMAIN want[r]}

\* Requests that waited for the fetch of another request or round start no fetch of
\* their own, and do not fail, when that fetch brought what they want.
NoNeedlessMiss ==
  [][\A r \in Requests :
       (FetchForRequest(r) \/ RecheckMissing(r)) => ~(Listed(r) \subseteq Known /\ wantRefs[r] = {})]_vars

\* A round that waited in the queue fetches nothing when the repository was updated
\* in the meantime: between the starts of two fetches of which the second is one of a
\* round after the pre-fetch, 15 minutes pass unless the first failed.
RoundsSpaced ==
  [][(phase = "idle" /\ phase' = "all" /\ task'[1] = "round" /\ server = "serving")
       => startTime' - lastUpdate >= FifteenMinutes]_vars

\* Traffic is served only after a fetch of this run of the program has succeeded.
PrefetchFirst == server = "serving" => lastUpdate # 0

\* Every request that the proxy accepted is answered, also when fetches fail, when
\* the queue is full and when a round sends a second error after git gc.
EveryRequestAnswered == \A r \in Requests : pc[r] = "check" ~> pc[r] = "done"

\* Every background round comes back to sleep: a skipped one, one whose task was
\* skipped, one with git gc.
EveryRoundEnds == bg # "sleep" ~> bg = "sleep"

(***************************************************************************)
(* What comments and the documentation say.                                *)
(***************************************************************************)
\* "Goblet parses the content of the HTTP POST requests and tells if the request can
\* be served from the local cache": when it tells so, everything wanted is there.
ToldServable ==
  [][\A r \in Requests : (pc[r] = "check" /\ pc'[r] = "serve_queue") => Wanted(r) \subseteq objs]_vars

\* "Send an error with ErrorPacket": a request that fails is told so.
ErrorIsSent == \A r \in Requests : outcome[r] # "silent"
=============================================================================
