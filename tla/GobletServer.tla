----------------------------- MODULE GobletServer -----------------------------
(***************************************************************************)
(* The server around its repositories: main starts them and pre-fetches,   *)
(* the goroutine of RunEvery calls FetchRepositories again and again, and  *)
(* the HTTP handlers run the commands of their requests one by one.  All   *)
(* of them meet in the fetchUpstreamPool of a repository, which has one    *)
(* worker.                                                                 *)
(*                                                                         *)
(* ManagedRepository has the details of one repository; here a fetch       *)
(* succeeds or fails in one step, and the wants of a command are there or  *)
(* missing.  What is added is that there are several repositories, that    *)
(* the configuration may name one of them twice, that a request has        *)
(* several commands, and that the rounds can be cancelled.                 *)
(***************************************************************************)
EXTENDS Naturals, Sequences, FiniteSets, Functions, Canonicalizer

CONSTANTS
  Configurations, \* what the configuration may list: sequences of URLs
  Requests,       \* the HTTP requests that are served at the same time
  Urls, Bodies,   \* what they ask for: URLs, and sequences of commands
  QueueCap        \* capacity of fetchUpstreamPool

\* A repository is named by the directory in which it is cached, and so is its pool.
CachedAs ==
  [u \in Urls \cup UNION {Range(c) : c \in Configurations} |-> Join(URLCanonicalizer(u))]
Pools == Range(CachedAs)

ASSUME QueueAssumption == QueueCap \in Nat \ {0}
ASSUME ConfigAssumption == \A c \in Configurations : c \in Seq(Range(c))
ASSUME BodyAssumption == Bodies \subseteq Seq(STRING)

VARIABLES
  repositories, \* the URLs of the configuration file
  main,       \* "starting", "prefetch", "serving", "exited"
  \* FetchRepositories, called by main and then by the goroutine of RunEvery.
  loop,       \* "select", "decide", "submit", "receive", "stopped"
  k,          \* the repository it is at
  errors,     \* the pre-fetch has collected an error
  errorChan,  \* errorChan[i]: what is buffered in the channel of repository i
  cancel,     \* the function that RunEvery returned: "uncalled", "blocked", "returned"
  \* The pools.
  queue,      \* queue[p]: the tasks that wait
  task,       \* task[p]: the task of the worker, or NoTask
  phase,      \* phase[p]: what it does: "idle", "fetch", "gc"
  old,        \* old[p]: the last successful fetch began 15 minutes ago or earlier
  \* The requests.
  at, pool, commands,
  done,       \* done[r]: how many of its commands have been answered
  missing,    \* missing[r]: a want of the current command is not in the store
  answers,    \* answers[r]: what was written to the client, in order
  status,     \* status[r]: the HTTP status, 0 until it is settled
  \* History.
  fetched     \* the repositories that have been fetched with success

rounds == <<repositories, main, loop, k, errors>>
work == <<task, phase, old, fetched>>
requests == <<at, pool, commands, done, missing, answers, status>>
vars == <<rounds, errorChan, cancel, queue, work, requests>>

Positions == DOMAIN repositories
PoolOf(i) == CachedAs[repositories[i]]
Configured == {PoolOf(i) : i \in Positions}

NoTask == [kind |-> "none"]
RequestTask(r) == [kind |-> "request", r |-> r]

\* A task that outlives its round keeps a channel that nobody reads any more: 0.
RoundTask(i, must) == [kind |-> "round", i |-> i, must |-> must]
Outlive(t) == IF t.kind = "round" THEN [t EXCEPT !.i = 0] ELSE t

Tasks == {RequestTask(r) : r \in Requests}
         \cup {RoundTask(i, must) : i \in Positions \cup {0}, must \in BOOLEAN}
NoPool == Refused

HTTPStatusFromGrpcCode ==
  [OK |-> 200, Canceled |-> 408, Unknown |-> 500, InvalidArgument |-> 400,
   DeadlineExceeded |-> 504, NotFound |-> 404, AlreadyExists |-> 409, PermissionDenied |-> 403,
   Unauthenticated |-> 401, ResourceExhausted |-> 429, FailedPrecondition |-> 400,
   Aborted |-> 409, OutOfRange |-> 400, Unimplemented |-> 501, Internal |-> 500,
   Unavailable |-> 503, DataLoss |-> 500]

Stages == {"idle", "handle", "next", "submit", "wait", "recheck", "serve", "done"}
Packets == {"refs", "pack", "part", "ERR"}

TypeOK ==
  /\ repositories \in Configurations
  /\ main \in {"starting", "prefetch", "serving", "exited"}
  /\ loop \in {"select", "decide", "submit", "receive", "stopped"}
  /\ k \in Positions \cup {1} /\ errors \in BOOLEAN
  /\ errorChan \in [Positions -> {<<>>, <<"nil">>, <<"err">>}]
  /\ cancel \in {"uncalled", "blocked", "returned"}
  /\ queue \in [Pools -> Seq(Tasks)] /\ task \in [Pools -> Tasks \cup {NoTask}]
  /\ phase \in [Pools -> {"idle", "fetch", "gc"}] /\ old \in [Pools -> BOOLEAN]
  /\ \A p \in Pools : Len(queue[p]) <= QueueCap /\ (phase[p] = "idle" <=> task[p] = NoTask)
  /\ at \in [Requests -> Stages] /\ pool \in [Requests -> Pools \cup {NoPool}]
  /\ commands \in [Requests -> Seq({"ls-refs", "fetch"})] /\ done \in [Requests -> Nat]
  /\ missing \in [Requests -> BOOLEAN] /\ answers \in [Requests -> Seq(Packets)]
  /\ status \in [Requests -> Range(HTTPStatusFromGrpcCode) \cup {0}]
  /\ fetched \subseteq Pools

Init ==
  /\ repositories \in Configurations
  /\ main = "starting" /\ loop = "select" /\ k = 1 /\ errors = FALSE
  /\ errorChan = [i \in Positions |-> <<>>] /\ cancel = "uncalled"
  /\ queue = [p \in Pools |-> <<>>] /\ task = [p \in Pools |-> NoTask]
  /\ phase = [p \in Pools |-> "idle"] /\ old = [p \in Pools |-> TRUE]
  /\ at = [r \in Requests |-> "idle"] /\ pool = [r \in Requests |-> NoPool]
  /\ commands = [r \in Requests |-> <<>>] /\ done = [r \in Requests |-> 0]
  /\ missing = [r \in Requests |-> FALSE] /\ answers = [r \in Requests |-> <<>>]
  /\ status = [r \in Requests |-> 0] /\ fetched = {}

(***************************************************************************)
(* main and RunEvery.                                                      *)
(***************************************************************************)
\* The configuration is read and every repository opened; then the pre-fetch, which comes
\* back at once when there is nothing to fetch.
Start ==
  /\ main = "starting"
  /\ \/ repositories # <<>> /\ main' = "prefetch" /\ loop' = "submit"
     \/ repositories = <<>> /\ main' = "serving" /\ UNCHANGED loop
  /\ UNCHANGED <<repositories, k, errors, errorChan, cancel, queue, work, requests>>

\* log.Fatal: no configuration, a hook without a cache, a repository that does not open.
StartFails ==
  /\ main = "starting"
  /\ main' = "exited"
  /\ UNCHANGED <<repositories, loop, k, errors, errorChan, cancel, queue, work, requests>>

\* The timer of the select fires.  Without repositories the round changes nothing.
Fire ==
  /\ main = "serving" /\ loop = "select" /\ repositories # <<>>
  /\ loop' = "decide"
  /\ UNCHANGED <<repositories, main, k, errors, errorChan, cancel, queue, work, requests>>

\* cancel sends on a channel without a buffer: it waits for the select.
CallCancel ==
  /\ main = "serving" /\ cancel = "uncalled"
  /\ cancel' = "blocked"
  /\ UNCHANGED <<rounds, errorChan, queue, work, requests>>

TakeStop ==
  /\ cancel = "blocked" /\ loop = "select"
  /\ cancel' = "returned" /\ loop' = "stopped"
  /\ UNCHANGED <<repositories, main, k, errors, errorChan, queue, work, requests>>

(***************************************************************************)
(* FetchRepositories: FetchManagedRepositoryAsync for each repository,     *)
(* then one value from each channel, in the same order.                    *)
(***************************************************************************)
Must == main = "prefetch"

\* Mutant: a channel without a buffer.
SendUnbuffered(i, err) ==
  /\ loop = "receive" /\ k = i
  /\ errorChan[i] = <<>>
  /\ errorChan' = [errorChan EXCEPT ![i] = <<IF err THEN "err" ELSE "nil">>]

Send(i, err) ==
  IF i = 0 THEN UNCHANGED errorChan
  ELSE /\ errorChan[i] = <<>>
       /\ errorChan' = [errorChan EXCEPT ![i] = <<IF err THEN "err" ELSE "nil">>]

\* On to the next repository, or to the channels.
NextRepository ==
  IF k < Len(repositories)
  THEN k' = k + 1 /\ loop' = IF Must THEN "submit" ELSE "decide"
  ELSE k' = 1 /\ loop' = "receive"

Waiting(p) == queue[p] # <<>> \/ \E r \in Requests : at[r] = "submit" /\ pool[r] = p

\* Pending fetches, or an update less than 15 minutes ago.
SkipRepository ==
  /\ loop = "decide"
  /\ Waiting(PoolOf(k)) \/ ~old[PoolOf(k)]
  /\ Send(k, FALSE)
  /\ NextRepository
  /\ UNCHANGED <<repositories, main, errors, cancel, queue, work, requests>>

NeedRepository ==
  /\ loop = "decide"
  /\ queue[PoolOf(k)] = <<>> /\ old[PoolOf(k)]
  /\ loop' = "submit"
  /\ UNCHANGED <<repositories, main, k, errors, errorChan, cancel, queue, work, requests>>

SubmitRepository ==
  /\ loop = "submit"
  /\ Len(queue[PoolOf(k)]) < QueueCap
  /\ queue' = [queue EXCEPT ![PoolOf(k)] = Append(@, RoundTask(k, Must))]
  /\ NextRepository
  /\ UNCHANGED <<repositories, main, errors, errorChan, cancel, work, requests>>

Received(i) == errorChan[i] # <<>> /\ errorChan' = [errorChan EXCEPT ![i] = <<>>]

\* Another channel is to be read after this one.
Receive ==
  /\ loop = "receive" /\ k < Len(repositories)
  /\ Received(k)
  /\ errors' = (errors \/ (Must /\ errorChan[k] = <<"err">>))
  /\ k' = k + 1
  /\ UNCHANGED <<repositories, main, loop, cancel, queue, work, requests>>

\* FetchRepositories returns; the channels are forgotten by all but the tasks.
RoundOver ==
  /\ loop' = "select" /\ k' = 1 /\ errors' = FALSE
  /\ errorChan' = [i \in Positions |-> <<>>]
  /\ task' = [p \in Pools |-> Outlive(task[p])]
  /\ queue' = [p \in Pools |-> [i \in DOMAIN queue[p] |-> Outlive(queue[p][i])]]
  /\ UNCHANGED <<repositories, cancel, phase, old, fetched, requests>>

\* Mutant: the first error ends the reading of the channels.
EndRoundEarly ==
  /\ loop = "receive" /\ errorChan[k] # <<>>
  /\ k = Len(repositories) \/ errorChan[k] = <<"err">>
  /\ main = "serving" \/ ~(errors \/ errorChan[k] = <<"err">>)
  /\ main' = "serving"
  /\ RoundOver

\* Mutant: only the last error counts.
EndRoundLast ==
  /\ loop = "receive" /\ k = Len(repositories) /\ errorChan[k] # <<>>
  /\ main = "serving" \/ errorChan[k] # <<"err">>
  /\ main' = "serving"
  /\ RoundOver

\* The last channel.  The errors of a background round are logged.
EndRound ==
  /\ loop = "receive" /\ k = Len(repositories) /\ errorChan[k] # <<>>
  /\ main = "serving" \/ ~(errors \/ errorChan[k] = <<"err">>)
  /\ main' = "serving"
  /\ RoundOver

\* os.Exit: an error of the pre-fetch.
PrefetchFails ==
  /\ Must /\ loop = "receive" /\ k = Len(repositories) /\ errorChan[k] # <<>>
  /\ errors \/ errorChan[k] = <<"err">>
  /\ main' = "exited"
  /\ UNCHANGED <<repositories, loop, k, errors, errorChan, cancel, queue, work, requests>>

(***************************************************************************)
(* The one worker of a pool.                                               *)
(***************************************************************************)
Running == main # "exited"

PickUp(p) ==
  /\ Running /\ phase[p] = "idle"
  /\ queue[p] # <<>>
  /\ queue' = [queue EXCEPT ![p] = Tail(@)]

\* Mutant: the wrong way round.
NeededFresh(p, t) == IF t.kind = "request" THEN missing[t.r] ELSE t.must \/ ~old[p]

\* Whether to fetch is decided again when the task is picked up.  That hasAllWants fails
\* there is left to FetchFails: it ends the same way.
Needed(p, t) == IF t.kind = "request" THEN missing[t.r] ELSE t.must \/ old[p]

BeginFetch(p) ==
  /\ PickUp(p) /\ Needed(p, Head(queue[p]))
  /\ task' = [task EXCEPT ![p] = Head(queue[p])] /\ phase' = [phase EXCEPT ![p] = "fetch"]
  /\ UNCHANGED <<rounds, errorChan, cancel, old, fetched, requests>>

\* Mutant: the worker keeps its task.
WorkerKeepsTask(p, to, t) == phase' = [phase EXCEPT ![p] = to] /\ UNCHANGED task

Worker(p, to, t) == phase' = [phase EXCEPT ![p] = to] /\ task' = [task EXCEPT ![p] = t]

\* A task of a round looks for gc.log at the end.
AfterFetch(p, t) == Worker(p, "idle", NoTask) \/ Worker(p, "gc", t)

\* Mutant: an early return without a value on the channel.
SkipRoundSilently(p) ==
  /\ PickUp(p) /\ Head(queue[p]).kind = "round" /\ ~Needed(p, Head(queue[p]))
  /\ AfterFetch(p, Head(queue[p]))
  /\ UNCHANGED <<rounds, errorChan, cancel, old, fetched, requests>>

SkipRound(p) ==
  /\ PickUp(p) /\ Head(queue[p]).kind = "round" /\ ~Needed(p, Head(queue[p]))
  /\ Send(Head(queue[p]).i, FALSE)
  /\ AfterFetch(p, Head(queue[p]))
  /\ UNCHANGED <<rounds, cancel, old, fetched, requests>>

\* The wants are there: SubmitAndWait returns.
SkipRequest(p) ==
  /\ PickUp(p) /\ Head(queue[p]).kind = "request" /\ ~Needed(p, Head(queue[p]))
  /\ at' = [at EXCEPT ![Head(queue[p]).r] = "recheck"]
  /\ UNCHANGED <<rounds, errorChan, cancel, work, pool, commands, done, missing, answers, status>>

\* Any fetch, also one that fails, may bring what some of the commands want.
Brings(p) ==
  \E S \in SUBSET {r \in Requests : pool[r] = p} :
    missing' = [r \in Requests |-> missing[r] /\ r \notin S]

Tell(p, err) ==
  \/ /\ task[p].kind = "round"
     /\ Send(task[p].i, err) /\ AfterFetch(p, task[p])
     /\ UNCHANGED at
  \/ /\ task[p].kind = "request"
     /\ at' = [at EXCEPT ![task[p].r] = "recheck"] /\ Worker(p, "idle", NoTask)
     /\ UNCHANGED errorChan

FetchSucceeds(p) ==
  /\ Running /\ phase[p] = "fetch"
  /\ Brings(p) /\ Tell(p, FALSE)
  /\ old' = [old EXCEPT ![p] = FALSE] /\ fetched' = fetched \cup {p}
  /\ UNCHANGED <<rounds, cancel, queue, pool, commands, done, answers, status>>

FetchFails(p) ==
  /\ Running /\ phase[p] = "fetch"
  /\ Brings(p) /\ Tell(p, TRUE)
  /\ UNCHANGED <<rounds, cancel, queue, old, fetched, pool, commands, done, answers, status>>

\* Mutant: the result of git gc waits for a reader.
EndGCUnread(p) ==
  /\ Running /\ phase[p] = "gc"
  /\ task[p].i # 0 /\ \E err \in BOOLEAN : Send(task[p].i, err)
  /\ Worker(p, "idle", NoTask)
  /\ UNCHANGED <<rounds, cancel, queue, old, fetched, requests>>

\* git gc, and its result in the channel that has already carried that of the fetch: the
\* worker waits until the first value is read.
EndGC(p) ==
  /\ Running /\ phase[p] = "gc"
  /\ \E err \in BOOLEAN : Send(task[p].i, err)
  /\ Worker(p, "idle", NoTask)
  /\ UNCHANGED <<rounds, cancel, queue, old, fetched, requests>>

\* 15 minutes pass without a fetch.
Age(p) ==
  /\ Running /\ ~old[p]
  /\ old' = [old EXCEPT ![p] = TRUE]
  /\ UNCHANGED <<rounds, errorChan, cancel, queue, task, phase, fetched, requests>>

(***************************************************************************)
(* ServeHTTP.                                                              *)
(***************************************************************************)
Quiet == <<rounds, errorChan, cancel, work>>

Go(r, from, to) == main = "serving" /\ at[r] = from /\ at' = [at EXCEPT ![r] = to]

\* reportError before any command has run: a status and a text.
Reject(r, from, code) ==
  /\ Go(r, from, "done")
  /\ status' = [status EXCEPT ![r] = HTTPStatusFromGrpcCode[code]]
  /\ UNCHANGED <<Quiet, queue, pool, commands, done, missing, answers>>

\* The authorizer of the google package: a bearer token, a basic one or a cookie must be
\* of the server's own account and have both scopes.
Scopes == {"cloud-platform", "userinfo.email"}

authorizeAccessToken(reached, scopes, ownAccount) ==
  CASE ~reached -> "Unavailable"
    [] reached /\ (scopes # Scopes \/ ~ownAccount) -> "Unauthenticated"
    [] OTHER -> "OK"

authorizeRequest(credential, reached, scopes, ownAccount) ==
  IF credential \in {"bearer", "basic", "cookie"}
  THEN authorizeAccessToken(reached, scopes, ownAccount)
  ELSE "Unauthenticated"

\* What a request brings, and what the tokeninfo service says of it.
Attempts ==
  [credential : {"none", "bearer", "basic", "not base64", "no colon", "other scheme", "cookie"},
   reached : BOOLEAN, scopes : SUBSET Scopes, ownAccount : BOOLEAN]

GoogleCodes ==
  {authorizeRequest(a.credential, a.reached, a.scopes, a.ownAccount) : a \in Attempts}

\* That of the github package, which Authorizer has in detail.
GitHubCodes == {"OK", "Unauthenticated", "InvalidArgument", "PermissionDenied"}

\* RequestAuthorizer lets the request in or not.
Authorize(r) ==
  \/ \E code \in (GitHubCodes \cup GoogleCodes) \ {"OK"} : Reject(r, "idle", code)
  \/ /\ Go(r, "idle", "handle")
     /\ UNCHANGED <<Quiet, queue, pool, commands, done, missing, answers, status>>

\* The advertisement; another path without an endpoint is answered with nothing.
InfoRefs(r) == \E code \in {"OK", "InvalidArgument"} : Reject(r, "handle", code)
ReceivePack(r) == Reject(r, "handle", "Unimplemented")
OtherPath(r) == Reject(r, "handle", "OK")

Dispatch(r, u) ==
  \/ Last(u.path) = "/info/refs" /\ InfoRefs(r)
  \/ Last(u.path) = "/git-receive-pack" /\ ReceivePack(r)
  \/ Last(u.path) \notin Endpoints /\ OtherPath(r)

(***************************************************************************)
(* uploadPackHandler: the whole body is parsed before the first command    *)
(* runs.  A body is a sequence of commands; "empty" is a flush packet with *)
(* nothing before it, "damaged" what cannot be read.                       *)
(***************************************************************************)
Malformed == <<"malformed">>

parseAllCommands(body) ==
  LET odd == {i \in DOMAIN body : body[i] \notin {"ls-refs", "fetch"}}
      first == CHOOSE i \in odd : \A j \in odd : i <= j
  IN CASE odd = {} -> body
       [] odd # {} /\ body[first] = "empty" -> SubSeq(body, 1, first - 1)
       [] OTHER -> Malformed

\* An encoding that is not gzip, a body that does not parse.
BadBody(r, body) == parseAllCommands(body) = Malformed /\ Reject(r, "handle", "InvalidArgument")

OpenRepository(r, u, body) ==
  /\ parseAllCommands(body) # Malformed
  /\ Go(r, "handle", "next")
  /\ pool' = [pool EXCEPT ![r] = CachedAs[u]]
  /\ commands' = [commands EXCEPT ![r] = parseAllCommands(body)]
  /\ status' = [status EXCEPT ![r] = 200]
  /\ UNCHANGED <<Quiet, queue, done, missing, answers>>

UploadPack(r, u, body) ==
  Last(u.path) = "/git-upload-pack" /\ (BadBody(r, body) \/ OpenRepository(r, u, body))

(***************************************************************************)
(* handleV2Command for one command after the other.                        *)
(***************************************************************************)
Command(r) == commands[r][done[r] + 1]

Stay == <<Quiet, pool, commands, status>>

Succeed(r, from, packet) ==
  /\ Go(r, from, "next")
  /\ answers' = [answers EXCEPT ![r] = Append(@, packet)]
  /\ done' = [done EXCEPT ![r] = @ + 1]
  /\ missing' = [missing EXCEPT ![r] = FALSE]
  /\ UNCHANGED <<Stay, queue>>

\* Mutant: the loop goes on after a failure.
FailGoesOn(r, from, packets) ==
  /\ Go(r, from, "next")
  /\ answers' = [answers EXCEPT ![r] = @ \o packets]
  /\ done' = [done EXCEPT ![r] = @ + 1]
  /\ missing' = [missing EXCEPT ![r] = FALSE]
  /\ UNCHANGED <<Stay, queue>>

\* The first failure ends the request, after the answers of the commands before.
Fail(r, from, packets) ==
  /\ Go(r, from, "done")
  /\ answers' = [answers EXCEPT ![r] = @ \o packets]
  /\ missing' = [missing EXCEPT ![r] = FALSE]
  /\ UNCHANGED <<Stay, queue, done>>

LsRefs(r) ==
  /\ at[r] = "next" /\ done[r] < Len(commands[r]) /\ Command(r) = "ls-refs"
  /\ Succeed(r, "next", "refs") \/ Fail(r, "next", <<"ERR">>)

\* parseFetchWants and the first hasAllWants.
Check(r) ==
  /\ done[r] < Len(commands[r]) /\ Command(r) = "fetch"
  /\ \/ Go(r, "next", "serve") /\ UNCHANGED missing
     \/ Go(r, "next", "submit") /\ missing' = [missing EXCEPT ![r] = TRUE]
  /\ UNCHANGED <<Stay, queue, done, answers>>

CheckFails(r) ==
  /\ at[r] = "next" /\ done[r] < Len(commands[r]) /\ Command(r) = "fetch"
  /\ Fail(r, "next", <<"ERR">>)

Submit(r) ==
  /\ Go(r, "submit", "wait")
  /\ Len(queue[pool[r]]) < QueueCap
  /\ queue' = [queue EXCEPT ![pool[r]] = Append(@, RequestTask(r))]
  /\ UNCHANGED <<Stay, done, missing, answers>>

\* The client is gone or the check fails: an error.  Still missing: nothing is written.
Recheck(r) ==
  \/ ~missing[r] /\ Go(r, "recheck", "serve") /\ UNCHANGED <<Stay, queue, done, missing, answers>>
  \/ Fail(r, "recheck", <<"ERR">>)
  \/ missing[r] /\ Fail(r, "recheck", <<>>)

\* git writes to the client itself: when it fails a part of the pack may be out.
ServeFetchLocal(r) ==
  \/ Succeed(r, "serve", "pack")
  \/ \E written \in {<<>>, <<"part">>} : Fail(r, "serve", written \o <<"ERR">>)

EndRequest(r) ==
  /\ done[r] = Len(commands[r])
  /\ Go(r, "next", "done")
  /\ UNCHANGED <<Stay, queue, done, missing, answers>>

\* The connection has another request.
NextRequest(r) ==
  /\ Go(r, "done", "idle")
  /\ pool' = [pool EXCEPT ![r] = NoPool] /\ commands' = [commands EXCEPT ![r] = <<>>]
  /\ done' = [done EXCEPT ![r] = 0] /\ missing' = [missing EXCEPT ![r] = FALSE]
  /\ answers' = [answers EXCEPT ![r] = <<>>] /\ status' = [status EXCEPT ![r] = 0]
  /\ UNCHANGED <<Quiet, queue>>

(***************************************************************************)
(* The specification.                                                      *)
(***************************************************************************)
Round ==
  \/ Start \/ StartFails \/ Fire
  \/ SkipRepository \/ NeedRepository \/ SubmitRepository
  \/ Receive \/ EndRound \/ PrefetchFails

Work(p) ==
  \/ BeginFetch(p) \/ SkipRound(p) \/ SkipRequest(p)
  \/ FetchSucceeds(p) \/ FetchFails(p) \/ EndGC(p)

Handle(r) ==
  \/ /\ at[r] = "handle"
     /\ \E u \in Urls : Dispatch(r, u) \/ \E body \in Bodies : UploadPack(r, u, body)
  \/ LsRefs(r) \/ Check(r) \/ CheckFails(r) \/ Submit(r)
  \/ Recheck(r) \/ ServeFetchLocal(r) \/ EndRequest(r)

Next ==
  \/ Round \/ CallCancel \/ TakeStop
  \/ \E p \in Pools : Work(p) \/ Age(p)
  \/ \E r \in Requests : Authorize(r) \/ Handle(r) \/ NextRequest(r)

\* Go schedules every goroutine, a select takes a case that is ready again and again, and
\* git and GitHub come back.
Fairness ==
  /\ WF_vars(Round) /\ SF_vars(TakeStop)
  /\ \A p \in Pools : WF_vars(Work(p))
  /\ \A r \in Requests : WF_vars(Handle(r))

Spec == Init /\ [][Next]_vars /\ Fairness

(***************************************************************************)
(* Properties.                                                             *)
(***************************************************************************)
\* Rounds do not pile up: between two rounds, and after the last one, no task of a round
\* waits or fetches, however the errors of its repositories came; only git gc may go on.
RoundIsOver ==
  loop \in {"select", "stopped"} =>
    \A p \in Pools : /\ \A i \in DOMAIN queue[p] : queue[p][i].kind # "round"
                     /\ phase[p] = "fetch" => task[p].kind # "round"

\* Traffic is served only when the pre-fetch has brought every repository of the
\* configuration, one that is named twice included.
PrefetchComplete == main = "serving" => Configured \subseteq fetched

\* One of the tasks T waits for the pool or fetches in it; its worker has a second value
\* for a channel that is full.
InHand(p, T) ==
  (\E j \in DOMAIN queue[p] : queue[p][j] \in T) \/ (phase[p] = "fetch" /\ task[p] \in T)
HeldUp(p) == phase[p] = "gc" /\ task[p].i # 0 /\ errorChan[task[p].i] # <<>>

\* No one blocks for ever.  A queue with room for a task of each request and of each
\* repository of the configuration is never full for the one who submits; what a round or a
\* request waits for is in hand, behind no worker that waits for that round; and a worker
\* that is held up waits for a channel that the round has still to read.
NobodyWaitsInVain ==
  /\ Cardinality(Requests) + Len(repositories) <= QueueCap =>
       /\ loop = "submit" => Len(queue[PoolOf(k)]) < QueueCap
       /\ \A r \in Requests : at[r] = "submit" => Len(queue[pool[r]]) < QueueCap
  /\ loop = "receive" /\ errorChan[k] = <<>> =>
       InHand(PoolOf(k), {RoundTask(k, must) : must \in BOOLEAN}) /\ ~HeldUp(PoolOf(k))
  /\ \A r \in Requests : at[r] = "wait" => InHand(pool[r], {RequestTask(r)})
  /\ \A p \in Pools : HeldUp(p) =>
       loop \in {"decide", "submit"} \/ (loop = "receive" /\ k <= task[p].i)

AnswerTo == [c \in {"ls-refs", "fetch"} |-> IF c = "fetch" THEN "pack" ELSE "refs"]

\* The answers are those of the commands, in their order, up to the first that failed; an
\* error comes last, and a request that was refused as a whole has had no command run.
AnswersInOrder ==
  \A r \in Requests :
    LET told == [i \in 1..done[r] |-> AnswerTo[commands[r][i]]]
    IN /\ \/ answers[r] = told
          \/ at[r] = "done" /\ answers[r] \in {told \o <<"ERR">>, told \o <<"part", "ERR">>}
       /\ status[r] # 200 => answers[r] = <<>> /\ pool[r] = NoPool

\* Every round comes back to the select, so that cancel returns: with failing fetches,
\* a repository that is named twice, skipped tasks, and workers that have two values for
\* a channel of one.
EveryRoundComesBack ==
  (loop \in {"decide", "submit", "receive"} \/ cancel = "blocked")
    ~> (loop = "stopped" \/ (loop = "select" /\ cancel = "uncalled") \/ main = "exited")

\* Every request ends, however the rounds, the fetches and the calls of git gc that its own
\* fetch has to wait for go on.
EveryRequestEnds == \A r \in Requests : at[r] = "handle" ~> at[r] = "done"

\* A stale repository whose fetches do not fail for ever is fetched in the end, although a
\* round skips it whenever a request waits for its pool, and a client that sends request
\* after request may find what it wants each time and skip the fetch.
StaleIsFetched ==
  \A p \in Pools :
    SF_vars(FetchSucceeds(p))
      => (main = "serving" /\ p \in Configured /\ old[p] ~> ~old[p] \/ cancel # "uncalled")
=============================================================================
