-------------------------- MODULE GobletServerProofs --------------------------
(***************************************************************************)
(* Proofs about GobletServer: the types, that rounds do not pile up, that  *)
(* the server serves only when every configured repository has been        *)
(* fetched, that clients get the answers to their commands in order, and   *)
(* that no one waits for what will not come.                               *)
(***************************************************************************)
EXTENDS GobletServer, WellFoundedInduction, FiniteSetTheorems, SequenceTheorems, TLAPS

(***************************************************************************)
(* Facts about the operators of the model.                                 *)
(***************************************************************************)
\* A configuration is a sequence, and names pools.
LEMMA Places ==
  ASSUME repositories \in Configurations
  PROVE  /\ Len(repositories) \in Nat /\ Positions = 1..Len(repositories)
         /\ repositories # <<>> => 1 \in Positions
         /\ \A i \in Positions : PoolOf(i) \in Pools
<1>1. repositories \in Seq(Range(repositories))
  BY ConfigAssumption
<1>2. /\ Len(repositories) \in Nat /\ Positions = 1..Len(repositories)
      /\ repositories # <<>> => 1 \in Positions
  BY <1>1 DEF Positions
<1>3. ASSUME NEW i \in Positions PROVE PoolOf(i) \in Pools
  <2>1. repositories[i] \in DOMAIN CachedAs
    BY DEF CachedAs, Positions, Range
  <2> QED
    BY <2>1 DEF PoolOf, Pools, Range
<1> QED
  BY <1>2, <1>3

\* Positions, pools and tasks depend on the configuration alone, which does not change.
LEMMA SamePlaces ==
  ASSUME repositories' = repositories
  PROVE  Positions' = Positions /\ (\A i : PoolOf(i)' = PoolOf(i)) /\ Tasks' = Tasks
BY DEF Positions, PoolOf, Tasks

\* The two kinds of tasks.
LEMMA TaskKinds ==
  /\ \A r \in Requests : RequestTask(r) \in Tasks /\ RequestTask(r).kind = "request" /\ RequestTask(r).r = r
  /\ \A i \in Positions \cup {0}, must \in BOOLEAN :
       /\ RoundTask(i, must) \in Tasks /\ RoundTask(i, must).kind = "round"
       /\ RoundTask(i, must).i = i /\ RoundTask(i, must).must = must
  /\ \A t \in Tasks :
       \/ t.kind = "request" /\ t.r \in Requests
       \/ t.kind = "round" /\ t.i \in Positions \cup {0} /\ t.must \in BOOLEAN
  /\ NoTask.kind = "none" /\ NoTask \notin Tasks
<1>1. \A r \in Requests : RequestTask(r) \in Tasks /\ RequestTask(r).kind = "request" /\ RequestTask(r).r = r
  BY DEF Tasks, RequestTask
<1>2. \A i \in Positions \cup {0}, must \in BOOLEAN :
        /\ RoundTask(i, must) \in Tasks /\ RoundTask(i, must).kind = "round"
        /\ RoundTask(i, must).i = i /\ RoundTask(i, must).must = must
  BY DEF Tasks, RoundTask
<1>3. \A t \in Tasks :
        \/ t.kind = "request" /\ t.r \in Requests
        \/ t.kind = "round" /\ t.i \in Positions \cup {0} /\ t.must \in BOOLEAN
  BY DEF Tasks, RequestTask, RoundTask
<1>4. NoTask.kind = "none"
  BY DEF NoTask
<1> QED
  BY <1>1, <1>2, <1>3, <1>4

\* A task that outlives its round.
LEMMA Outlived ==
  /\ \A t \in Tasks : t.kind = "round" => Outlive(t) \in Tasks /\ Outlive(t).kind = "round" /\ Outlive(t).i = 0
  /\ \A t \in Tasks : t.kind = "request" => Outlive(t) = t
  /\ Outlive(NoTask) = NoTask
<1>1. ASSUME NEW t \in Tasks, t.kind = "round"
      PROVE  Outlive(t) \in Tasks /\ Outlive(t).kind = "round" /\ Outlive(t).i = 0
  <2>1. PICK i \in Positions \cup {0}, must \in BOOLEAN : t = RoundTask(i, must)
    BY <1>1 DEF Tasks, RequestTask
  <2>2. Outlive(t) = RoundTask(0, must)
    BY <2>1 DEF Outlive, RoundTask
  <2> QED
    BY <2>2, TaskKinds
<1>2. \A t \in Tasks : t.kind = "request" => Outlive(t) = t
  BY DEF Outlive
<1>3. Outlive(NoTask) = NoTask
  BY DEF Outlive, NoTask
<1> QED
  BY <1>1, <1>2, <1>3

\* Every code that a request is refused with has an HTTP status.
Codes == {"OK", "Unimplemented", "InvalidArgument", "PermissionDenied", "Unauthenticated", "Unavailable"}

\* The status is one of the table.
LEMMA StatusOfCode ==
  \A code \in Codes : HTTPStatusFromGrpcCode[code] \in Range(HTTPStatusFromGrpcCode)
<1>1. Codes \subseteq DOMAIN HTTPStatusFromGrpcCode
  BY DEF Codes, HTTPStatusFromGrpcCode
<1> QED
  BY <1>1 DEF Range

\* The codes of the two authorizers are among them.
LEMMA CodesOfAuthorizers == GitHubCodes \cup GoogleCodes \subseteq Codes
<1>1. \A reached \in BOOLEAN, own \in BOOLEAN : \A scopes :
        authorizeAccessToken(reached, scopes, own) \in {"Unavailable", "Unauthenticated", "OK"}
  BY Zenon DEF authorizeAccessToken
<1>2. \A c : \A reached \in BOOLEAN, own \in BOOLEAN : \A scopes :
        authorizeRequest(c, reached, scopes, own) \in {"Unavailable", "Unauthenticated", "OK"}
  BY <1>1, Zenon DEF authorizeRequest
<1>3. GoogleCodes \subseteq {"Unavailable", "Unauthenticated", "OK"}
  <2> SUFFICES ASSUME NEW a \in Attempts
               PROVE  authorizeRequest(a.credential, a.reached, a.scopes, a.ownAccount)
                        \in {"Unavailable", "Unauthenticated", "OK"}
    BY DEF GoogleCodes
  <2>1. a.reached \in BOOLEAN /\ a.ownAccount \in BOOLEAN
    BY DEF Attempts
  <2> QED
    BY <1>2, <2>1, Zenon
<1> QED
  BY <1>3 DEF GitHubCodes, Codes

\* What is parsed is a sequence of commands: the body up to its first odd item.
LEMMA Parsed ==
  ASSUME NEW body \in Bodies, parseAllCommands(body) # Malformed
  PROVE  parseAllCommands(body) \in Seq({"ls-refs", "fetch"})
<1> DEFINE odd == {i \in DOMAIN body : body[i] \notin {"ls-refs", "fetch"}}
           first == CHOOSE i \in odd : \A j \in odd : i <= j
<1>0. body \in Seq(STRING) /\ Len(body) \in Nat /\ DOMAIN body = 1..Len(body)
  BY BodyAssumption
<1>1. CASE odd = {}
  <2>1. parseAllCommands(body) = body
    BY <1>1, Zenon DEF parseAllCommands
  <2>2. \A i \in 1..Len(body) : body[i] \in {"ls-refs", "fetch"}
    BY <1>0, <1>1
  <2> QED
    BY <1>0, <2>1, <2>2
<1>2. CASE odd # {}
  <2>1. body[first] = "empty" => parseAllCommands(body) = SubSeq(body, 1, first - 1)
    BY <1>2, Zenon DEF parseAllCommands
  <2>2. body[first] # "empty" => parseAllCommands(body) = Malformed
    BY <1>2, Zenon DEF parseAllCommands
  <2>3. first \in odd /\ \A j \in odd : first <= j
    <3>1. odd \subseteq Nat
      BY <1>0
    <3>2. \E i \in odd : \A j \in odd : i <= j
      <4> DEFINE below == OpToRel(<, Nat)
      <4>1. IsWellFoundedOn(below, Nat)
        BY NatLessThanWellFounded
      <4>2. \A x \in Nat, y \in Nat : x < y => <<x, y>> \in below
        BY DEF OpToRel
      <4> HIDE DEF below, odd
      <4>3. PICK i \in odd : \A j \in odd : <<j, i>> \notin below
        BY <3>1, <1>2, <4>1, WFMin
      <4>4. \A j \in odd : i \in Nat /\ j \in Nat /\ ~(j < i)
        BY <3>1, <4>2, <4>3
      <4> QED
        BY <4>4
    <3> QED
      BY <3>2
  <2>4. first \in 1..Len(body) /\ \A i \in 1..(first - 1) : body[i] \in {"ls-refs", "fetch"}
    BY <1>0, <2>3
  <2>5. SubSeq(body, 1, first - 1) \in Seq({"ls-refs", "fetch"})
    BY <1>0, <2>4
  <2> QED
    BY <2>1, <2>2, <2>5
<1> QED
  BY <1>1, <1>2

(***************************************************************************)
(* Typing, in three parts.                                                 *)
(***************************************************************************)
RoundType ==
  /\ repositories \in Configurations
  /\ main \in {"starting", "prefetch", "serving", "exited"}
  /\ loop \in {"select", "decide", "submit", "receive", "stopped"}
  /\ k \in Positions \cup {1} /\ errors \in BOOLEAN
  /\ loop \notin {"select", "stopped"} => k \in Positions
  /\ errorChan \in [Positions -> {<<>>, <<"nil">>, <<"err">>}]
  /\ cancel \in {"uncalled", "blocked", "returned"}

QueueType ==
  /\ queue \in [Pools -> Seq(Tasks)]
  /\ \A p \in Pools : Len(queue[p]) <= QueueCap

PoolType ==
  /\ task \in [Pools -> Tasks \cup {NoTask}]
  /\ phase \in [Pools -> {"idle", "fetch", "gc"}] /\ old \in [Pools -> BOOLEAN]
  /\ \A p \in Pools : phase[p] = "idle" <=> task[p] = NoTask
  /\ \A p \in Pools : phase[p] = "gc" => task[p].kind = "round"
  /\ fetched \subseteq Pools

RequestType ==
  /\ at \in [Requests -> Stages] /\ pool \in [Requests -> Pools \cup {NoPool}]
  /\ commands \in [Requests -> Seq({"ls-refs", "fetch"})] /\ done \in [Requests -> Nat]
  /\ missing \in [Requests -> BOOLEAN] /\ answers \in [Requests -> Seq(Packets)]
  /\ status \in [Requests -> Range(HTTPStatusFromGrpcCode) \cup {0}]

TypeInv == RoundType /\ QueueType /\ PoolType /\ RequestType

\* The parts are TypeOK.
LEMMA TypeInvImpliesTypeOK == TypeInv => TypeOK
BY DEF TypeInv, RoundType, QueueType, PoolType, RequestType, TypeOK

\* A step that changes nothing of a part keeps it.
LEMMA RoundTypeKept == RoundType /\ UNCHANGED <<rounds, errorChan, cancel>> => RoundType'
BY DEF RoundType, rounds, Positions

\* The same for the queues.
LEMMA QueueTypeKept == QueueType /\ UNCHANGED <<repositories, queue>> => QueueType'
BY SamePlaces DEF QueueType

\* The same for the workers.
LEMMA PoolTypeKept == PoolType /\ UNCHANGED <<repositories, work>> => PoolType'
BY SamePlaces DEF PoolType, work

\* The same for the requests.
LEMMA RequestTypeKept == RequestType /\ UNCHANGED requests => RequestType'
BY DEF RequestType, requests

\* A channel takes one value.
LEMMA SendFacts ==
  ASSUME RoundType, NEW i \in Positions \cup {0}, NEW err, Send(i, err)
  PROVE  /\ errorChan' \in [Positions -> {<<>>, <<"nil">>, <<"err">>}]
         /\ i = 0 => errorChan' = errorChan
         /\ i # 0 => i \in Positions /\ errorChan[i] = <<>> /\ errorChan'[i] = IF err THEN <<"err">> ELSE <<"nil">>
         /\ \A j \in Positions : j # i => errorChan'[j] = errorChan[j]
<1>1. CASE i = 0
  <2>1. 0 \notin Positions
    BY Places DEF RoundType
  <2> QED
    BY <1>1, <2>1 DEF Send, RoundType
<1>2. CASE i # 0
  <2>1. i \in Positions /\ errorChan[i] = <<>>
    BY <1>2 DEF Send
  <2>2. errorChan' = [errorChan EXCEPT ![i] = IF err THEN <<"err">> ELSE <<"nil">>]
    BY <1>2 DEF Send
  <2> QED
    BY <1>2, <2>1, <2>2 DEF RoundType
<1> QED
  BY <1>1, <1>2

\* The worker takes the first task; the others move up.
LEMMA Picked ==
  ASSUME QueueType, NEW p \in Pools, PickUp(p), repositories' = repositories
  PROVE  /\ main # "exited" /\ phase[p] = "idle"
         /\ 1 \in DOMAIN queue[p] /\ Head(queue[p]) = queue[p][1] /\ Head(queue[p]) \in Tasks
         /\ QueueType'
         /\ \A q \in Pools : q # p => queue'[q] = queue[q]
         /\ \A j \in DOMAIN queue'[p] :
              j \in Nat \ {0} /\ j + 1 \in DOMAIN queue[p] /\ queue'[p][j] = queue[p][j + 1]
<1>1. queue[p] \in Seq(Tasks) /\ queue[p] # <<>> /\ Len(queue[p]) \in Nat \ {0}
  BY DEF QueueType, PickUp
<1>2. 1 \in DOMAIN queue[p] /\ Head(queue[p]) = queue[p][1] /\ Head(queue[p]) \in Tasks
  BY <1>1
<1>3. Tail(queue[p]) \in Seq(Tasks) /\ Len(Tail(queue[p])) = Len(queue[p]) - 1
  BY <1>1
<1>4. queue'[p] = Tail(queue[p]) /\ \A q \in Pools : q # p => queue'[q] = queue[q]
  BY DEF PickUp, QueueType
<1>5. QueueType'
  <2>1. queue' \in [Pools -> Seq(Tasks)]
    BY <1>3 DEF PickUp, QueueType
  <2>2. \A q \in Pools : Len(queue'[q]) <= QueueCap
    BY <1>1, <1>3, <1>4, QueueAssumption DEF QueueType
  <2> QED
    BY <2>1, <2>2, SamePlaces DEF QueueType
<1>6. \A j \in DOMAIN queue'[p] :
        j \in Nat \ {0} /\ j + 1 \in DOMAIN queue[p] /\ queue'[p][j] = queue[p][j + 1]
  BY <1>1, <1>3, <1>4
<1> QED
  BY <1>2, <1>4, <1>5, <1>6 DEF PickUp, Running

\* A task is submitted.
LEMMA Added ==
  ASSUME QueueType, NEW p \in Pools, NEW t \in Tasks, Len(queue[p]) < QueueCap,
         queue' = [queue EXCEPT ![p] = Append(@, t)], repositories' = repositories
  PROVE  /\ QueueType'
         /\ \A q \in Pools : q # p => queue'[q] = queue[q]
         /\ \A j \in DOMAIN queue'[p] :
              \/ j \in DOMAIN queue[p] /\ queue'[p][j] = queue[p][j]
              \/ j = Len(queue[p]) + 1 /\ queue'[p][j] = t
<1>1. queue[p] \in Seq(Tasks) /\ Len(queue[p]) \in Nat
  BY DEF QueueType
<1>2. Append(queue[p], t) \in Seq(Tasks) /\ Len(Append(queue[p], t)) = Len(queue[p]) + 1
  BY <1>1
<1>3. queue'[p] = Append(queue[p], t) /\ \A q \in Pools : q # p => queue'[q] = queue[q]
  BY DEF QueueType
<1>4. QueueType'
  <2>1. queue' \in [Pools -> Seq(Tasks)]
    BY <1>2 DEF QueueType
  <2>2. \A q \in Pools : Len(queue'[q]) <= QueueCap
    BY <1>1, <1>2, <1>3, QueueAssumption DEF QueueType
  <2> QED
    BY <2>1, <2>2, SamePlaces DEF QueueType
<1>5. \A j \in DOMAIN queue'[p] :
        \/ j \in DOMAIN queue[p] /\ queue'[p][j] = queue[p][j]
        \/ j = Len(queue[p]) + 1 /\ queue'[p][j] = t
  BY <1>1, <1>2, <1>3
<1> QED
  BY <1>3, <1>4, <1>5

\* The worker of one pool goes on.
LEMMA WorkerType ==
  ASSUME PoolType, NEW p \in Pools, repositories' = repositories,
         NEW to \in {"idle", "fetch", "gc"}, NEW t \in Tasks \cup {NoTask}, to = "idle" <=> t = NoTask,
         to = "gc" => t.kind = "round",
         phase' = [phase EXCEPT ![p] = to], task' = [task EXCEPT ![p] = t],
         old' \in [Pools -> BOOLEAN], fetched' \subseteq Pools
  PROVE  PoolType'
<1>1. phase' \in [Pools -> {"idle", "fetch", "gc"}] /\ task' \in [Pools -> Tasks \cup {NoTask}]
  BY DEF PoolType
<1>2. \A q \in Pools : phase'[q] = "idle" <=> task'[q] = NoTask
  BY DEF PoolType
<1>3. \A q \in Pools : phase'[q] = "gc" => task'[q].kind = "round"
  BY DEF PoolType
<1> QED
  BY <1>1, <1>2, <1>3, SamePlaces DEF PoolType

(***************************************************************************)
(* The requests.  The task of a request waits for, or fetches in, the      *)
(* pool that the request has opened while the request waits; its answers   *)
(* so far are those of the commands that are done.                         *)
(***************************************************************************)
AskInv ==
  \A p \in Pools :
    /\ \A j \in DOMAIN queue[p] : queue[p][j].kind = "request" =>
         at[queue[p][j].r] = "wait" /\ pool[queue[p][j].r] = p
    /\ phase[p] = "fetch" /\ task[p].kind = "request" =>
         at[task[p].r] = "wait" /\ pool[task[p].r] = p

ToldAll(r) == [i \in 1..done[r] |-> AnswerTo[commands[r][i]]]

Stage(r) ==
  /\ done[r] <= Len(commands[r])
  /\ at[r] \in {"idle", "handle"} =>
       status[r] = 0 /\ pool[r] = NoPool /\ done[r] = 0 /\ answers[r] = <<>>
  /\ at[r] \in {"next", "submit", "wait", "recheck", "serve"} =>
       status[r] = 200 /\ pool[r] \in Pools /\ answers[r] = ToldAll(r)
  /\ at[r] \in {"submit", "wait", "recheck", "serve"} =>
       done[r] < Len(commands[r]) /\ Command(r) = "fetch"
  /\ at[r] = "done" =>
       /\ answers[r] \in {ToldAll(r), ToldAll(r) \o <<"ERR">>, ToldAll(r) \o <<"part", "ERR">>}
       /\ status[r] # 200 => answers[r] = <<>> /\ pool[r] = NoPool

StageInv == \A r \in Requests : Stage(r)

(***************************************************************************)
(* The steps of main and of FetchRepositories.                             *)
(***************************************************************************)
\* They leave the pools and the requests alone, but for the task that is submitted and
\* the end of a round.
LEMMA RoundStepTypes ==
  ASSUME TypeInv, Round \/ CallCancel \/ TakeStop
  PROVE  TypeInv'
<1> USE DEF TypeInv, rounds
<1>0. /\ Len(repositories) \in Nat /\ Positions = 1..Len(repositories) /\ k \in Nat \ {0}
      /\ loop \notin {"select", "stopped"} => k \in 1..Len(repositories)
      /\ repositories # <<>> => 1 \in Positions
  BY Places DEF RoundType
<1>1. ASSUME UNCHANGED <<repositories, work, requests, queue>>, RoundType' PROVE TypeInv'
  BY <1>1, QueueTypeKept, PoolTypeKept, RequestTypeKept
<1>2. ASSUME NextRepository, UNCHANGED repositories, loop \in {"decide", "submit"}
      PROVE  k' \in Positions /\ loop' \in {"decide", "submit", "receive"}
  BY <1>0, <1>2 DEF NextRepository
<1>3. CASE Start
  BY <1>3, <1>0, <1>1, SamePlaces DEF Start, RoundType
<1>4. CASE StartFails
  BY <1>4, <1>1, SamePlaces DEF StartFails, RoundType, Must
<1>5. CASE Fire
  BY <1>5, <1>0, <1>1, SamePlaces DEF Fire, RoundType
<1>6. CASE NeedRepository
  BY <1>6, <1>1, SamePlaces DEF NeedRepository, RoundType, Must
<1>7. CASE PrefetchFails
  BY <1>7, <1>1, SamePlaces DEF PrefetchFails, RoundType, Must
<1>8. CASE CallCancel
  BY <1>8, <1>1, SamePlaces DEF CallCancel, RoundType, Must
<1>9. CASE TakeStop
  BY <1>9, <1>1, SamePlaces DEF TakeStop, RoundType, Must
<1>10. CASE SkipRepository
  <2>1. /\ Send(k, FALSE) /\ NextRepository /\ loop = "decide"
        /\ UNCHANGED <<repositories, main, errors, cancel, queue, work, requests>>
    BY <1>10 DEF SkipRepository
  <2>2. errorChan' \in [Positions -> {<<>>, <<"nil">>, <<"err">>}]
    BY <1>0, <2>1, SendFacts
  <2>3. RoundType'
    BY <1>2, <2>1, <2>2, SamePlaces DEF RoundType
  <2> QED
    BY <1>1, <2>1, <2>3
<1>11. CASE SubmitRepository
  <2>1. /\ Len(queue[PoolOf(k)]) < QueueCap /\ queue' = [queue EXCEPT ![PoolOf(k)] = Append(@, RoundTask(k, Must))]
        /\ NextRepository /\ loop = "submit"
        /\ UNCHANGED <<repositories, main, errors, errorChan, cancel, work, requests>>
    BY <1>11 DEF SubmitRepository
  <2>2. RoundTask(k, Must) \in Tasks /\ PoolOf(k) \in Pools
    <3>1. Must \in BOOLEAN
      BY Zenon DEF Must
    <3> QED
      BY <2>1, <3>1, TaskKinds, Places DEF RoundType
  <2>3. QueueType'
    BY <2>1, <2>2, Added
  <2>4. RoundType'
    BY <1>2, <2>1, SamePlaces DEF RoundType
  <2> QED
    BY <2>1, <2>3, <2>4, PoolTypeKept, RequestTypeKept
<1>12. CASE Receive
  <2>1. /\ loop = "receive" /\ k < Len(repositories) /\ k' = k + 1
        /\ errorChan' = [errorChan EXCEPT ![k] = <<>>]
        /\ UNCHANGED <<repositories, main, loop, cancel, queue, work, requests>>
    BY <1>12 DEF Receive, Received
  <2>2. errors' \in BOOLEAN
    BY <1>12, Zenon DEF Receive
  <2>3. RoundType'
    BY <1>0, <2>1, <2>2, SamePlaces DEF RoundType
  <2> QED
    BY <1>1, <2>1, <2>3
<1>13. CASE EndRound
  <2>1. main' = "serving" /\ RoundOver
    BY <1>13 DEF EndRound
  <2>2. repositories' = repositories
    BY <2>1 DEF RoundOver
  <2>3. errors' \in BOOLEAN
    BY <2>1, Zenon DEF RoundOver
  <2>4. RoundType'
    BY <1>0, <2>1, <2>3, SamePlaces DEF RoundOver, RoundType
  <2>5. \A t \in Tasks : Outlive(t) \in Tasks
    BY TaskKinds, Outlived
  <2>6. QueueType'
    <3>1. ASSUME NEW p \in Pools PROVE queue'[p] \in Seq(Tasks) /\ Len(queue'[p]) <= QueueCap
      <4>1. queue[p] \in Seq(Tasks) /\ Len(queue[p]) \in Nat /\ DOMAIN queue[p] = 1..Len(queue[p])
        BY DEF QueueType
      <4>2. queue'[p] = [i \in 1..Len(queue[p]) |-> Outlive(queue[p][i])]
        BY <2>1, <4>1 DEF RoundOver
      <4>3. queue'[p] \in [1..Len(queue[p]) -> Tasks]
        BY <2>5, <4>1, <4>2
      <4>4. queue'[p] \in Seq(Tasks) /\ Len(queue'[p]) = Len(queue[p])
        BY <4>1, <4>3
      <4> QED
        BY <4>4 DEF QueueType
    <3>2. queue' \in [Pools -> Seq(Tasks)]
      BY <2>1, <3>1 DEF RoundOver
    <3> QED
      BY <2>2, <3>1, <3>2, SamePlaces DEF QueueType
  <2>7. PoolType'
    <3>1. \A p \in Pools : task'[p] = Outlive(task[p])
      BY <2>1 DEF RoundOver
    <3>2. \A p \in Pools : task'[p] \in Tasks \cup {NoTask} /\ (task'[p] = NoTask <=> task[p] = NoTask)
      BY <2>5, <3>1, Outlived, TaskKinds DEF PoolType
    <3>3. \A p \in Pools : phase'[p] = "gc" => task'[p].kind = "round"
      <4>1. \A p \in Pools : phase[p] = "gc" => task[p] \in Tasks /\ task[p].kind = "round"
        BY DEF PoolType
      <4> QED
        BY <2>1, <3>1, <4>1, Outlived DEF RoundOver
    <3>4. task' \in [Pools -> Tasks \cup {NoTask}]
      BY <2>1, <3>2 DEF RoundOver
    <3>5. UNCHANGED <<phase, old, fetched>>
      BY <2>1 DEF RoundOver
    <3> QED
      BY <2>2, <3>2, <3>3, <3>4, <3>5, SamePlaces DEF PoolType
  <2> QED
    BY <2>1, <2>4, <2>6, <2>7, RequestTypeKept DEF RoundOver
<1> QED
  BY <1>3, <1>4, <1>5, <1>6, <1>7, <1>8, <1>9, <1>10, <1>11, <1>12, <1>13 DEF Round

(***************************************************************************)
(* The steps of a worker.                                                  *)
(***************************************************************************)
\* The worker of pool p answers the round or the request of its task t and looks for
\* gc.log, or becomes idle.
Ends(p, t) ==
  \/ phase' = [phase EXCEPT ![p] = "idle"] /\ task' = [task EXCEPT ![p] = NoTask]
  \/ t.kind = "round" /\ phase' = [phase EXCEPT ![p] = "gc"] /\ task' = [task EXCEPT ![p] = t]

\* Types hold when the worker ends with its task.
LEMMA EndsType ==
  ASSUME PoolType, NEW p \in Pools, repositories' = repositories, NEW t \in Tasks, Ends(p, t),
         old' \in [Pools -> BOOLEAN], fetched' \subseteq Pools
  PROVE  PoolType'
<1>1. t # NoTask
  BY TaskKinds
<1>2. CASE phase' = [phase EXCEPT ![p] = "idle"] /\ task' = [task EXCEPT ![p] = NoTask]
  BY <1>2, WorkerType
<1>3. CASE t.kind = "round" /\ phase' = [phase EXCEPT ![p] = "gc"] /\ task' = [task EXCEPT ![p] = t]
  BY <1>1, <1>3, WorkerType
<1> QED
  BY <1>2, <1>3 DEF Ends

\* A fetch that ends, with or without an error, sends the error of a round, or wakes a request.
LEMMA FetchEnds ==
  ASSUME TypeInv, NEW p \in Pools, NEW err, Tell(p, err), phase[p] = "fetch"
  PROVE  /\ task[p] \in Tasks /\ Ends(p, task[p])
         /\ \/ task[p].kind = "round" /\ Send(task[p].i, err) /\ at' = at
            \/ /\ task[p].kind = "request" /\ errorChan' = errorChan
               /\ at' = [at EXCEPT ![task[p].r] = "recheck"]
<1>1. task[p] \in Tasks
  BY DEF TypeInv, PoolType
<1>2. Ends(p, task[p])
  BY DEF Tell, AfterFetch, Worker, Ends
<1> QED
  BY <1>1, <1>2 DEF Tell

\* A fetch changes only whether wants are missing.
LEMMA BringsType == ASSUME RequestType, NEW p, Brings(p) PROVE missing' \in [Requests -> BOOLEAN]
<1>1. PICK S : missing' = [r \in Requests |-> missing[r] /\ r \notin S]
  BY DEF Brings
<1>2. \A r \in Requests : (missing[r] /\ r \notin S) \in BOOLEAN
  BY Zenon
<1> QED
  BY <1>1, <1>2, Zenon

\* Types hold after every step of a worker.
LEMMA WorkStepTypes ==
  ASSUME TypeInv, NEW p \in Pools, Work(p) \/ Age(p)
  PROVE  TypeInv'
<1> USE DEF TypeInv, rounds, requests, work
<1>0. repositories' = repositories
  BY DEF Work, Age, BeginFetch, SkipRound, SkipRequest, FetchSucceeds, FetchFails, EndGC
<1>1. ASSUME NEW i \in Positions \cup {0}, NEW err, Send(i, err), UNCHANGED <<rounds, cancel>>
      PROVE  RoundType'
  BY <1>1, SendFacts, SamePlaces DEF RoundType
<1>2. CASE BeginFetch(p)
  <2>1. Head(queue[p]) \in Tasks /\ QueueType'
    BY <1>0, <1>2, Picked DEF BeginFetch
  <2>2. Head(queue[p]) # NoTask
    BY <2>1, TaskKinds
  <2>3. PoolType'
    BY <1>0, <1>2, <2>1, <2>2, WorkerType DEF BeginFetch, PoolType
  <2> QED
    BY <1>2, <2>1, <2>3, RoundTypeKept, RequestTypeKept DEF BeginFetch
<1>3. CASE SkipRound(p)
  <2>1. Head(queue[p]) \in Tasks /\ QueueType'
    BY <1>0, <1>3, Picked DEF SkipRound
  <2>2. Head(queue[p]).kind = "round" /\ Head(queue[p]).i \in Positions \cup {0}
    BY <1>3, <2>1, TaskKinds DEF SkipRound
  <2>3. PoolType'
    BY <1>0, <1>3, <2>1, <2>2, EndsType DEF SkipRound, AfterFetch, Worker, Ends, PoolType
  <2>4. RoundType'
    BY <1>1, <1>3, <2>2 DEF SkipRound
  <2> QED
    BY <1>3, <2>1, <2>3, <2>4, RequestTypeKept DEF SkipRound
<1>4. CASE SkipRequest(p)
  <2>1. Head(queue[p]) \in Tasks /\ QueueType'
    BY <1>0, <1>4, Picked DEF SkipRequest
  <2>2. RequestType'
    BY <1>4 DEF SkipRequest, RequestType, Stages
  <2> QED
    BY <1>4, <2>1, <2>2, RoundTypeKept, PoolTypeKept DEF SkipRequest
<1>5. ASSUME NEW err, Brings(p), Tell(p, err), phase[p] = "fetch",
             UNCHANGED <<rounds, cancel, queue, pool, commands, done, answers, status>>,
             old' \in [Pools -> BOOLEAN], fetched' \subseteq Pools
      PROVE  TypeInv'
  <2>1. /\ task[p] \in Tasks /\ Ends(p, task[p])
        /\ \/ task[p].kind = "round" /\ Send(task[p].i, err) /\ at' = at
           \/ /\ task[p].kind = "request" /\ errorChan' = errorChan
              /\ at' = [at EXCEPT ![task[p].r] = "recheck"]
    BY <1>5, FetchEnds
  <2>2. PoolType'
    BY <1>0, <1>5, <2>1, EndsType
  <2>3. RoundType'
    <3>1. CASE task[p].kind = "round" /\ Send(task[p].i, err)
      <4>1. task[p].i \in Positions \cup {0}
        BY <2>1, <3>1, TaskKinds
      <4> QED
        BY <1>1, <1>5, <3>1, <4>1
    <3>2. CASE errorChan' = errorChan
      BY <1>5, <3>2, RoundTypeKept
    <3> QED
      BY <2>1, <3>1, <3>2
  <2>4. at' \in [Requests -> Stages]
    BY <2>1 DEF RequestType, Stages
  <2>5. RequestType'
    BY <1>5, <2>4, BringsType DEF RequestType
  <2> QED
    BY <1>0, <1>5, <2>2, <2>3, <2>5, QueueTypeKept
<1>6. CASE FetchSucceeds(p)
  <2>1. old' \in [Pools -> BOOLEAN]
    BY <1>6, Zenon DEF FetchSucceeds, PoolType
  <2>2. fetched' \subseteq Pools
    BY <1>6 DEF FetchSucceeds, PoolType
  <2> QED
    BY <1>5, <1>6, <2>1, <2>2 DEF FetchSucceeds
<1>7. CASE FetchFails(p)
  BY <1>5, <1>7 DEF FetchFails, PoolType
<1>8. CASE EndGC(p)
  <2>1. PICK err \in BOOLEAN : Send(task[p].i, err)
    BY <1>8 DEF EndGC
  <2>2. phase' = [phase EXCEPT ![p] = "idle"] /\ task' = [task EXCEPT ![p] = NoTask]
    BY <1>8 DEF EndGC, Worker
  <2>3. PoolType'
    BY <1>0, <1>8, <2>2, WorkerType DEF EndGC, PoolType
  <2>4. RoundType'
    <3>1. task[p] \in Tasks /\ task[p].kind = "round"
      BY <1>8 DEF EndGC, PoolType
    <3>2. task[p].i \in Positions \cup {0}
      BY <3>1, TaskKinds
    <3> QED
      BY <1>1, <1>8, <2>1, <3>2 DEF EndGC
  <2> QED
    BY <1>8, <2>3, <2>4, QueueTypeKept, RequestTypeKept DEF EndGC
<1>9. CASE Age(p)
  <2>1. old' \in [Pools -> BOOLEAN]
    BY <1>9, Zenon DEF Age, PoolType
  <2>2. PoolType'
    BY <1>9, <2>1, SamePlaces DEF Age, PoolType
  <2> QED
    BY <1>9, <2>2, RoundTypeKept, QueueTypeKept, RequestTypeKept DEF Age
<1> QED
  BY <1>2, <1>3, <1>4, <1>6, <1>7, <1>8, <1>9 DEF Work

(***************************************************************************)
(* The steps of the requests.                                              *)
(***************************************************************************)
\* What a handler may do to the rest: nothing, or submit the task of its request.
LEMMA HandlersAreQuiet ==
  ASSUME NEW r \in Requests, Authorize(r) \/ Handle(r) \/ NextRequest(r)
  PROVE  UNCHANGED Quiet /\ main = "serving" /\ at[r] # "wait" /\ (queue' = queue \/ Submit(r))
<1> USE DEF Go, Reject, Succeed, Fail, Stay
<1>1. CASE Authorize(r) \/ NextRequest(r)
  BY <1>1 DEF Authorize, NextRequest
<1>2. ASSUME NEW u \in Urls, Dispatch(r, u) \/ \E body \in Bodies : UploadPack(r, u, body)
      PROVE  UNCHANGED Quiet /\ main = "serving" /\ at[r] # "wait" /\ queue' = queue
  BY <1>2 DEF Dispatch, InfoRefs, ReceivePack, OtherPath, UploadPack, BadBody, OpenRepository
<1>3. CASE LsRefs(r) \/ Check(r) \/ CheckFails(r) \/ EndRequest(r)
  BY <1>3 DEF LsRefs, Check, CheckFails, EndRequest
<1>4. CASE Submit(r)
  BY <1>4 DEF Submit
<1>5. CASE Recheck(r) \/ ServeFetchLocal(r)
  BY <1>5 DEF Recheck, ServeFetchLocal
<1> QED
  BY <1>1, <1>2, <1>3, <1>4, <1>5 DEF Handle

\* A handler moves its own request, by one of these steps.
Refuse(r) ==
  \/ \E code \in Codes : Reject(r, "idle", code) \/ Reject(r, "handle", code)
Opens(r) == \E u \in Urls, body \in Bodies : OpenRepository(r, u, body)

\* These are all the steps of a handler.
LEMMA HandlerCases ==
  ASSUME NEW r \in Requests, Authorize(r) \/ Handle(r) \/ NextRequest(r)
  PROVE  \/ Refuse(r) \/ Opens(r) \/ NextRequest(r)
         \/ /\ Go(r, "idle", "handle")
            /\ UNCHANGED <<Quiet, queue, pool, commands, done, missing, answers, status>>
         \/ LsRefs(r) \/ Check(r) \/ CheckFails(r) \/ Submit(r)
         \/ Recheck(r) \/ ServeFetchLocal(r) \/ EndRequest(r)
<1>1. CASE Authorize(r)
  BY <1>1, CodesOfAuthorizers DEF Authorize, Refuse
<1>2. ASSUME NEW u \in Urls, Dispatch(r, u) PROVE Refuse(r)
  BY <1>2 DEF Dispatch, InfoRefs, ReceivePack, OtherPath, Refuse, Codes
<1>3. ASSUME NEW u \in Urls, NEW body \in Bodies, UploadPack(r, u, body) PROVE Refuse(r) \/ Opens(r)
  BY <1>3 DEF UploadPack, BadBody, Refuse, Opens, Codes
<1> QED
  BY <1>1, <1>2, <1>3 DEF Handle

\* The facts about a request that its stage rests on.
Same(q) ==
  /\ at'[q] = at[q] /\ pool'[q] = pool[q] /\ commands'[q] = commands[q] /\ done'[q] = done[q]
  /\ answers'[q] = answers[q] /\ status'[q] = status[q]

\* A request that nothing happens to keeps its stage.
LEMMA SameStage == ASSUME NEW q \in Requests, Same(q), Stage(q) PROVE Stage(q)'
<1>1. ToldAll(q)' = ToldAll(q) /\ Command(q)' = Command(q)
  BY DEF Same, ToldAll, Command
<1> QED
  BY <1>1 DEF Same, Stage

\* No command done: no answer.
LEMMA ToldNothing == ASSUME NEW r \in Requests, done[r] = 0 PROVE ToldAll(r) = <<>>
<1>1. 1..0 = {}
  OBVIOUS
<1> QED
  BY <1>1 DEF ToldAll

\* One more command done: one more answer.
LEMMA ToldOneMore ==
  ASSUME RequestType, NEW r \in Requests, done[r] < Len(commands[r]),
         done'[r] = done[r] + 1, commands'[r] = commands[r], answers[r] = ToldAll(r),
         answers'[r] = Append(answers[r], AnswerTo[Command(r)])
  PROVE  answers'[r] = ToldAll(r)'
<1>1. done[r] \in Nat
  BY DEF RequestType
<1>2. ToldAll(r)' = [i \in 1..(done[r] + 1) |-> AnswerTo[commands[r][i]]]
  BY DEF ToldAll
<1>3. answers[r] = [i \in 1..done[r] |-> AnswerTo[commands[r][i]]] /\ Len(answers[r]) = done[r]
  BY <1>1 DEF ToldAll
<1>4. answers'[r] = [i \in 1..(done[r] + 1) |-> IF i <= done[r] THEN answers[r][i] ELSE AnswerTo[Command(r)]]
  <2>1. answers[r] \in Seq(Packets)
    BY DEF RequestType
  <2> QED
    BY <1>1, <1>3, <2>1
<1>5. \A i \in 1..(done[r] + 1) :
        (IF i <= done[r] THEN answers[r][i] ELSE AnswerTo[Command(r)]) = AnswerTo[commands[r][i]]
  BY <1>1, <1>3 DEF Command
<1> QED
  BY <1>2, <1>4, <1>5

\* A command that succeeds.
LEMMA SucceedStage ==
  ASSUME RequestType, NEW r \in Requests, Stage(r), NEW from \in {"next", "serve"}, NEW packet \in Packets,
         Succeed(r, from, packet), done[r] < Len(commands[r]), packet = AnswerTo[Command(r)]
  PROVE  RequestType' /\ Stage(r)' /\ \A q \in Requests \ {r} : Same(q)
<1>0. Go(r, from, "next") /\ UNCHANGED <<pool, commands, status>>
  BY DEF Succeed, Stay
<1>1. /\ at[r] = from /\ at' = [at EXCEPT ![r] = "next"]
      /\ answers' = [answers EXCEPT ![r] = Append(@, packet)]
      /\ done' = [done EXCEPT ![r] = @ + 1]
      /\ missing' = [missing EXCEPT ![r] = FALSE]
  BY <1>0 DEF Succeed, Go
<1>2. missing' \in [Requests -> BOOLEAN]
  BY <1>1, Zenon DEF RequestType
<1>3. answers' \in [Requests -> Seq(Packets)] /\ answers'[r] = Append(answers[r], packet)
  BY <1>1 DEF RequestType
<1>4. RequestType'
  BY <1>0, <1>1, <1>2, <1>3 DEF RequestType, Stages
<1>5. answers'[r] = ToldAll(r)'
  BY <1>0, <1>1, <1>3, ToldOneMore DEF RequestType, Stage
<1>6. at'[r] = "next" /\ done'[r] = done[r] + 1 /\ done[r] \in Nat /\ Len(commands[r]) \in Nat
  BY <1>1 DEF RequestType
<1>7. Stage(r)'
  BY <1>0, <1>1, <1>5, <1>6 DEF Stage
<1>8. \A q \in Requests \ {r} : Same(q)
  BY <1>0, <1>1 DEF Same, RequestType
<1> QED
  BY <1>4, <1>7, <1>8

\* What a failing command writes, behind the answers before.
LEMMA Failure ==
  ASSUME NEW told, told \o <<>> = told, NEW packets \in {<<>>, <<"ERR">>, <<"part", "ERR">>}
  PROVE  told \o packets \in {told, told \o <<"ERR">>, told \o <<"part", "ERR">>}
OBVIOUS

\* A part of a pack and the error behind it.
LEMMA Pair == ASSUME NEW a, NEW b PROVE <<a>> \o <<b>> = <<a, b>>
<1> DEFINE s == <<a>> \o <<b>>
<1>1. s \in Seq({a, b}) /\ Len(s) = 2 /\ s[1] = a /\ s[2] = b
  OBVIOUS
<1>2. <<a, b>> \in Seq({a, b}) /\ Len(<<a, b>>) = 2 /\ <<a, b>>[1] = a /\ <<a, b>>[2] = b
  OBVIOUS
<1> HIDE DEF s
<1>3. \A i \in 1..2 : i = 1 \/ i = 2
  OBVIOUS
<1>4. \A i \in 1..Len(s) : s[i] = <<a, b>>[i]
  BY <1>1, <1>2, <1>3
<1>5. s = <<a, b>>
  BY <1>1, <1>2, <1>4, SeqEqual
<1> QED
  BY <1>5 DEF s

\* The first command that fails.
LEMMA FailStage ==
  ASSUME RequestType, NEW r \in Requests, Stage(r), NEW from \in {"next", "recheck", "serve"},
         NEW packets \in {<<>>, <<"ERR">>, <<"part", "ERR">>}, Fail(r, from, packets)
  PROVE  RequestType' /\ Stage(r)' /\ \A q \in Requests \ {r} : Same(q)
<1>0. Go(r, from, "done") /\ UNCHANGED <<pool, commands, status, done>>
  BY DEF Fail, Stay
<1>1. /\ at[r] = from /\ at' = [at EXCEPT ![r] = "done"]
      /\ answers' = [answers EXCEPT ![r] = @ \o packets]
      /\ missing' = [missing EXCEPT ![r] = FALSE]
  BY <1>0 DEF Fail, Go
<1>2. missing' \in [Requests -> BOOLEAN]
  BY <1>1, Zenon DEF RequestType
<1>3. answers[r] \in Seq(Packets) /\ packets \in Seq(Packets)
  <2>1. "part" \in Packets /\ "ERR" \in Packets
    BY DEF Packets
  <2>2. <<>> \in Seq(Packets) /\ <<"ERR">> \in Seq(Packets) /\ <<"part", "ERR">> \in Seq(Packets)
    BY <2>1
  <2>3. packets = <<>> \/ packets = <<"ERR">> \/ packets = <<"part", "ERR">>
    OBVIOUS
  <2> QED
    BY <2>2, <2>3 DEF RequestType
<1>4. answers' \in [Requests -> Seq(Packets)] /\ answers'[r] = answers[r] \o packets
  BY <1>1, <1>3 DEF RequestType
<1>5. RequestType'
  BY <1>0, <1>1, <1>2, <1>4 DEF RequestType, Stages
<1>6. answers[r] = ToldAll(r) /\ status[r] = 200 /\ ToldAll(r)' = ToldAll(r)
  BY <1>0, <1>1 DEF Stage, ToldAll
<1>7. answers'[r] \in {ToldAll(r), ToldAll(r) \o <<"ERR">>, ToldAll(r) \o <<"part", "ERR">>}
  <2>1. answers[r] \o <<>> = answers[r]
    BY <1>3
  <2>2. answers[r] \o packets \in {answers[r], answers[r] \o <<"ERR">>, answers[r] \o <<"part", "ERR">>}
    BY <2>1, Failure
  <2>3. answers'[r] \in {answers[r], answers[r] \o <<"ERR">>, answers[r] \o <<"part", "ERR">>}
    BY <1>4, <2>2
  <2> QED
    BY <1>6, <2>3
<1>8. at'[r] = "done" /\ status'[r] = 200
  BY <1>0, <1>1, <1>6 DEF RequestType
<1>9. Stage(r)'
  BY <1>0, <1>6, <1>7, <1>8 DEF Stage
<1>10. \A q \in Requests \ {r} : Same(q)
  BY <1>0, <1>1 DEF Same, RequestType
<1> QED
  BY <1>5, <1>9, <1>10

\* Every step of a handler.
LEMMA HandlerStep ==
  ASSUME TypeInv, StageInv, NEW r \in Requests, Authorize(r) \/ Handle(r) \/ NextRequest(r)
  PROVE  RequestType' /\ StageInv' /\ \A q \in Requests \ {r} : Same(q)
<1> USE DEF TypeInv
<1>0. SUFFICES RequestType' /\ Stage(r)' /\ \A q \in Requests \ {r} : Same(q)
  BY SameStage DEF StageInv
<1>1. Stage(r)
  BY DEF StageInv
<1>2. CASE Refuse(r)
  <2>1. PICK code \in Codes, from \in {"idle", "handle"} : Reject(r, from, code)
    BY <1>2 DEF Refuse
  <2>2. /\ at[r] = from /\ at' = [at EXCEPT ![r] = "done"]
        /\ status' = [status EXCEPT ![r] = HTTPStatusFromGrpcCode[code]]
        /\ UNCHANGED <<pool, commands, done, missing, answers>>
    BY <2>1 DEF Reject, Go
  <2>3. RequestType'
    BY <2>2, StatusOfCode DEF RequestType, Stages
  <2>4. pool[r] = NoPool /\ done[r] = 0 /\ answers[r] = <<>>
    BY <1>1, <2>2 DEF Stage
  <2>5. ToldAll(r)' = <<>> /\ at'[r] = "done"
    BY <2>2, <2>4, ToldNothing DEF ToldAll, RequestType
  <2>6. Stage(r)'
    BY <1>1, <2>2, <2>4, <2>5 DEF Stage
  <2>7. \A q \in Requests \ {r} : Same(q)
    BY <2>2 DEF Same, RequestType
  <2> QED
    BY <2>3, <2>6, <2>7
<1>3. CASE Opens(r)
  <2>1. PICK u \in Urls, body \in Bodies : OpenRepository(r, u, body)
    BY <1>3 DEF Opens
  <2>2. /\ at[r] = "handle" /\ at' = [at EXCEPT ![r] = "next"]
        /\ pool' = [pool EXCEPT ![r] = CachedAs[u]]
        /\ commands' = [commands EXCEPT ![r] = parseAllCommands(body)]
        /\ status' = [status EXCEPT ![r] = 200]
        /\ UNCHANGED <<done, missing, answers>>
    BY <2>1 DEF OpenRepository, Go
  <2>3. parseAllCommands(body) \in Seq({"ls-refs", "fetch"})
    BY <2>1, Parsed DEF OpenRepository
  <2>4. CachedAs[u] \in Pools
    BY DEF CachedAs, Pools, Range
  <2>5. 200 \in Range(HTTPStatusFromGrpcCode)
    BY StatusOfCode DEF Codes, HTTPStatusFromGrpcCode
  <2>6. RequestType'
    BY <2>2, <2>3, <2>4, <2>5 DEF RequestType, Stages
  <2>7. done[r] = 0 /\ answers[r] = <<>>
    BY <1>1, <2>2 DEF Stage
  <2>8. ToldAll(r)' = <<>>
    BY <2>2, <2>7, ToldNothing DEF ToldAll
  <2>9. /\ at'[r] = "next" /\ pool'[r] \in Pools /\ status'[r] = 200
        /\ done'[r] = 0 /\ Len(commands'[r]) \in Nat /\ answers'[r] = <<>>
    BY <2>2, <2>3, <2>4, <2>7 DEF RequestType
  <2>10. Stage(r)'
    BY <2>8, <2>9 DEF Stage
  <2>11. \A q \in Requests \ {r} : Same(q)
    BY <2>2 DEF Same, RequestType
  <2> QED
    BY <2>6, <2>10, <2>11
<1>4. CASE NextRequest(r)
  <2>1. /\ at' = [at EXCEPT ![r] = "idle"]
        /\ pool' = [pool EXCEPT ![r] = NoPool] /\ commands' = [commands EXCEPT ![r] = <<>>]
        /\ done' = [done EXCEPT ![r] = 0] /\ missing' = [missing EXCEPT ![r] = FALSE]
        /\ answers' = [answers EXCEPT ![r] = <<>>] /\ status' = [status EXCEPT ![r] = 0]
    BY <1>4 DEF NextRequest, Go
  <2>2. missing' \in [Requests -> BOOLEAN]
    BY <2>1, Zenon DEF RequestType
  <2>3. RequestType'
    BY <2>1, <2>2 DEF RequestType, Stages
  <2>4. /\ at'[r] = "idle" /\ pool'[r] = NoPool /\ status'[r] = 0 /\ done'[r] = 0
        /\ commands'[r] = <<>> /\ answers'[r] = <<>>
    BY <2>1 DEF RequestType
  <2>5. Stage(r)'
    BY <2>4 DEF Stage
  <2>6. \A q \in Requests \ {r} : Same(q)
    BY <2>1 DEF Same, RequestType
  <2> QED
    BY <2>3, <2>5, <2>6
<1>5. ASSUME NEW from \in Stages, NEW to \in Stages, Go(r, from, to),
             UNCHANGED <<pool, commands, done, answers, status>>, missing' \in [Requests -> BOOLEAN],
             (from = "idle" /\ to = "handle") \/ from \in {"next", "submit", "wait", "recheck", "serve"},
             to = "handle" => from = "idle", to # "idle",
             to \in {"submit", "wait", "recheck", "serve"} => done[r] < Len(commands[r]) /\ Command(r) = "fetch"
      PROVE  RequestType' /\ Stage(r)' /\ \A q \in Requests \ {r} : Same(q)
  <2>1. at[r] = from /\ at' = [at EXCEPT ![r] = to]
    BY <1>5 DEF Go
  <2>2. RequestType' /\ at'[r] = to
    BY <1>5, <2>1 DEF RequestType
  <2>3. ToldAll(r)' = ToldAll(r) /\ Command(r)' = Command(r)
    BY <1>5 DEF ToldAll, Command
  <2>4. Stage(r)'
    BY <1>1, <1>5, <2>1, <2>2, <2>3 DEF Stage
  <2>5. \A q \in Requests \ {r} : Same(q)
    BY <1>5, <2>1 DEF Same, RequestType
  <2> QED
    BY <2>2, <2>4, <2>5
<1>6. CASE Go(r, "idle", "handle") /\ UNCHANGED <<Quiet, queue, pool, commands, done, missing, answers, status>>
  BY <1>5, <1>6 DEF Stages, RequestType
<1>7. CASE LsRefs(r)
  <2>1. AnswerTo["ls-refs"] = "refs" /\ "refs" \in Packets
    BY DEF AnswerTo, Packets
  <2> QED
    BY <1>1, <1>7, <2>1, SucceedStage, FailStage DEF LsRefs
<1>8. CASE Check(r)
  <2>1. missing' \in [Requests -> BOOLEAN]
    <3>1. missing' = missing \/ missing' = [missing EXCEPT ![r] = TRUE]
      BY <1>8 DEF Check
    <3> QED
      BY <3>1, Zenon DEF RequestType
  <2>2. /\ done[r] < Len(commands[r]) /\ Command(r) = "fetch"
        /\ Go(r, "next", "serve") \/ Go(r, "next", "submit")
        /\ UNCHANGED <<pool, commands, done, answers, status>>
    BY <1>8 DEF Check, Stay
  <2> QED
    BY <1>5, <2>1, <2>2 DEF Stages
<1>9. CASE CheckFails(r)
  BY <1>1, <1>9, FailStage DEF CheckFails
<1>10. CASE Submit(r)
  <2>1. Go(r, "submit", "wait") /\ UNCHANGED <<pool, commands, done, missing, answers, status>>
    BY <1>10 DEF Submit, Stay
  <2>2. at[r] = "submit"
    BY <2>1 DEF Go
  <2>3. done[r] < Len(commands[r]) /\ Command(r) = "fetch"
    BY <1>1, <2>2 DEF Stage
  <2> QED
    BY <1>5, <2>1, <2>3 DEF Stages, RequestType
<1>11. CASE Recheck(r)
  <2>1. CASE Go(r, "recheck", "serve") /\ UNCHANGED <<Stay, queue, done, missing, answers>>
    <3>1. at[r] = "recheck"
      BY <2>1 DEF Go
    <3>2. done[r] < Len(commands[r]) /\ Command(r) = "fetch"
      BY <1>1, <3>1 DEF Stage
    <3> QED
      BY <1>5, <2>1, <3>2 DEF Stages, RequestType, Stay
  <2>2. CASE Fail(r, "recheck", <<"ERR">>) \/ Fail(r, "recheck", <<>>)
    BY <1>1, <2>2, FailStage
  <2> QED
    BY <1>11, <2>1, <2>2 DEF Recheck
<1>12. CASE ServeFetchLocal(r)
  <2>1. AnswerTo["fetch"] = "pack" /\ "pack" \in Packets
    BY DEF AnswerTo, Packets
  <2>2. CASE Succeed(r, "serve", "pack")
    <3>1. at[r] = "serve"
      BY <2>2 DEF Succeed, Go
    <3>2. done[r] < Len(commands[r]) /\ Command(r) = "fetch"
      BY <1>1, <3>1 DEF Stage
    <3> QED
      BY <1>1, <2>1, <2>2, <3>2, SucceedStage
  <2>3. CASE \E written \in {<<>>, <<"part">>} : Fail(r, "serve", written \o <<"ERR">>)
    <3>1. <<>> \o <<"ERR">> = <<"ERR">>
      OBVIOUS
    <3>2. <<"part">> \o <<"ERR">> = <<"part", "ERR">>
      BY Pair
    <3> QED
      BY <1>1, <2>3, <3>1, <3>2, FailStage
  <2> QED
    BY <1>12, <2>2, <2>3 DEF ServeFetchLocal
<1>13. CASE EndRequest(r)
  BY <1>5, <1>13 DEF EndRequest, Stay, Stages, RequestType
<1> QED
  BY <1>2, <1>3, <1>4, <1>6, <1>7, <1>8, <1>9, <1>10, <1>11, <1>12, <1>13, HandlerCases

(***************************************************************************)
(* Jobs.  A job is done once: no two of the tasks that wait for a pool or  *)
(* fetch in it are for the same repository of a round or the same request. *)
(***************************************************************************)
Job(t) == IF t.kind = "round" THEN <<"round", t.i>> ELSE <<"request", t.r>>

WaitOnce == \A p \in Pools : \A i, j \in DOMAIN queue[p] : Job(queue[p][i]) = Job(queue[p][j]) => i = j
RunOnce == \A p \in Pools : phase[p] = "fetch" => \A j \in DOMAIN queue[p] : Job(queue[p][j]) # Job(task[p])
JobInv == WaitOnce /\ RunOnce

\* The fetches that run after the step ran before it.
SameFetches(P) == \A q \in P : phase'[q] = "fetch" => phase[q] = "fetch" /\ task'[q] = task[q]

\* No task is submitted or picked up.
LEMMA JobsStay == ASSUME JobInv, queue' = queue, SameFetches(Pools) PROVE JobInv'
BY DEF JobInv, WaitOnce, RunOnce, SameFetches

\* The worker of one pool picks up its first task.
LEMMA JobsTaken ==
  ASSUME QueueType, JobInv, NEW p \in Pools, PickUp(p), repositories' = repositories,
         SameFetches(Pools \ {p}), phase'[p] = "fetch" => task'[p] = Head(queue[p])
  PROVE  JobInv'
<1>1. /\ 1 \in DOMAIN queue[p] /\ Head(queue[p]) = queue[p][1]
      /\ \A q \in Pools : q # p => queue'[q] = queue[q]
      /\ \A j \in DOMAIN queue'[p] :
           j \in Nat \ {0} /\ j + 1 \in DOMAIN queue[p] /\ queue'[p][j] = queue[p][j + 1]
  BY Picked
<1>2. WaitOnce'
  <2> SUFFICES ASSUME NEW q \in Pools, NEW i \in DOMAIN queue'[q], NEW j \in DOMAIN queue'[q],
                      Job(queue'[q][i]) = Job(queue'[q][j])
               PROVE  i = j
    BY DEF WaitOnce, Job
  <2>1. CASE q # p
    BY <1>1, <2>1 DEF JobInv, WaitOnce
  <2>2. CASE q = p
    <3>1. i + 1 \in DOMAIN queue[p] /\ j + 1 \in DOMAIN queue[p] /\ Job(queue[p][i + 1]) = Job(queue[p][j + 1])
      BY <1>1, <2>2
    <3>2. i + 1 = j + 1 /\ i \in Nat /\ j \in Nat
      BY <1>1, <2>2, <3>1 DEF JobInv, WaitOnce
    <3> QED
      BY <3>2
  <2> QED
    BY <2>1, <2>2
<1>3. RunOnce'
  <2> SUFFICES ASSUME NEW q \in Pools, phase'[q] = "fetch", NEW j \in DOMAIN queue'[q]
               PROVE  Job(queue'[q][j]) # Job(task'[q])
    BY DEF RunOnce, Job
  <2>1. CASE q # p
    BY <1>1, <2>1 DEF JobInv, RunOnce, SameFetches
  <2>2. CASE q = p
    <3>1. j + 1 \in DOMAIN queue[p] /\ queue'[p][j] = queue[p][j + 1] /\ j + 1 # 1 /\ task'[p] = queue[p][1]
      BY <1>1, <2>2
    <3>2. Job(queue[p][j + 1]) # Job(queue[p][1])
      BY <1>1, <3>1 DEF JobInv, WaitOnce
    <3> QED
      BY <2>2, <3>1, <3>2
  <2> QED
    BY <2>1, <2>2
<1> QED
  BY <1>2, <1>3 DEF JobInv

\* A task is submitted whose job neither waits nor runs.
LEMMA JobsAdded ==
  ASSUME QueueType, JobInv, NEW p \in Pools, NEW t \in Tasks, Len(queue[p]) < QueueCap,
         queue' = [queue EXCEPT ![p] = Append(@, t)], repositories' = repositories,
         UNCHANGED <<phase, task>>,
         \A j \in DOMAIN queue[p] : Job(queue[p][j]) # Job(t),
         phase[p] = "fetch" => Job(task[p]) # Job(t)
  PROVE  JobInv'
<1>1. /\ \A q \in Pools : q # p => queue'[q] = queue[q]
      /\ \A j \in DOMAIN queue'[p] :
           \/ j \in DOMAIN queue[p] /\ queue'[p][j] = queue[p][j]
           \/ j = Len(queue[p]) + 1 /\ queue'[p][j] = t
  BY Added
<1>2. WaitOnce'
  <2> SUFFICES ASSUME NEW q \in Pools, NEW i \in DOMAIN queue'[q], NEW j \in DOMAIN queue'[q],
                      Job(queue'[q][i]) = Job(queue'[q][j])
               PROVE  i = j
    BY DEF WaitOnce, Job
  <2>1. CASE q # p
    BY <1>1, <2>1 DEF JobInv, WaitOnce
  <2>2. CASE q = p
    BY <1>1, <2>2 DEF JobInv, WaitOnce
  <2> QED
    BY <2>1, <2>2
<1>3. RunOnce'
  <2> SUFFICES ASSUME NEW q \in Pools, phase'[q] = "fetch", NEW j \in DOMAIN queue'[q]
               PROVE  Job(queue'[q][j]) # Job(task'[q])
    BY DEF RunOnce, Job
  <2>1. CASE q # p
    BY <1>1, <2>1 DEF JobInv, RunOnce
  <2>2. CASE q = p
    BY <1>1, <2>2 DEF JobInv, RunOnce
  <2> QED
    BY <2>1, <2>2
<1> QED
  BY <1>2, <1>3 DEF JobInv

\* What waits after the step waited before it.
FromQueue == \A q \in Pools : \A j \in DOMAIN queue'[q] : \E l \in DOMAIN queue[q] : queue'[q][j] = queue[q][l]

\* What fetches after the step did so before it, or was picked up.
FromWorker ==
  \A q \in Pools : phase'[q] = "fetch" =>
    \/ phase[q] = "fetch" /\ task'[q] = task[q]
    \/ \E l \in DOMAIN queue[q] : task'[q] = queue[q][l]

\* Tasks move from the queue to the worker while their requests wait.
LEMMA AskStays == ASSUME AskInv, FromQueue, FromWorker, UNCHANGED <<at, pool>> PROVE AskInv'
<1>1. \A q \in Pools : \A j \in DOMAIN queue'[q] : queue'[q][j].kind = "request" =>
        at[queue'[q][j].r] = "wait" /\ pool[queue'[q][j].r] = q
  BY DEF AskInv, FromQueue
<1>2. \A q \in Pools : phase'[q] = "fetch" /\ task'[q].kind = "request" =>
        at[task'[q].r] = "wait" /\ pool[task'[q].r] = q
  BY DEF AskInv, FromWorker
<1> QED
  BY <1>1, <1>2 DEF AskInv

\* The request r of pool p is woken: no task of r is left.
LEMMA AskWoken ==
  ASSUME TypeInv, TypeInv', AskInv, FromQueue, SameFetches(Pools), NEW p \in Pools, NEW r \in Requests,
         pool[r] = p, phase'[p] # "fetch", at' = [at EXCEPT ![r] = "recheck"], pool' = pool,
         \A j \in DOMAIN queue'[p] : queue'[p][j].kind = "request" => queue'[p][j].r # r
  PROVE  AskInv'
<1>0. \A q \in Requests : q # r => at'[q] = at[q]
  BY DEF TypeInv, RequestType
<1>1. ASSUME NEW q \in Pools, NEW j \in DOMAIN queue'[q], queue'[q][j].kind = "request"
      PROVE  at'[queue'[q][j].r] = "wait" /\ pool[queue'[q][j].r] = q
  <2>1. PICK l \in DOMAIN queue[q] : queue'[q][j] = queue[q][l]
    BY DEF FromQueue
  <2>2. queue[q][l] \in Tasks
    BY DEF TypeInv, QueueType
  <2>3. queue[q][l].r \in Requests
    BY <1>1, <2>1, <2>2, TaskKinds
  <2>4. at[queue[q][l].r] = "wait" /\ pool[queue[q][l].r] = q
    BY <1>1, <2>1 DEF AskInv
  <2>5. queue[q][l].r # r
    BY <1>1, <2>1, <2>4
  <2> QED
    BY <1>0, <2>1, <2>3, <2>4, <2>5
<1>2. ASSUME NEW q \in Pools, phase'[q] = "fetch", task'[q].kind = "request"
      PROVE  at'[task'[q].r] = "wait" /\ pool[task'[q].r] = q
  <2>1. phase[q] = "fetch" /\ task'[q] = task[q] /\ task[q] \in Tasks /\ q # p
    BY <1>2 DEF SameFetches, TypeInv, PoolType
  <2>2. task[q].r \in Requests /\ at[task[q].r] = "wait" /\ pool[task[q].r] = q
    BY <1>2, <2>1, TaskKinds DEF AskInv
  <2> QED
    BY <1>0, <2>1, <2>2
<1> QED
  BY <1>1, <1>2 DEF AskInv

(***************************************************************************)
(* A round.  The job of repository i is open from its Submit to the first  *)
(* value on its channel; after that only git gc goes on.                   *)
(***************************************************************************)
\* FetchRepositories has passed repository i on this round and has not read its channel,
\* or it has.
UnderWay(i) == (loop \in {"decide", "submit"} /\ i < k) \/ (loop = "receive" /\ i >= k)
Read(i) == loop = "receive" /\ i < k

Open(i) == UnderWay(i) /\ errorChan[i] = <<>>
Told(i) == (UnderWay(i) /\ errorChan[i] # <<>>) \/ Read(i)

\* t is the task of an open repository of the pool p; only the pre-fetch must fetch.
OpenTask(p, t) ==
  /\ t.i \in Positions /\ PoolOf(t.i) = p /\ Open(t.i)
  /\ main # "serving" => t.must
  /\ main = "serving" => ~t.must

\* The tasks of rounds that wait, fetch, and run git gc; the channels of repositories that
\* the round has not come to; main and the loop.
WaitInv == \A p \in Pools : \A j \in DOMAIN queue[p] : queue[p][j].kind = "round" => OpenTask(p, queue[p][j])
FetchInv == \A p \in Pools : phase[p] = "fetch" /\ task[p].kind = "round" => OpenTask(p, task[p])
GCInv == \A p \in Pools : phase[p] = "gc" /\ task[p].i # 0 => task[p].i \in Positions /\ Told(task[p].i)
ChanInv == \A i \in Positions : ~UnderWay(i) /\ ~Read(i) => errorChan[i] = <<>>
MainInv ==
  /\ loop \in {"select", "stopped"} => main # "prefetch" /\ k = 1 /\ ~errors
  /\ main = "starting" => loop = "select"
  /\ loop = "decide" => main = "serving"
  /\ main = "exited" /\ loop # "select" =>
       loop = "receive" /\ k = Len(repositories) /\ (errors \/ errorChan[k] = <<"err">>)

\* What a nil means to the pre-fetch.
NilInv ==
  main = "prefetch" =>
    \A i \in Positions :
      /\ UnderWay(i) /\ errorChan[i] = <<"nil">> => PoolOf(i) \in fetched
      /\ Read(i) /\ ~errors => PoolOf(i) \in fetched

RoundInv == WaitInv /\ FetchInv /\ GCInv /\ ChanInv /\ MainInv /\ NilInv /\ PrefetchComplete

(***************************************************************************)
(* Steps that leave the loop where it is: i is the repository whose        *)
(* channel gets a value, 0 if none does.                                   *)
(***************************************************************************)
\* The round tasks after the step waited or fetched before it, and none of them is for i.
RoundTasksFrom(i) ==
  /\ \A q \in Pools : \A j \in DOMAIN queue'[q] : queue'[q][j].kind = "round" =>
       queue'[q][j].i # i /\ \E l \in DOMAIN queue[q] : queue'[q][j] = queue[q][l]
  /\ \A q \in Pools : phase'[q] = "fetch" /\ task'[q].kind = "round" =>
       /\ task'[q].i # i
       /\ \/ phase[q] = "fetch" /\ task'[q] = task[q]
          \/ \E l \in DOMAIN queue[q] : task'[q] = queue[q][l]
  /\ \A q \in Pools : phase'[q] = "gc" => (phase[q] = "gc" /\ task'[q] = task[q]) \/ task'[q].i = i

\* Such a step keeps what is known of the round.
LEMMA RoundInvKept ==
  ASSUME TypeInv, RoundInv, UNCHANGED rounds, NEW i \in Positions \cup {0},
         \A j \in Positions : j # i => errorChan'[j] = errorChan[j],
         i # 0 => errorChan[i] = <<>> /\ errorChan'[i] # <<>> /\ (Open(i) \/ Told(i)),
         i # 0 => main # "exited",
         RoundTasksFrom(i),
         i # 0 /\ main = "prefetch" /\ UnderWay(i) /\ errorChan'[i] = <<"nil">> => PoolOf(i) \in fetched',
         fetched \subseteq fetched'
  PROVE  RoundInv'
<1>0. repositories' = repositories /\ main' = main /\ loop' = loop /\ k' = k /\ errors' = errors
  BY DEF rounds
<1>1. Positions' = Positions /\ (\A j : PoolOf(j)' = PoolOf(j))
  BY <1>0, SamePlaces
<1>2. (\A j : UnderWay(j)' <=> UnderWay(j)) /\ (\A j : Read(j)' <=> Read(j))
  BY <1>0 DEF UnderWay, Read
<1>3. \A j \in Positions : j # 0
  BY Places DEF TypeInv, RoundType
<1>4. \A j \in Positions : j # i => (Open(j)' <=> Open(j))
  BY <1>2 DEF Open
<1>5. \A j \in Positions : Told(j) => Told(j)'
  BY <1>2, <1>3 DEF Told
<1>6. \A q, t : OpenTask(q, t) /\ t.i # i => OpenTask(q, t)'
  BY <1>0, <1>1, <1>4 DEF OpenTask
<1>7. WaitInv'
  <2> SUFFICES ASSUME NEW q \in Pools, NEW j \in DOMAIN queue'[q], NEW t, t = queue'[q][j], t.kind = "round"
               PROVE  OpenTask(q, t)'
    BY <1>0 DEF WaitInv
  <2>1. t.i # i /\ OpenTask(q, t)
    BY DEF RoundTasksFrom, RoundInv, WaitInv
  <2> QED
    BY <1>6, <2>1
<1>8. FetchInv'
  <2> SUFFICES ASSUME NEW q \in Pools, phase'[q] = "fetch", NEW t, t = task'[q], t.kind = "round"
               PROVE  OpenTask(q, t)'
    BY <1>0 DEF FetchInv
  <2>1. t.i # i /\ OpenTask(q, t)
    BY DEF RoundTasksFrom, RoundInv, WaitInv, FetchInv
  <2> QED
    BY <1>6, <2>1
<1>9. GCInv'
  <2> SUFFICES ASSUME NEW q \in Pools, phase'[q] = "gc", NEW t, t = task'[q], t.i # 0
               PROVE  t.i \in Positions' /\ Told(t.i)'
    BY DEF GCInv
  <2>1. CASE t.i = i
    BY <1>1, <1>2, <2>1 DEF Told, Open
  <2>2. CASE t.i # i
    BY <1>1, <1>5, <2>2 DEF RoundTasksFrom, RoundInv, GCInv
  <2> QED
    BY <2>1, <2>2
<1>10. ChanInv'
  BY <1>1, <1>2, <1>3 DEF RoundInv, ChanInv, Open, Told
<1>11. MainInv'
  <2>1. main = "exited" /\ loop # "select" => errorChan'[k] = errorChan[k]
    BY DEF TypeInv, RoundType, RoundInv, MainInv
  <2> QED
    BY <1>0, <2>1 DEF RoundInv, MainInv
<1>12. NilInv'
  BY <1>0, <1>1, <1>2, <1>3 DEF RoundInv, NilInv
<1>13. PrefetchComplete'
  BY <1>0, <1>1 DEF RoundInv, PrefetchComplete, Configured
<1> QED
  BY <1>7, <1>8, <1>9, <1>10, <1>11, <1>12, <1>13 DEF RoundInv

(***************************************************************************)
(* The inductive invariant, and the steps of the workers.                  *)
(***************************************************************************)
Inv == TypeInv /\ StageInv /\ AskInv /\ JobInv /\ RoundInv

\* A request that is woken goes on where it waited.
LEMMA WokenStage ==
  ASSUME TypeInv, StageInv, NEW r \in Requests, at[r] = "wait", at' = [at EXCEPT ![r] = "recheck"],
         UNCHANGED <<pool, commands, done, answers, status>>
  PROVE  StageInv'
<1>1. at'[r] = "recheck" /\ \A q \in Requests \ {r} : Same(q)
  BY DEF TypeInv, RequestType, Same
<1>2. ToldAll(r)' = ToldAll(r) /\ Command(r)' = Command(r)
  BY DEF ToldAll, Command
<1>3. Stage(r)'
  BY <1>1, <1>2 DEF StageInv, Stage
<1> QED
  BY <1>1, <1>3, SameStage DEF StageInv

\* A step that touches no request keeps the stages.
LEMMA StagesStay ==
  ASSUME StageInv, UNCHANGED <<at, pool, commands, done, answers, status>> PROVE StageInv'
<1>1. \A q \in Requests : Same(q)
  BY DEF Same
<1> QED
  BY <1>1, SameStage DEF StageInv

\* The first waiting task is picked up.
LEMMA FirstTask ==
  ASSUME Inv, NEW p \in Pools, PickUp(p), repositories' = repositories
  PROVE  /\ FromQueue
         /\ Head(queue[p]) \in Tasks /\ \E l \in DOMAIN queue[p] : Head(queue[p]) = queue[p][l]
         /\ \A j \in DOMAIN queue'[p] : Job(queue'[p][j]) # Job(Head(queue[p]))
         /\ \A q \in Pools : q # p => queue'[q] = queue[q]
         /\ main # "exited" /\ phase[p] = "idle"
<1>1. /\ main # "exited" /\ phase[p] = "idle"
      /\ 1 \in DOMAIN queue[p] /\ Head(queue[p]) = queue[p][1] /\ Head(queue[p]) \in Tasks
      /\ \A q \in Pools : q # p => queue'[q] = queue[q]
      /\ \A j \in DOMAIN queue'[p] :
           j \in Nat \ {0} /\ j + 1 \in DOMAIN queue[p] /\ queue'[p][j] = queue[p][j + 1]
  BY Picked DEF Inv, TypeInv
<1>2. FromQueue
  BY <1>1 DEF FromQueue
<1>3. ASSUME NEW j \in DOMAIN queue'[p] PROVE Job(queue'[p][j]) # Job(Head(queue[p]))
  <2>1. j + 1 \in DOMAIN queue[p] /\ queue'[p][j] = queue[p][j + 1] /\ j + 1 # 1
    BY <1>1
  <2> QED
    BY <1>1, <2>1 DEF Inv, JobInv, WaitOnce
<1> QED
  BY <1>1, <1>2, <1>3

\* No round task waits for, or fetches in, another pool, or this one, for repository i.
LEMMA OtherRounds ==
  ASSUME Inv, NEW p \in Pools, NEW i \in Positions, PoolOf(i) = p, NEW q \in Pools, q # p
  PROVE  /\ \A l \in DOMAIN queue[q] : queue[q][l].kind = "round" => queue[q][l].i # i
         /\ phase[q] = "fetch" /\ task[q].kind = "round" => task[q].i # i
BY DEF Inv, RoundInv, WaitInv, FetchInv, OpenTask

\* Tasks of rounds are the same job when they are for the same repository.
LEMMA RoundJobs == \A t, u : t.kind = "round" /\ u.kind = "round" /\ t.i = u.i => Job(t) = Job(u)
BY DEF Job

\* And tasks of requests when they are of the same request.
LEMMA RequestJobs == \A t, u : t.kind = "request" /\ u.kind = "request" /\ t.r = u.r => Job(t) = Job(u)
BY DEF Job

\* What the end of a fetch does to the invariant.
LEMMA EndOfFetch ==
  ASSUME Inv, TypeInv', NEW p \in Pools, NEW err \in BOOLEAN, Tell(p, err), phase[p] = "fetch",
         UNCHANGED <<rounds, queue, pool, commands, done, answers, status>>,
         main # "exited", fetched \subseteq fetched', ~err => p \in fetched'
  PROVE  Inv'
<1> USE DEF Inv
<1>1. /\ task[p] \in Tasks /\ Ends(p, task[p])
      /\ \/ task[p].kind = "round" /\ Send(task[p].i, err) /\ at' = at
         \/ /\ task[p].kind = "request" /\ errorChan' = errorChan
            /\ at' = [at EXCEPT ![task[p].r] = "recheck"]
  BY FetchEnds
<1>2. /\ phase'[p] # "fetch" /\ (phase'[p] = "gc" => task'[p] = task[p])
      /\ \A q \in Pools \ {p} : phase'[q] = phase[q] /\ task'[q] = task[q]
  BY <1>1 DEF Ends, TypeInv, PoolType
<1>3. SameFetches(Pools) /\ FromQueue /\ FromWorker
  BY <1>2 DEF SameFetches, FromQueue, FromWorker
<1>4. JobInv'
  BY <1>3, JobsStay
<1>5. \A j \in DOMAIN queue[p] : Job(queue[p][j]) # Job(task[p])
  BY DEF JobInv, RunOnce
<1>6. CASE task[p].kind = "round" /\ Send(task[p].i, err) /\ at' = at
  <2>1. OpenTask(p, task[p])
    BY <1>6 DEF RoundInv, FetchInv
  <2>2. task[p].i \in Positions /\ PoolOf(task[p].i) = p /\ Open(task[p].i)
    BY <2>1 DEF OpenTask
  <2>3. task[p].i # 0
    BY <2>2, Places DEF TypeInv, RoundType
  <2>4. /\ errorChan[task[p].i] = <<>> /\ errorChan'[task[p].i] = IF err THEN <<"err">> ELSE <<"nil">>
        /\ \A j \in Positions : j # task[p].i => errorChan'[j] = errorChan[j]
    BY <1>6, <2>2, <2>3, SendFacts DEF TypeInv
  <2>5. errorChan'[task[p].i] # <<>> /\ (errorChan'[task[p].i] = <<"nil">> => ~err)
    <3>1. <<"err">> # <<>> /\ <<"nil">> # <<>> /\ <<"err">> # <<"nil">>
      OBVIOUS
    <3> QED
      BY <2>4, <3>1
  <2>6. RoundTasksFrom(task[p].i)
    <3>1. \A l \in DOMAIN queue[p] : queue[p][l].kind = "round" => queue[p][l].i # task[p].i
      BY <1>5, <1>6, RoundJobs
    <3>2. \A q \in Pools : q # p =>
            /\ \A l \in DOMAIN queue[q] : queue[q][l].kind = "round" => queue[q][l].i # task[p].i
            /\ phase[q] = "fetch" /\ task[q].kind = "round" => task[q].i # task[p].i
      BY <2>2, OtherRounds
    <3> QED
      BY <1>2, <3>1, <3>2 DEF RoundTasksFrom
  <2>7. RoundInv'
    BY <2>2, <2>3, <2>4, <2>5, <2>6, RoundInvKept
  <2>8. StageInv' /\ AskInv'
    BY <1>3, <1>6, StagesStay, AskStays
  <2> QED
    BY <1>4, <2>7, <2>8
<1>7. CASE task[p].kind = "request" /\ errorChan' = errorChan /\ at' = [at EXCEPT ![task[p].r] = "recheck"]
  <2>1. task[p].r \in Requests /\ at[task[p].r] = "wait" /\ pool[task[p].r] = p
    BY <1>1, <1>7, TaskKinds DEF AskInv
  <2>2. StageInv'
    BY <1>7, <2>1, WokenStage
  <2>3. \A j \in DOMAIN queue[p] : queue[p][j].kind = "request" => queue[p][j].r # task[p].r
    BY <1>5, <1>7, RequestJobs
  <2>4. AskInv'
    BY <1>2, <1>3, <1>7, <2>1, <2>3, AskWoken
  <2>5. RoundTasksFrom(0)
    <3>1. \A q \in Pools : q # p \/ task[q].kind # "round"
      BY <1>7
    <3>2. phase'[p] # "gc"
      BY <1>1, <1>7 DEF Ends, TypeInv, PoolType
    <3>3. 0 \notin Positions
      BY Places DEF TypeInv, RoundType
    <3>4. \A q \in Pools : \A l \in DOMAIN queue[q] : queue[q][l].kind = "round" => queue[q][l].i # 0
      BY <3>3 DEF RoundInv, WaitInv, OpenTask
    <3>5. \A q \in Pools : phase[q] = "fetch" /\ task[q].kind = "round" => task[q].i # 0
      BY <3>3 DEF RoundInv, FetchInv, OpenTask
    <3> QED
      BY <1>2, <3>2, <3>4, <3>5 DEF RoundTasksFrom
  <2>6. RoundInv'
    BY <1>7, <2>5, RoundInvKept
  <2> QED
    BY <1>4, <2>2, <2>4, <2>6
<1> QED
  BY <1>1, <1>6, <1>7

\* The channel of a task of a round that waits or fetches is one of this round.
LEMMA InThisRound ==
  ASSUME TypeInv, RoundInv
  PROVE  /\ \A q \in Pools : \A l \in DOMAIN queue[q] : queue[q][l].kind = "round" => queue[q][l].i # 0
         /\ \A q \in Pools : phase[q] = "fetch" /\ task[q].kind = "round" => task[q].i # 0
<1>1. 0 \notin Positions
  BY Places DEF TypeInv, RoundType
<1> QED
  BY <1>1 DEF RoundInv, WaitInv, FetchInv, OpenTask

\* A step that sends nothing to a channel.
LEMMA NothingSent ==
  ASSUME TypeInv, RoundInv, UNCHANGED <<rounds, errorChan>>, FromQueue, FromWorker,
         \A q \in Pools : phase'[q] = "gc" => phase[q] = "gc" /\ task'[q] = task[q],
         fetched \subseteq fetched'
  PROVE  RoundInv'
<1>1. RoundTasksFrom(0)
  <2>1. \A q \in Pools : \A j \in DOMAIN queue'[q] : queue'[q][j].kind = "round" =>
          queue'[q][j].i # 0 /\ \E l \in DOMAIN queue[q] : queue'[q][j] = queue[q][l]
    BY InThisRound DEF FromQueue
  <2>2. \A q \in Pools : phase'[q] = "fetch" /\ task'[q].kind = "round" =>
          /\ task'[q].i # 0
          /\ \/ phase[q] = "fetch" /\ task'[q] = task[q]
             \/ \E l \in DOMAIN queue[q] : task'[q] = queue[q][l]
    BY InThisRound DEF FromWorker
  <2> QED
    BY <2>1, <2>2 DEF RoundTasksFrom
<1> QED
  BY <1>1, RoundInvKept

\* A worker begins a fetch.
LEMMA BeginStep ==
  ASSUME Inv, TypeInv', NEW p \in Pools, BeginFetch(p)
  PROVE  Inv'
<1> USE DEF Inv
<1>1. /\ PickUp(p) /\ task' = [task EXCEPT ![p] = Head(queue[p])] /\ phase' = [phase EXCEPT ![p] = "fetch"]
      /\ UNCHANGED <<rounds, errorChan, fetched, requests>>
  BY DEF BeginFetch
<1>2. repositories' = repositories
  BY <1>1 DEF rounds
<1>3. FromQueue /\ \E l \in DOMAIN queue[p] : Head(queue[p]) = queue[p][l]
  BY <1>1, <1>2, FirstTask
<1>4. /\ phase'[p] = "fetch" /\ task'[p] = Head(queue[p])
      /\ \A q \in Pools : q # p => phase'[q] = phase[q] /\ task'[q] = task[q]
  BY <1>1 DEF TypeInv, PoolType
<1>5. FromWorker /\ SameFetches(Pools \ {p})
  BY <1>3, <1>4 DEF FromWorker, SameFetches
<1>6. JobInv'
  BY <1>1, <1>2, <1>4, <1>5, JobsTaken DEF TypeInv
<1>7. StageInv' /\ AskInv'
  BY <1>1, <1>3, <1>5, StagesStay, AskStays DEF requests
<1>8. \A q \in Pools : phase'[q] = "gc" => phase[q] = "gc" /\ task'[q] = task[q]
  BY <1>4
<1>9. RoundInv'
  BY <1>1, <1>3, <1>5, <1>8, NothingSent
<1> QED
  BY <1>6, <1>7, <1>9

\* A worker finds that the repository has been fetched in the meantime.
LEMMA SkipRoundStep ==
  ASSUME Inv, TypeInv', NEW p \in Pools, SkipRound(p)
  PROVE  Inv'
<1> USE DEF Inv
<1> DEFINE t == Head(queue[p])
<1>1. /\ PickUp(p) /\ t.kind = "round" /\ ~Needed(p, t) /\ Send(t.i, FALSE) /\ AfterFetch(p, t)
      /\ UNCHANGED <<rounds, fetched, requests>>
  BY DEF SkipRound
<1>2. repositories' = repositories
  BY <1>1 DEF rounds
<1>3. /\ FromQueue /\ t \in Tasks /\ \E l \in DOMAIN queue[p] : t = queue[p][l]
      /\ \A j \in DOMAIN queue'[p] : Job(queue'[p][j]) # Job(t)
      /\ \A q \in Pools : q # p => queue'[q] = queue[q]
      /\ main # "exited"
  BY <1>1, <1>2, FirstTask
<1>4. /\ phase'[p] # "fetch" /\ (phase'[p] = "gc" => task'[p] = t)
      /\ \A q \in Pools : q # p => phase'[q] = phase[q] /\ task'[q] = task[q]
  BY <1>1 DEF AfterFetch, Worker, TypeInv, PoolType
<1> HIDE DEF t
<1>5. FromWorker /\ SameFetches(Pools) /\ SameFetches(Pools \ {p})
  BY <1>4 DEF FromWorker, SameFetches
<1>6. JobInv'
  BY <1>1, <1>2, <1>4, <1>5, JobsTaken DEF TypeInv
<1>7. StageInv' /\ AskInv'
  BY <1>1, <1>3, <1>5, StagesStay, AskStays DEF requests
<1>8. OpenTask(p, t)
  BY <1>1, <1>3 DEF RoundInv, WaitInv
<1>9. t.i \in Positions /\ PoolOf(t.i) = p /\ Open(t.i)
  BY <1>8 DEF OpenTask
<1>10. main # "prefetch"
  BY <1>1, <1>8 DEF OpenTask, Needed
<1>11. t.i # 0
  BY <1>9, Places DEF TypeInv, RoundType
<1>12. /\ errorChan[t.i] = <<>> /\ errorChan'[t.i] = <<"nil">>
       /\ \A j \in Positions : j # t.i => errorChan'[j] = errorChan[j]
  BY <1>1, <1>9, <1>11, SendFacts DEF TypeInv
<1>13. errorChan'[t.i] # <<>>
  BY <1>12
<1>14. RoundTasksFrom(t.i)
  <2>1. \A j \in DOMAIN queue'[p] : queue'[p][j].kind = "round" => queue'[p][j].i # t.i
    BY <1>1, <1>3, RoundJobs
  <2>2. \A q \in Pools : q # p =>
          /\ \A l \in DOMAIN queue[q] : queue[q][l].kind = "round" => queue[q][l].i # t.i
          /\ phase[q] = "fetch" /\ task[q].kind = "round" => task[q].i # t.i
    BY <1>9, OtherRounds
  <2>3. \A q \in Pools : \A j \in DOMAIN queue'[q] : queue'[q][j].kind = "round" =>
          queue'[q][j].i # t.i /\ \E l \in DOMAIN queue[q] : queue'[q][j] = queue[q][l]
    BY <1>3, <2>1, <2>2 DEF FromQueue
  <2> QED
    BY <1>4, <2>2, <2>3 DEF RoundTasksFrom
<1>15. RoundInv'
  BY <1>1, <1>3, <1>9, <1>10, <1>12, <1>13, <1>14, RoundInvKept
<1> QED
  BY <1>6, <1>7, <1>15

\* A worker finds that the wants of a request are there.
LEMMA SkipRequestStep ==
  ASSUME Inv, TypeInv', NEW p \in Pools, SkipRequest(p)
  PROVE  Inv'
<1> USE DEF Inv
<1> DEFINE t == Head(queue[p])
<1>1. /\ PickUp(p) /\ t.kind = "request" /\ at' = [at EXCEPT ![t.r] = "recheck"]
      /\ UNCHANGED <<rounds, errorChan, work, pool, commands, done, answers, status>>
  BY DEF SkipRequest
<1>2. repositories' = repositories
  BY <1>1 DEF rounds
<1>3. /\ FromQueue /\ t \in Tasks /\ \E l \in DOMAIN queue[p] : t = queue[p][l]
      /\ \A j \in DOMAIN queue'[p] : Job(queue'[p][j]) # Job(t)
      /\ phase[p] = "idle"
  BY <1>1, <1>2, FirstTask
<1> HIDE DEF t
<1>4. UNCHANGED <<phase, task, fetched>>
  BY <1>1 DEF work
<1>5. FromWorker /\ SameFetches(Pools) /\ SameFetches(Pools \ {p})
  BY <1>4 DEF FromWorker, SameFetches
<1>6. JobInv'
  BY <1>1, <1>2, <1>3, <1>4, <1>5, JobsTaken DEF TypeInv
<1>7. t.r \in Requests /\ at[t.r] = "wait" /\ pool[t.r] = p
  BY <1>1, <1>3, TaskKinds DEF AskInv
<1>8. StageInv'
  BY <1>1, <1>7, WokenStage
<1>9. \A j \in DOMAIN queue'[p] : queue'[p][j].kind = "request" => queue'[p][j].r # t.r
  BY <1>1, <1>3, RequestJobs
<1>10. AskInv'
  BY <1>1, <1>3, <1>4, <1>5, <1>7, <1>9, AskWoken
<1>11. RoundInv'
  BY <1>1, <1>3, <1>4, <1>5, NothingSent
<1> QED
  BY <1>6, <1>8, <1>10, <1>11

\* A worker ends git gc: its value goes to a channel that has been read, or to none.
LEMMA EndGCStep ==
  ASSUME Inv, TypeInv', NEW p \in Pools, EndGC(p)
  PROVE  Inv'
<1> USE DEF Inv
<1>1. PICK err \in BOOLEAN : Send(task[p].i, err)
  BY DEF EndGC
<1>2. /\ main # "exited" /\ phase[p] = "gc" /\ UNCHANGED <<rounds, queue, fetched, requests>>
      /\ phase' = [phase EXCEPT ![p] = "idle"] /\ task' = [task EXCEPT ![p] = NoTask]
  BY DEF EndGC, Running, Worker
<1>3. /\ phase'[p] = "idle"
      /\ \A q \in Pools : q # p => phase'[q] = phase[q] /\ task'[q] = task[q]
  BY <1>2 DEF TypeInv, PoolType
<1>4. FromQueue /\ FromWorker /\ SameFetches(Pools)
  BY <1>2, <1>3 DEF FromQueue, FromWorker, SameFetches
<1>5. JobInv' /\ StageInv' /\ AskInv'
  BY <1>2, <1>4, JobsStay, StagesStay, AskStays DEF requests
<1>6. \A q \in Pools : phase'[q] = "gc" => phase[q] = "gc" /\ task'[q] = task[q]
  BY <1>3
<1>7. CASE task[p].i = 0
  <2>1. errorChan' = errorChan
    BY <1>1, <1>7 DEF Send
  <2>2. RoundInv'
    BY <1>2, <1>4, <1>6, <2>1, NothingSent
  <2> QED
    BY <1>5, <2>2
<1>8. CASE task[p].i # 0
  <2> DEFINE i == task[p].i
  <2>1. i \in Positions /\ i # 0 /\ Told(i)
    BY <1>2, <1>8 DEF RoundInv, GCInv
  <2>2. /\ errorChan[i] = <<>> /\ errorChan'[i] \in {<<"err">>, <<"nil">>}
        /\ \A j \in Positions : j # i => errorChan'[j] = errorChan[j]
    BY <1>1, <2>1, SendFacts DEF TypeInv
  <2> HIDE DEF i
  <2>3. errorChan'[i] # <<>>
    BY <2>2
  <2>4. Read(i) /\ ~UnderWay(i)
    <3>1. i \in Nat /\ k \in Nat
      BY <2>1, Places DEF TypeInv, RoundType
    <3> QED
      BY <2>1, <2>2, <3>1 DEF Told, UnderWay, Read
  <2>5. RoundTasksFrom(i)
    <3>1. \A q \in Pools : \A l \in DOMAIN queue[q] : queue[q][l].kind = "round" => queue[q][l].i # i
      BY <2>4 DEF RoundInv, WaitInv, OpenTask, Open
    <3>2. \A q \in Pools : phase[q] = "fetch" /\ task[q].kind = "round" => task[q].i # i
      BY <2>4 DEF RoundInv, FetchInv, OpenTask, Open
    <3> QED
      BY <1>2, <1>3, <1>6, <3>1, <3>2 DEF RoundTasksFrom
  <2>6. RoundInv'
    BY <1>2, <2>1, <2>2, <2>3, <2>4, <2>5, RoundInvKept
  <2> QED
    BY <1>5, <2>6
<1> QED
  BY <1>7, <1>8

\* Every step of a worker.
LEMMA WorkStep ==
  ASSUME Inv, NEW p \in Pools, Work(p) \/ Age(p)
  PROVE  Inv'
<1>1. TypeInv'
  BY WorkStepTypes DEF Inv
<1>2. CASE BeginFetch(p)
  BY <1>1, <1>2, BeginStep
<1>3. CASE SkipRound(p)
  BY <1>1, <1>3, SkipRoundStep
<1>4. CASE SkipRequest(p)
  BY <1>1, <1>4, SkipRequestStep
<1>5. CASE FetchSucceeds(p)
  <2>1. /\ Tell(p, FALSE) /\ main # "exited" /\ phase[p] = "fetch" /\ fetched' = fetched \cup {p}
        /\ UNCHANGED <<rounds, queue, pool, commands, done, answers, status>>
    BY <1>5 DEF FetchSucceeds, Running
  <2> QED
    BY <1>1, <2>1, EndOfFetch
<1>6. CASE FetchFails(p)
  <2>1. /\ Tell(p, TRUE) /\ main # "exited" /\ phase[p] = "fetch"
        /\ UNCHANGED <<rounds, queue, pool, commands, done, answers, status, fetched>>
    BY <1>6 DEF FetchFails, Running
  <2> QED
    BY <1>1, <2>1, EndOfFetch
<1>7. CASE EndGC(p)
  BY <1>1, <1>7, EndGCStep
<1>8. CASE Age(p)
  <2>1. UNCHANGED <<rounds, errorChan, queue, task, phase, fetched, requests>>
    BY <1>8 DEF Age
  <2>2. FromQueue /\ FromWorker /\ SameFetches(Pools)
    BY <2>1 DEF FromQueue, FromWorker, SameFetches
  <2>3. JobInv' /\ StageInv' /\ AskInv'
    BY <2>1, <2>2, JobsStay, StagesStay, AskStays DEF requests, Inv
  <2>4. RoundInv'
    BY <2>1, <2>2, NothingSent DEF Inv
  <2> QED
    BY <1>1, <2>3, <2>4 DEF Inv
<1> QED
  BY <1>2, <1>3, <1>4, <1>5, <1>6, <1>7, <1>8 DEF Work

(***************************************************************************)
(* The steps of the handlers.                                              *)
(***************************************************************************)
\* The task that a request submits is its only one.
LEMMA SubmitStep ==
  ASSUME Inv, NEW r \in Requests, Submit(r), RequestType', UNCHANGED Quiet
  PROVE  QueueType' /\ AskInv' /\ JobInv'
         /\ \A q \in Pools : \A j \in DOMAIN queue'[q] : queue'[q][j].kind = "round" =>
              \E l \in DOMAIN queue[q] : queue'[q][j] = queue[q][l]
<1> USE DEF Inv
<1>1. /\ at[r] = "submit" /\ at' = [at EXCEPT ![r] = "wait"] /\ Len(queue[pool[r]]) < QueueCap
      /\ queue' = [queue EXCEPT ![pool[r]] = Append(@, RequestTask(r))]
      /\ pool' = pool
  BY DEF Submit, Go, Stay
<1>2. UNCHANGED <<repositories, task, phase>>
  BY DEF Quiet, rounds, work
<1>3. pool[r] \in Pools
  BY <1>1 DEF StageInv, Stage
<1>4. RequestTask(r) \in Tasks /\ RequestTask(r).kind = "request" /\ RequestTask(r).r = r
  BY TaskKinds
<1>5. /\ QueueType'
      /\ \A q \in Pools : q # pool[r] => queue'[q] = queue[q]
      /\ \A j \in DOMAIN queue'[pool[r]] :
           \/ j \in DOMAIN queue[pool[r]] /\ queue'[pool[r]][j] = queue[pool[r]][j]
           \/ j = Len(queue[pool[r]]) + 1 /\ queue'[pool[r]][j] = RequestTask(r)
  BY <1>1, <1>2, <1>3, <1>4, Added DEF TypeInv
<1>6. \A q \in Pools : \A j \in DOMAIN queue[q] : queue[q][j].kind = "request" => queue[q][j].r # r
  BY <1>1 DEF AskInv
<1>7. \A q \in Pools : phase[q] = "fetch" /\ task[q].kind = "request" => task[q].r # r
  BY <1>1 DEF AskInv
<1>8. \A t \in Tasks : ~(t.kind = "request" /\ t.r = r) => Job(t) # Job(RequestTask(r))
  BY <1>4, TaskKinds DEF Job
<1>9. JobInv'
  <2>1. \A j \in DOMAIN queue[pool[r]] : Job(queue[pool[r]][j]) # Job(RequestTask(r))
    <3>1. \A j \in DOMAIN queue[pool[r]] : queue[pool[r]][j] \in Tasks
      BY <1>3 DEF TypeInv, QueueType
    <3> QED
      BY <1>3, <1>6, <1>8, <3>1
  <2>2. phase[pool[r]] = "fetch" => Job(task[pool[r]]) # Job(RequestTask(r))
    BY <1>3, <1>7, <1>8 DEF TypeInv, PoolType
  <2> QED
    BY <1>1, <1>2, <1>3, <1>4, <2>1, <2>2, JobsAdded DEF TypeInv
<1>10. at'[r] = "wait" /\ \A q \in Requests : q # r => at'[q] = at[q]
  BY <1>1 DEF TypeInv, RequestType
<1>11. AskInv'
  <2>1. ASSUME NEW q \in Pools, NEW j \in DOMAIN queue'[q], queue'[q][j].kind = "request"
        PROVE  at'[queue'[q][j].r] = "wait" /\ pool[queue'[q][j].r] = q
    <3>1. CASE j \in DOMAIN queue[q] /\ queue'[q][j] = queue[q][j]
      <4>1. queue[q][j] \in Tasks /\ queue[q][j].kind = "request"
        BY <2>1, <3>1 DEF TypeInv, QueueType
      <4>2. queue[q][j].r \in Requests
        BY <4>1, TaskKinds
      <4>3. at[queue[q][j].r] = "wait" /\ pool[queue[q][j].r] = q /\ queue[q][j].r # r
        BY <1>6, <3>1, <4>1 DEF AskInv
      <4> QED
        BY <1>10, <3>1, <4>2, <4>3
    <3>2. CASE q = pool[r] /\ queue'[q][j] = RequestTask(r)
      BY <1>4, <1>10, <3>2
    <3> QED
      BY <1>5, <3>1, <3>2
  <2>2. ASSUME NEW q \in Pools, phase[q] = "fetch", task[q].kind = "request"
        PROVE  at'[task[q].r] = "wait" /\ pool[task[q].r] = q
    <3>1. task[q] \in Tasks
      BY <2>2 DEF TypeInv, PoolType
    <3>2. task[q].r \in Requests /\ task[q].r # r
      BY <1>7, <2>2, <3>1, TaskKinds
    <3> QED
      BY <1>10, <2>2, <3>2 DEF AskInv
  <2> QED
    BY <1>1, <1>2, <2>1, <2>2 DEF AskInv
<1>12. \A q \in Pools : \A j \in DOMAIN queue'[q] : queue'[q][j].kind = "round" =>
         \E l \in DOMAIN queue[q] : queue'[q][j] = queue[q][l]
  BY <1>4, <1>5
<1> QED
  BY <1>5, <1>9, <1>11, <1>12

\* Every step of a handler.
LEMMA HandleStep ==
  ASSUME Inv, NEW r \in Requests, Authorize(r) \/ Handle(r) \/ NextRequest(r)
  PROVE  Inv'
<1> USE DEF Inv
<1>1. UNCHANGED Quiet /\ at[r] # "wait" /\ (queue' = queue \/ Submit(r))
  BY HandlersAreQuiet
<1>2. RequestType' /\ StageInv' /\ \A q \in Requests \ {r} : Same(q)
  BY HandlerStep
<1>3. UNCHANGED <<rounds, repositories, errorChan, cancel, work, task, phase, fetched>>
  BY <1>1 DEF Quiet, rounds, work
<1>4. /\ QueueType' /\ AskInv' /\ JobInv'
      /\ \A q \in Pools : \A j \in DOMAIN queue'[q] : queue'[q][j].kind = "round" =>
           \E l \in DOMAIN queue[q] : queue'[q][j] = queue[q][l]
  <2>1. CASE Submit(r)
    BY <1>1, <1>2, <2>1, SubmitStep
  <2>2. CASE queue' = queue
    <3>1. QueueType'
      BY <1>3, <2>2, QueueTypeKept DEF TypeInv
    <3>2. JobInv'
      BY <1>3, <2>2, JobsStay DEF SameFetches
    <3>3. ASSUME NEW q \in Pools, NEW j \in DOMAIN queue[q], queue[q][j].kind = "request"
          PROVE  at'[queue[q][j].r] = "wait" /\ pool'[queue[q][j].r] = q
      <4>1. queue[q][j].r \in Requests
        BY <3>3, TaskKinds DEF TypeInv, QueueType
      <4>2. at[queue[q][j].r] = "wait" /\ pool[queue[q][j].r] = q
        BY <3>3 DEF AskInv
      <4> QED
        BY <1>1, <1>2, <4>1, <4>2 DEF Same
    <3>4. ASSUME NEW q \in Pools, phase[q] = "fetch", task[q].kind = "request"
          PROVE  at'[task[q].r] = "wait" /\ pool'[task[q].r] = q
      <4>1. task[q].r \in Requests
        BY <3>4, TaskKinds DEF TypeInv, PoolType
      <4>2. at[task[q].r] = "wait" /\ pool[task[q].r] = q
        BY <3>4 DEF AskInv
      <4> QED
        BY <1>1, <1>2, <4>1, <4>2 DEF Same
    <3>5. AskInv'
      BY <1>3, <2>2, <3>3, <3>4 DEF AskInv
    <3> QED
      BY <2>2, <3>1, <3>2, <3>5
  <2> QED
    BY <1>1, <2>1, <2>2
<1>5. TypeInv'
  BY <1>2, <1>3, <1>4, RoundTypeKept, PoolTypeKept DEF TypeInv
<1>6. RoundTasksFrom(0)
  BY <1>3, <1>4, InThisRound DEF RoundTasksFrom
<1>7. RoundInv'
  BY <1>3, <1>6, RoundInvKept
<1> QED
  BY <1>2, <1>4, <1>5, <1>7

(***************************************************************************)
(* The steps of main and of FetchRepositories.                             *)
(***************************************************************************)
\* cancel exists once main serves, and main does not stop serving.
StopInv == cancel # "uncalled" => main = "serving"

\* Open repositories stay open, told ones told, over a step of the loop.
Onward ==
  /\ \A i \in Positions : (Open(i) => Open(i)') /\ (Told(i) => Told(i)')
  /\ Positions # {} => (main' = "serving" <=> main = "serving")

\* The parts of RoundInv that are not about tasks.
LoopInv == ChanInv /\ MainInv /\ NilInv /\ PrefetchComplete

\* The task of an open repository stays one.
LEMMA OpenTaskStays ==
  ASSUME Onward, repositories' = repositories, NEW p, NEW t, OpenTask(p, t)
  PROVE  OpenTask(p, t)'
<1>1. Positions' = Positions /\ PoolOf(t.i)' = PoolOf(t.i)
  BY SamePlaces
<1>2. t.i \in Positions /\ PoolOf(t.i) = p /\ Open(t.i)
  BY DEF OpenTask
<1>3. Open(t.i)'
  BY <1>2 DEF Onward
<1> QED
  BY <1>1, <1>2, <1>3 DEF OpenTask, Onward

\* git gc goes on for a repository that has been told.
LEMMA GCStays ==
  ASSUME GCInv, Onward, UNCHANGED <<repositories, task, phase>>
  PROVE  GCInv'
<1> SUFFICES ASSUME NEW p \in Pools, phase[p] = "gc", NEW i, i = task[p].i, i # 0
             PROVE  i \in Positions' /\ Told(i)'
  BY DEF GCInv
<1>1. i \in Positions /\ Told(i)
  BY DEF GCInv
<1> QED
  BY <1>1, SamePlaces DEF Onward

\* A step of the loop that touches no task.
LEMMA LoopMoves ==
  ASSUME Inv, TypeInv', UNCHANGED <<repositories, queue, work, requests>>, Onward, LoopInv'
  PROVE  Inv'
<1> USE DEF Inv, work
<1>1. JobInv'
  BY JobsStay DEF SameFetches
<1>2. StageInv' /\ AskInv'
  BY StagesStay, AskStays DEF requests, FromQueue, FromWorker
<1>3. WaitInv'
  <2> SUFFICES ASSUME NEW p \in Pools, NEW j \in DOMAIN queue[p], NEW t, t = queue[p][j], t.kind = "round"
               PROVE  OpenTask(p, t)'
    BY DEF WaitInv
  <2>1. OpenTask(p, t)
    BY DEF RoundInv, WaitInv
  <2> QED
    BY <2>1, OpenTaskStays
<1>4. FetchInv'
  <2> SUFFICES ASSUME NEW p \in Pools, phase[p] = "fetch", NEW t, t = task[p], t.kind = "round"
               PROVE  OpenTask(p, t)'
    BY DEF FetchInv
  <2>1. OpenTask(p, t)
    BY DEF RoundInv, FetchInv
  <2> QED
    BY <2>1, OpenTaskStays
<1>5. GCInv'
  BY GCStays DEF RoundInv
<1> QED
  BY <1>1, <1>2, <1>3, <1>4, <1>5 DEF RoundInv, LoopInv

\* Where the round is, in numbers.
LEMMA Place ==
  ASSUME TypeInv
  PROVE  /\ Len(repositories) \in Nat /\ k \in Nat \ {0}
         /\ loop \notin {"select", "stopped"} => k \in Positions /\ k <= Len(repositories)
         /\ \A i \in Positions : i \in Nat \ {0} /\ i <= Len(repositories)
BY Places DEF TypeInv, RoundType

\* Between two rounds no repository is under way or read, and none at the start of one.
LEMMA BetweenRounds ==
  ASSUME TypeInv, loop \in {"select", "stopped"} \/ (loop \in {"decide", "submit"} /\ k = 1)
  PROVE  \A i \in Positions : ~UnderWay(i) /\ ~Read(i)
BY Place DEF UnderWay, Read

\* The round goes on to the next repository: the one it was at is under way now.
LEMMA OneMoreUnderWay ==
  ASSUME TypeInv, NextRepository, loop \in {"decide", "submit"}, repositories' = repositories
  PROVE  /\ \A i \in Positions : (UnderWay(i)' <=> UnderWay(i) \/ i = k) /\ ~Read(i) /\ ~Read(i)'
         /\ ~UnderWay(k) /\ loop' \in {"decide", "submit", "receive"}
<1>1. CASE k < Len(repositories)
  <2>1. k' = k + 1 /\ loop' \in {"decide", "submit"}
    BY <1>1 DEF NextRepository
  <2> QED
    BY <2>1, Place DEF UnderWay, Read
<1>2. CASE k = Len(repositories)
  <2>1. k' = 1 /\ loop' = "receive"
    BY <1>2, Place DEF NextRepository
  <2> QED
    BY <1>2, <2>1, Place DEF UnderWay, Read
<1> QED
  BY <1>1, <1>2, Place

\* A round begins: by main, or when the timer fires.
LEMMA RoundBegins ==
  ASSUME Inv, TypeInv', Start \/ Fire
  PROVE  Inv'
<1> USE DEF Inv
<1>1. /\ UNCHANGED <<repositories, k, errors, errorChan, queue, work, requests>>
      /\ loop = "select"
      /\ \/ main = "starting" /\ main' = "prefetch" /\ loop' = "submit"
         \/ main = "starting" /\ main' = "serving" /\ loop' = "select" /\ repositories = <<>>
         \/ main = "serving" /\ main' = "serving" /\ loop' = "decide"
  BY DEF Start, Fire, RoundInv, MainInv
<1>2. k = 1 /\ k' = 1 /\ Positions' = Positions
  BY <1>1, SamePlaces DEF RoundInv, MainInv
<1>3. \A i \in Positions : ~UnderWay(i) /\ ~Read(i)
  BY <1>1, BetweenRounds
<1>4. \A i \in Positions : ~UnderWay(i)' /\ ~Read(i)'
  BY <1>1, <1>2, Place DEF UnderWay, Read
<1>5. Onward
  <2>1. repositories = <<>> => Positions = {}
    BY DEF Positions
  <2> QED
    BY <1>1, <1>3, <2>1 DEF Onward, Open, Told
<1>6. ChanInv'
  BY <1>1, <1>2, <1>3 DEF ChanInv, RoundInv
<1>7. MainInv'
  BY <1>1 DEF MainInv, RoundInv
<1>8. NilInv'
  BY <1>2, <1>4 DEF NilInv
<1>9. PrefetchComplete'
  <2>1. repositories = <<>> => Positions = {}
    BY DEF Positions
  <2> QED
    BY <1>1, <1>2, <2>1, SamePlaces DEF PrefetchComplete, RoundInv, Configured, work
<1> QED
  BY <1>1, <1>5, <1>6, <1>7, <1>8, <1>9, LoopMoves DEF LoopInv

\* A step of main, of cancel or of the select that leaves the round where it is.
LEMMA RoundStays ==
  ASSUME Inv, StopInv, TypeInv', StartFails \/ NeedRepository \/ PrefetchFails \/ CallCancel \/ TakeStop
  PROVE  Inv'
<1> USE DEF Inv
<1>1. /\ UNCHANGED <<repositories, k, errors, errorChan, queue, work, requests>>
      /\ \/ loop' = loop
         \/ loop = "decide" /\ loop' = "submit" /\ main = "serving"
         \/ loop = "select" /\ loop' = "stopped" /\ main = "serving"
      /\ \/ main' = main
         \/ main = "starting" /\ main' = "exited" /\ loop' = loop
         \/ /\ main = "prefetch" /\ main' = "exited" /\ loop' = loop /\ loop = "receive"
            /\ k = Len(repositories) /\ (errors \/ errorChan[k] = <<"err">>)
  BY DEF StartFails, NeedRepository, PrefetchFails, CallCancel, TakeStop, rounds, Must, StopInv,
     RoundInv, MainInv
<1>2. Positions' = Positions /\ \A i \in Positions : (UnderWay(i)' <=> UnderWay(i)) /\ (Read(i)' <=> Read(i))
  BY <1>1, SamePlaces DEF UnderWay, Read
<1>3. Onward
  BY <1>1, <1>2 DEF Onward, Open, Told
<1>4. ChanInv'
  BY <1>1, <1>2 DEF ChanInv, RoundInv
<1>5. MainInv'
  BY <1>1 DEF MainInv, RoundInv
<1>6. NilInv'
  BY <1>1, <1>2, SamePlaces DEF NilInv, RoundInv, work
<1>7. PrefetchComplete'
  BY <1>1, <1>2, SamePlaces DEF PrefetchComplete, RoundInv, Configured, work
<1> QED
  BY <1>1, <1>3, <1>4, <1>5, <1>6, <1>7, LoopMoves DEF LoopInv

\* A background round skips a repository and answers itself.
LEMMA SkipStep ==
  ASSUME Inv, TypeInv', SkipRepository
  PROVE  Inv'
<1> USE DEF Inv
<1>1. /\ loop = "decide" /\ Send(k, FALSE) /\ NextRepository
      /\ UNCHANGED <<repositories, main, errors, queue, work, requests>>
  BY DEF SkipRepository
<1>2. main = "serving" /\ main' = "serving"
  BY <1>1 DEF RoundInv, MainInv
<1>3. k \in Positions /\ k # 0
  BY <1>1, Place
<1>4. errorChan'[k] = <<"nil">> /\ \A j \in Positions : j # k => errorChan'[j] = errorChan[j]
  BY <1>1, <1>3, SendFacts DEF TypeInv
<1>5. /\ \A i \in Positions : (UnderWay(i)' <=> UnderWay(i) \/ i = k) /\ ~Read(i) /\ ~Read(i)'
      /\ ~UnderWay(k) /\ loop' \in {"decide", "submit", "receive"}
  BY <1>1, OneMoreUnderWay
<1>6. Positions' = Positions
  BY <1>1, SamePlaces
<1>7. Onward
  BY <1>2, <1>4, <1>5 DEF Onward, Open, Told
<1>8. ChanInv'
  BY <1>4, <1>5, <1>6 DEF ChanInv, RoundInv
<1>9. MainInv' /\ NilInv'
  BY <1>2, <1>5 DEF MainInv, NilInv
<1>10. PrefetchComplete'
  BY <1>1, <1>6, SamePlaces DEF PrefetchComplete, RoundInv, Configured, work
<1> QED
  BY <1>1, <1>7, <1>8, <1>9, <1>10, LoopMoves DEF LoopInv

\* A channel is read, and there are more.
LEMMA ReceiveStep ==
  ASSUME Inv, TypeInv', Receive
  PROVE  Inv'
<1> USE DEF Inv
<1>1. /\ loop = "receive" /\ loop' = "receive" /\ k < Len(repositories) /\ k' = k + 1
      /\ errorChan[k] # <<>> /\ errorChan' = [errorChan EXCEPT ![k] = <<>>]
      /\ UNCHANGED <<repositories, main, queue, work, requests>>
  BY DEF Receive, Received
<1>2. main = "prefetch" /\ ~errors' => ~errors /\ errorChan[k] # <<"err">>
  BY DEF Receive, Must
<1>3. Positions' = Positions /\ \A i \in Positions : (i # k => errorChan'[i] = errorChan[i])
  BY <1>1, SamePlaces DEF TypeInv, RoundType
<1>4. \A i \in Positions : /\ UnderWay(i) <=> i >= k
                           /\ Read(i) <=> i < k
                           /\ UnderWay(i)' <=> i > k
                           /\ Read(i)' <=> i <= k
  BY <1>1, Place DEF UnderWay, Read
<1>5. Onward
  <2>1. ASSUME NEW i \in Positions, Open(i) PROVE Open(i)'
    BY <1>1, <1>3, <1>4, <2>1, Place DEF Open
  <2>2. ASSUME NEW i \in Positions, Told(i) PROVE Told(i)'
    BY <1>1, <1>3, <1>4, <2>2, Place DEF Told
  <2> QED
    BY <1>1, <2>1, <2>2 DEF Onward
<1>6. ChanInv'
  BY <1>3, <1>4, Place DEF ChanInv
<1>7. MainInv'
  BY <1>1, Place DEF MainInv, RoundInv
<1>8. NilInv'
  <2> SUFFICES ASSUME main = "prefetch", NEW i \in Positions
               PROVE  /\ UnderWay(i)' /\ errorChan'[i] = <<"nil">> => PoolOf(i) \in fetched
                      /\ Read(i)' /\ ~errors' => PoolOf(i) \in fetched
    BY <1>1, <1>3, SamePlaces DEF NilInv, work
  <2>1. CASE i # k
    BY <1>2, <1>3, <1>4, <2>1, Place DEF NilInv, RoundInv
  <2>2. CASE i = k
    <3>1. errorChan[k] \in {<<>>, <<"nil">>, <<"err">>}
      BY <1>1, Place DEF TypeInv, RoundType
    <3>2. ~errors' => errorChan[k] = <<"nil">>
      BY <1>1, <1>2, <3>1
    <3> QED
      BY <1>4, <2>2, <3>2, Place DEF NilInv, RoundInv
  <2> QED
    BY <2>1, <2>2
<1>9. PrefetchComplete'
  BY <1>1, <1>3, SamePlaces DEF PrefetchComplete, RoundInv, Configured, work
<1> QED
  BY <1>1, <1>5, <1>6, <1>7, <1>8, <1>9, LoopMoves DEF LoopInv

\* The task of a repository is submitted: it is the only one of that repository.
LEMMA SubmitRepositoryStep ==
  ASSUME Inv, TypeInv', SubmitRepository
  PROVE  Inv'
<1> USE DEF Inv, work
<1> DEFINE t == RoundTask(k, Must)
<1>1. /\ loop = "submit" /\ Len(queue[PoolOf(k)]) < QueueCap /\ NextRepository
      /\ queue' = [queue EXCEPT ![PoolOf(k)] = Append(@, t)]
      /\ UNCHANGED <<repositories, main, errors, errorChan, work, requests>>
  BY DEF SubmitRepository
<1>2. k \in Positions /\ PoolOf(k) \in Pools
  BY <1>1, Place, Places DEF TypeInv, RoundType
<1>3. t \in Tasks /\ t.kind = "round" /\ t.i = k /\ t.must = Must
  <2>1. Must \in BOOLEAN
    BY Zenon DEF Must
  <2> QED
    BY <1>2, <2>1, TaskKinds
<1> HIDE DEF t
<1>4. /\ \A i \in Positions : (UnderWay(i)' <=> UnderWay(i) \/ i = k) /\ ~Read(i) /\ ~Read(i)'
      /\ ~UnderWay(k) /\ loop' \in {"decide", "submit", "receive"}
  BY <1>1, OneMoreUnderWay
<1>5. errorChan[k] = <<>>
  BY <1>2, <1>4 DEF RoundInv, ChanInv
<1>6. main \in {"prefetch", "serving"}
  BY <1>1 DEF RoundInv, MainInv, TypeInv, RoundType
<1>7. Positions' = Positions /\ \A i : PoolOf(i)' = PoolOf(i)
  BY <1>1, SamePlaces
<1>8. Onward
  BY <1>1, <1>4 DEF Onward, Open, Told
<1>9. \A q \in Pools : \A j \in DOMAIN queue[q] : queue[q][j].kind = "round" => queue[q][j].i # k
  BY <1>4 DEF RoundInv, WaitInv, OpenTask, Open
<1>10. \A q \in Pools : phase[q] = "fetch" /\ task[q].kind = "round" => task[q].i # k
  BY <1>4 DEF RoundInv, FetchInv, OpenTask, Open
<1>11. \A u \in Tasks : ~(u.kind = "round" /\ u.i = k) => Job(u) # Job(t)
  BY <1>3, TaskKinds DEF Job
<1>12. JobInv'
  <2>1. \A j \in DOMAIN queue[PoolOf(k)] : Job(queue[PoolOf(k)][j]) # Job(t)
    <3>1. \A j \in DOMAIN queue[PoolOf(k)] : queue[PoolOf(k)][j] \in Tasks
      BY <1>2 DEF TypeInv, QueueType
    <3> QED
      BY <1>2, <1>9, <1>11, <3>1
  <2>2. phase[PoolOf(k)] = "fetch" => Job(task[PoolOf(k)]) # Job(t)
    BY <1>2, <1>10, <1>11 DEF TypeInv, PoolType
  <2> QED
    BY <1>1, <1>2, <1>3, <2>1, <2>2, JobsAdded DEF TypeInv
<1>13. ASSUME NEW q \in Pools, NEW j \in DOMAIN queue'[q]
       PROVE  \/ \E l \in DOMAIN queue[q] : queue'[q][j] = queue[q][l]
              \/ q = PoolOf(k) /\ queue'[q][j] = t
  <2>1. /\ \A p \in Pools : p # PoolOf(k) => queue'[p] = queue[p]
        /\ \A l \in DOMAIN queue'[PoolOf(k)] :
             \/ l \in DOMAIN queue[PoolOf(k)] /\ queue'[PoolOf(k)][l] = queue[PoolOf(k)][l]
             \/ l = Len(queue[PoolOf(k)]) + 1 /\ queue'[PoolOf(k)][l] = t
    BY <1>1, <1>2, <1>3, Added DEF TypeInv
  <2>2. CASE q # PoolOf(k)
    BY <2>1, <2>2
  <2>3. CASE q = PoolOf(k)
    BY <2>1, <2>3
  <2> QED
    BY <2>2, <2>3
<1>14. StageInv'
  BY <1>1, StagesStay DEF requests
<1>15. AskInv'
  <2>1. UNCHANGED <<at, pool, phase, task>>
    BY <1>1 DEF requests
  <2>2. ASSUME NEW q \in Pools, NEW j \in DOMAIN queue'[q], queue'[q][j].kind = "request"
        PROVE  at[queue'[q][j].r] = "wait" /\ pool[queue'[q][j].r] = q
    BY <1>3, <1>13, <2>2 DEF AskInv
  <2> QED
    BY <2>1, <2>2 DEF AskInv
<1>16. ASSUME NEW p, p = PoolOf(k), NEW u, u = t PROVE OpenTask(p, u)'
  <2>1. \A i : i = k => Open(i)'
    BY <1>1, <1>2, <1>4, <1>5 DEF Open
  <2>2. u.i = k /\ u.i \in Positions' /\ PoolOf(u.i)' = p /\ Open(u.i)'
    BY <1>2, <1>3, <1>7, <1>16, <2>1
  <2>3. (main # "serving" => u.must) /\ (main = "serving" => ~u.must)
    BY <1>3, <1>6, <1>16 DEF Must
  <2> QED
    BY <1>1, <2>2, <2>3 DEF OpenTask
<1>17. WaitInv'
  <2> SUFFICES ASSUME NEW q \in Pools, NEW j \in DOMAIN queue'[q], NEW u, u = queue'[q][j], u.kind = "round"
               PROVE  OpenTask(q, u)'
    BY DEF WaitInv
  <2>1. CASE \E l \in DOMAIN queue[q] : u = queue[q][l]
    <3>1. OpenTask(q, u)
      BY <2>1 DEF RoundInv, WaitInv
    <3> QED
      BY <1>1, <1>8, <3>1, OpenTaskStays
  <2>2. CASE q = PoolOf(k) /\ u = t
    BY <1>16, <2>2
  <2> QED
    BY <1>13, <2>1, <2>2
<1>18. FetchInv'
  <2> SUFFICES ASSUME NEW p \in Pools, phase[p] = "fetch", NEW u, u = task[p], u.kind = "round"
               PROVE  OpenTask(p, u)'
    BY <1>1 DEF FetchInv
  <2>1. OpenTask(p, u)
    BY DEF RoundInv, FetchInv
  <2> QED
    BY <1>1, <1>8, <2>1, OpenTaskStays
<1>19. GCInv'
  BY <1>1, <1>8, GCStays DEF RoundInv
<1>20. ChanInv'
  BY <1>1, <1>4, <1>7 DEF ChanInv, RoundInv
<1>21. MainInv'
  <2>1. loop' = "decide" => main = "serving"
    BY <1>1, <1>6 DEF NextRepository, Must
  <2> QED
    BY <1>1, <1>4, <1>6, <2>1 DEF MainInv
<1>22. NilInv'
  <2>1. errorChan[k] # <<"nil">>
    BY <1>5
  <2> QED
    BY <1>1, <1>4, <1>7, <2>1 DEF NilInv, RoundInv
<1>23. PrefetchComplete'
  BY <1>1, <1>7 DEF PrefetchComplete, RoundInv, Configured
<1> QED
  BY <1>12, <1>14, <1>15, <1>17, <1>18, <1>19, <1>20, <1>21, <1>22, <1>23 DEF RoundInv

\* The last channel is read: no task of the round waits or fetches any more, and when it
\* was the pre-fetch every repository has been fetched.
LEMMA EndRoundStep ==
  ASSUME Inv, TypeInv', EndRound
  PROVE  Inv'
<1> USE DEF Inv
<1>1. /\ loop = "receive" /\ k = Len(repositories) /\ errorChan[k] # <<>>
      /\ main = "serving" \/ ~(errors \/ errorChan[k] = <<"err">>)
      /\ main' = "serving" /\ loop' = "select" /\ k' = 1 /\ errors' = FALSE
      /\ errorChan' = [i \in Positions |-> <<>>]
      /\ task' = [p \in Pools |-> Outlive(task[p])]
      /\ queue' = [p \in Pools |-> [i \in DOMAIN queue[p] |-> Outlive(queue[p][i])]]
      /\ UNCHANGED <<repositories, phase, fetched, requests>>
  BY DEF EndRound, RoundOver
<1>2. \A i \in Positions : ~Open(i)
  BY <1>1, Place DEF Open, UnderWay
<1>3. \A q \in Pools : \A j \in DOMAIN queue[q] : queue[q][j] \in Tasks /\ queue[q][j].kind = "request"
  <2>1. \A q \in Pools : \A j \in DOMAIN queue[q] : queue[q][j] \in Tasks
    BY DEF TypeInv, QueueType
  <2>2. \A q \in Pools : \A j \in DOMAIN queue[q] : queue[q][j].kind # "round"
    BY <1>2 DEF RoundInv, WaitInv, OpenTask
  <2> QED
    BY <2>1, <2>2, TaskKinds
<1>4. \A q \in Pools : phase[q] = "fetch" => task[q] \in Tasks /\ task[q].kind = "request"
  <2>1. \A q \in Pools : phase[q] = "fetch" => task[q] \in Tasks
    BY DEF TypeInv, PoolType
  <2>2. \A q \in Pools : phase[q] = "fetch" => task[q].kind # "round"
    BY <1>2 DEF RoundInv, FetchInv, OpenTask
  <2> QED
    BY <2>1, <2>2, TaskKinds
<1>5. \A q \in Pools : DOMAIN queue'[q] = DOMAIN queue[q] /\ \A j \in DOMAIN queue[q] : queue'[q][j] = queue[q][j]
  BY <1>1, <1>3, Outlived
<1>6. \A q \in Pools : phase[q] = "fetch" => task'[q] = task[q]
  BY <1>1, <1>4, Outlived
<1>7. FromQueue /\ FromWorker
  BY <1>1, <1>5, <1>6 DEF FromQueue, FromWorker
<1>8. StageInv' /\ AskInv'
  BY <1>1, <1>7, StagesStay, AskStays DEF requests
<1>9. JobInv'
  <2>1. WaitOnce'
    <3> SUFFICES ASSUME NEW q \in Pools, NEW i \in DOMAIN queue'[q], NEW j \in DOMAIN queue'[q],
                        Job(queue'[q][i]) = Job(queue'[q][j])
                 PROVE  i = j
      BY DEF WaitOnce, Job
    <3>1. /\ i \in DOMAIN queue[q] /\ queue'[q][i] = queue[q][i]
          /\ j \in DOMAIN queue[q] /\ queue'[q][j] = queue[q][j]
      BY <1>5
    <3> QED
      BY <3>1 DEF JobInv, WaitOnce
  <2>2. RunOnce'
    <3> SUFFICES ASSUME NEW q \in Pools, phase'[q] = "fetch", NEW j \in DOMAIN queue'[q]
                 PROVE  Job(queue'[q][j]) # Job(task'[q])
      BY DEF RunOnce, Job
    <3>1. phase[q] = "fetch" /\ j \in DOMAIN queue[q] /\ queue'[q][j] = queue[q][j] /\ task'[q] = task[q]
      BY <1>1, <1>5, <1>6
    <3>2. Job(queue[q][j]) # Job(task[q])
      BY <3>1 DEF JobInv, RunOnce
    <3> QED
      BY <3>1, <3>2
  <2> QED
    BY <2>1, <2>2 DEF JobInv
<1>10. WaitInv' /\ FetchInv'
  <2>1. \A q \in Pools : \A j \in DOMAIN queue'[q] : queue'[q][j].kind # "round"
    BY <1>3, <1>5
  <2>2. \A q \in Pools : phase'[q] = "fetch" => task'[q].kind # "round"
    BY <1>1, <1>4, <1>6
  <2> QED
    BY <2>1, <2>2 DEF WaitInv, FetchInv
<1>11. GCInv'
  <2>1. \A q \in Pools : phase[q] = "gc" => task[q] \in Tasks /\ task[q].kind = "round"
    BY DEF TypeInv, PoolType
  <2>2. \A q \in Pools : phase[q] = "gc" => task'[q].i = 0
    BY <1>1, <2>1, Outlived
  <2> QED
    BY <1>1, <2>2 DEF GCInv
<1>12. ChanInv'
  BY <1>1, SamePlaces DEF ChanInv
<1>13. MainInv' /\ NilInv'
  BY <1>1 DEF MainInv, NilInv
<1>14. PrefetchComplete'
  <2>1. CASE main = "serving"
    BY <1>1, <2>1, SamePlaces DEF PrefetchComplete, RoundInv, Configured
  <2>2. CASE main # "serving"
    <3>1. main = "prefetch" /\ ~errors /\ errorChan[k] = <<"nil">>
      BY <1>1, <2>2, Place DEF RoundInv, MainInv, TypeInv, RoundType
    <3>2. ASSUME NEW i \in Positions PROVE PoolOf(i) \in fetched
      <4>1. i \in Nat /\ k \in Nat /\ i <= k
        BY <1>1, Place
      <4>2. Read(i) \/ (UnderWay(i) /\ i = k)
        BY <1>1, <4>1 DEF Read, UnderWay
      <4> QED
        BY <3>1, <4>2 DEF RoundInv, NilInv
    <3> QED
      BY <1>1, <3>2, SamePlaces DEF PrefetchComplete, Configured
  <2> QED
    BY <2>1, <2>2
<1> QED
  BY <1>8, <1>9, <1>10, <1>11, <1>12, <1>13, <1>14 DEF RoundInv

\* Every step of main, of FetchRepositories and of cancel.
LEMMA LoopStep ==
  ASSUME Inv, StopInv, Round \/ CallCancel \/ TakeStop
  PROVE  Inv'
<1>1. TypeInv'
  BY RoundStepTypes DEF Inv
<1>2. CASE Start \/ Fire
  BY <1>1, <1>2, RoundBegins
<1>3. CASE StartFails \/ NeedRepository \/ PrefetchFails \/ CallCancel \/ TakeStop
  BY <1>1, <1>3, RoundStays
<1>4. CASE SkipRepository
  BY <1>1, <1>4, SkipStep
<1>5. CASE SubmitRepository
  BY <1>1, <1>5, SubmitRepositoryStep
<1>6. CASE Receive
  BY <1>1, <1>6, ReceiveStep
<1>7. CASE EndRound
  BY <1>1, <1>7, EndRoundStep
<1> QED
  BY <1>2, <1>3, <1>4, <1>5, <1>6, <1>7 DEF Round

(***************************************************************************)
(* The theorems.                                                           *)
(***************************************************************************)
\* The invariant holds when the server is started.
LEMMA Initially == Init => Inv /\ StopInv
<1> SUFFICES ASSUME Init PROVE Inv /\ StopInv
  OBVIOUS
<1> USE DEF Init
<1>1. RoundType
  <2>1. errors \in BOOLEAN
    BY Zenon
  <2> QED
    BY <2>1 DEF RoundType
<1>2. QueueType
  <2>1. <<>> \in Seq(Tasks) /\ Len(<<>>) = 0
    OBVIOUS
  <2> QED
    BY <2>1, QueueAssumption DEF QueueType
<1>3. PoolType
  <2>1. old \in [Pools -> BOOLEAN]
    BY Zenon
  <2> QED
    BY <2>1 DEF PoolType
<1>4. RequestType
  <2>1. missing \in [Requests -> BOOLEAN]
    BY Zenon
  <2> QED
    BY <2>1 DEF RequestType, Stages
<1>5. StageInv
  <2> SUFFICES ASSUME NEW r \in Requests PROVE Stage(r)
    BY DEF StageInv
  <2>1. at[r] = "idle" /\ pool[r] = NoPool /\ commands[r] = <<>> /\ done[r] = 0 /\ answers[r] = <<>> /\ status[r] = 0
    OBVIOUS
  <2> QED
    BY <2>1 DEF Stage
<1>6. \A p \in Pools : DOMAIN queue[p] = {} /\ phase[p] = "idle"
  OBVIOUS
<1>7. AskInv /\ JobInv
  BY <1>6 DEF AskInv, JobInv, WaitOnce, RunOnce
<1>8. WaitInv /\ FetchInv /\ GCInv
  BY <1>6 DEF WaitInv, FetchInv, GCInv
<1>9. ChanInv /\ MainInv /\ NilInv /\ PrefetchComplete
  BY DEF ChanInv, MainInv, NilInv, PrefetchComplete
<1> QED
  BY <1>1, <1>2, <1>3, <1>4, <1>5, <1>7, <1>8, <1>9 DEF Inv, TypeInv, RoundInv, StopInv

\* Every step keeps it.
LEMMA Inductive == Inv /\ StopInv /\ [Next]_vars => Inv' /\ StopInv'
<1> SUFFICES ASSUME Inv, StopInv, [Next]_vars PROVE Inv' /\ StopInv'
  OBVIOUS
<1>1. CASE Round \/ CallCancel \/ TakeStop
  <2>1. Inv'
    BY <1>1, LoopStep
  <2>2. StopInv'
    BY <1>1 DEF StopInv, Round, Start, StartFails, Fire, SkipRepository, NeedRepository,
       SubmitRepository,
                Receive, EndRound, RoundOver, PrefetchFails, CallCancel, TakeStop, Must, rounds
  <2> QED
    BY <2>1, <2>2
<1>2. ASSUME NEW p \in Pools, Work(p) \/ Age(p) PROVE Inv' /\ StopInv'
  <2>1. Inv'
    BY <1>2, WorkStep
  <2>2. UNCHANGED <<main, cancel>>
    BY <1>2 DEF Work, BeginFetch, SkipRound, SkipRequest, FetchSucceeds, FetchFails, EndGC, Age, rounds
  <2> QED
    BY <2>1, <2>2 DEF StopInv
<1>3. ASSUME NEW r \in Requests, Authorize(r) \/ Handle(r) \/ NextRequest(r) PROVE Inv' /\ StopInv'
  <2>1. Inv'
    BY <1>3, HandleStep
  <2>2. UNCHANGED <<main, cancel>>
    BY <1>3, HandlersAreQuiet DEF Quiet, rounds
  <2> QED
    BY <2>1, <2>2 DEF StopInv
<1>4. CASE UNCHANGED vars
  <2>1. UNCHANGED <<rounds, repositories, main, errorChan, cancel, queue, work, task, phase, fetched, requests>>
    BY <1>4 DEF vars, rounds, work
  <2>2. TypeInv'
    BY <2>1, RoundTypeKept, QueueTypeKept, PoolTypeKept, RequestTypeKept DEF Inv, TypeInv
  <2>3. FromQueue /\ FromWorker /\ SameFetches(Pools)
    BY <2>1 DEF FromQueue, FromWorker, SameFetches
  <2>4. StageInv' /\ AskInv' /\ JobInv'
    BY <2>1, <2>3, StagesStay, AskStays, JobsStay DEF Inv, requests
  <2>5. RoundInv'
    BY <2>1, <2>3, NothingSent DEF Inv
  <2>6. StopInv'
    BY <2>1 DEF StopInv
  <2> QED
    BY <2>2, <2>4, <2>5, <2>6 DEF Inv
<1> QED
  BY <1>1, <1>2, <1>3, <1>4 DEF Next

\* So it holds in every state the server reaches.
LEMMA Invariance == Spec => [](Inv /\ StopInv)
<1>1. Init => Inv /\ StopInv
  BY Initially
<1>2. (Inv /\ StopInv) /\ [Next]_vars => (Inv /\ StopInv)'
  BY Inductive
<1> QED
  BY <1>1, <1>2, PTL DEF Spec

\* The variables have their types, and a pool is never over its capacity, whatever the
\* configuration, the requests and their number.
THEOREM Typing == Spec => []TypeOK
<1>1. Inv => TypeOK
  BY TypeInvImpliesTypeOK DEF Inv
<1> QED
  BY <1>1, Invariance, PTL

\* Rounds do not pile up: FetchRepositories returns only when no task of its round waits
\* or fetches, since it reads every channel and the first value of each comes with the end
\* of the task's fetch.
THEOREM RoundsEnd == Spec => []RoundIsOver
<1>1. Inv => RoundIsOver
  <2> SUFFICES ASSUME Inv, loop \in {"select", "stopped"}, NEW p \in Pools
               PROVE  /\ \A i \in DOMAIN queue[p] : queue[p][i].kind # "round"
                      /\ phase[p] = "fetch" => task[p].kind # "round"
    BY DEF RoundIsOver
  <2>1. \A i \in Positions : ~UnderWay(i)
    BY BetweenRounds DEF Inv
  <2> QED
    BY <2>1 DEF Inv, RoundInv, WaitInv, FetchInv, OpenTask, Open
<1> QED
  BY <1>1, Invariance, PTL

\* The server serves only when the pre-fetch has fetched every repository of the
\* configuration, for a configuration of any length with any repetitions.
THEOREM ServesWhenComplete == Spec => []PrefetchComplete
<1>1. Inv => PrefetchComplete
  BY DEF Inv, RoundInv
<1> QED
  BY <1>1, Invariance, PTL

\* A client gets the answers to its commands in their order up to the first that fails,
\* with an error last, for a body of any length.
THEOREM AnswersAreInOrder == Spec => []AnswersInOrder
<1>1. Inv => AnswersInOrder
  <2> SUFFICES ASSUME Inv, NEW r \in Requests
               PROVE  /\ \/ answers[r] = ToldAll(r)
                         \/ /\ at[r] = "done"
                            /\ answers[r] \in {ToldAll(r) \o <<"ERR">>, ToldAll(r) \o <<"part", "ERR">>}
                      /\ status[r] # 200 => answers[r] = <<>> /\ pool[r] = NoPool
    BY DEF AnswersInOrder, ToldAll
  <2>1. Stage(r) /\ at[r] \in Stages
    BY DEF Inv, StageInv, TypeInv, RequestType
  <2>2. CASE at[r] \in {"idle", "handle"}
    BY <2>1, <2>2, ToldNothing DEF Stage
  <2>3. CASE at[r] \in {"next", "submit", "wait", "recheck", "serve"}
    BY <2>1, <2>3 DEF Stage
  <2>4. CASE at[r] = "done"
    BY <2>1, <2>4 DEF Stage
  <2> QED
    BY <2>1, <2>2, <2>3, <2>4 DEF Stages
<1> QED
  BY <1>1, Invariance, PTL

(***************************************************************************)
(* Room in the queues: a queue holds at most one task of each request that *)
(* waits and of each repository that the round has passed.                 *)
(***************************************************************************)
\* An interval from 1 has as many numbers as its end says.
LEMMA UpTo == \A n \in Nat : IsFiniteSet(1..n) /\ Cardinality(1..n) = n
<1> SUFFICES ASSUME NEW n \in Nat PROVE IsFiniteSet(1..n) /\ Cardinality(1..n) = n
  OBVIOUS
<1>1. 1 \in Int /\ n \in Int
  OBVIOUS
<1>2. IsFiniteSet(1..n) /\ Cardinality(1..n) = IF 1 > n THEN 0 ELSE n - 1 + 1
  BY <1>1, FS_Interval
<1>3. (IF 1 > n THEN 0 ELSE n - 1 + 1) = n
  OBVIOUS
<1> QED
  BY <1>2, <1>3

\* Tasks of different jobs, of requests in A and of the first n repositories.
LEMMA AtMost ==
  ASSUME NEW q \in Seq(Tasks), \A i, j \in DOMAIN q : Job(q[i]) = Job(q[j]) => i = j,
         NEW A, IsFiniteSet(A), \A j \in DOMAIN q : q[j].kind = "request" => q[j].r \in A,
         NEW n \in Nat, \A j \in DOMAIN q : q[j].kind = "round" => q[j].i \in 1..n
  PROVE  Len(q) <= Cardinality(A) + n
<1> DEFINE D == 1..Len(q)
           Q == {j \in D : q[j].kind = "request"}
           R == {j \in D : q[j].kind = "round"}
           f == [j \in Q |-> q[j].r]
           g == [j \in R |-> q[j].i]
<1>1. Len(q) \in Nat /\ DOMAIN q = D /\ \A j \in D : q[j] \in Tasks
  OBVIOUS
<1>2. D = Q \cup R
  BY <1>1, TaskKinds
<1>3. f \in Injection(Q, A)
  <2>1. f \in [Q -> A]
    BY <1>1
  <2>2. ASSUME NEW i \in Q, NEW j \in Q, f[i] = f[j] PROVE i = j
    BY <1>1, <2>2, RequestJobs
  <2> QED
    BY <2>1, <2>2 DEF Injection, IsInjective
<1>4. g \in Injection(R, 1..n)
  <2>1. g \in [R -> 1..n]
    BY <1>1
  <2>2. ASSUME NEW i \in R, NEW j \in R, g[i] = g[j] PROVE i = j
    BY <1>1, <2>2, RoundJobs
  <2> QED
    BY <2>1, <2>2 DEF Injection, IsInjective
<1>5. IsFiniteSet(Q) /\ Cardinality(Q) <= Cardinality(A)
  BY <1>3, FS_Injection
<1>6. IsFiniteSet(1..n) /\ Cardinality(1..n) = n
  BY UpTo
<1>7. IsFiniteSet(R) /\ Cardinality(R) <= n
  BY <1>4, <1>6, FS_Injection
<1>8. Cardinality(Q \cup R) = Cardinality(Q) + Cardinality(R) - Cardinality(Q \cap R)
  BY <1>5, <1>7, FS_Union
<1>9. Cardinality(D) = Len(q)
  BY <1>1, UpTo
<1>10. IsFiniteSet(Q \cap R)
  BY <1>5, FS_Intersection
<1>11. /\ Cardinality(Q) \in Nat /\ Cardinality(R) \in Nat /\ Cardinality(A) \in Nat
       /\ Cardinality(Q \cap R) \in Nat
  BY <1>5, <1>7, <1>10, FS_CardinalityType
<1> HIDE DEF D, Q, R
<1> QED
  BY <1>1, <1>2, <1>5, <1>7, <1>8, <1>9, <1>11

RoomToSubmit ==
  Cardinality(Requests) + Len(repositories) <= QueueCap =>
    /\ loop = "submit" => Len(queue[PoolOf(k)]) < QueueCap
    /\ \A r \in Requests : at[r] = "submit" => Len(queue[pool[r]]) < QueueCap

\* A request has at most one task in a queue, and none while it submits; a repository has
\* at most one in a round.
LEMMA Room ==
  ASSUME IsFiniteSet(Requests), Inv
  PROVE  RoomToSubmit
<1> SUFFICES ASSUME Cardinality(Requests) + Len(repositories) <= QueueCap
             PROVE  /\ loop = "submit" => Len(queue[PoolOf(k)]) < QueueCap
                    /\ \A r \in Requests : at[r] = "submit" => Len(queue[pool[r]]) < QueueCap
  BY DEF RoomToSubmit
<1>1. /\ Len(repositories) \in Nat /\ Positions = 1..Len(repositories)
      /\ \A i \in Positions : PoolOf(i) \in Pools
  BY Places DEF Inv, TypeInv, RoundType
<1>2. QueueCap \in Nat /\ Cardinality(Requests) \in Nat
  BY QueueAssumption, FS_CardinalityType
<1>3. ASSUME NEW p \in Pools
      PROVE  /\ queue[p] \in Seq(Tasks) /\ Len(queue[p]) \in Nat
             /\ \A i, j \in DOMAIN queue[p] : Job(queue[p][i]) = Job(queue[p][j]) => i = j
             /\ \A j \in DOMAIN queue[p] : queue[p][j].kind = "request" =>
                  queue[p][j].r \in Requests /\ at[queue[p][j].r] = "wait"
             /\ \A j \in DOMAIN queue[p] : queue[p][j].kind = "round" =>
                  queue[p][j].i \in Positions /\ UnderWay(queue[p][j].i)
  <2>1. queue[p] \in Seq(Tasks)
    BY DEF Inv, TypeInv, QueueType
  <2>2. Len(queue[p]) \in Nat /\ \A j \in DOMAIN queue[p] : queue[p][j] \in Tasks
    BY <2>1
  <2>3. \A i, j \in DOMAIN queue[p] : Job(queue[p][i]) = Job(queue[p][j]) => i = j
    BY DEF Inv, JobInv, WaitOnce
  <2>4. \A j \in DOMAIN queue[p] : queue[p][j].kind = "request" =>
          queue[p][j].r \in Requests /\ at[queue[p][j].r] = "wait"
    BY <2>2, TaskKinds DEF Inv, AskInv
  <2>5. \A j \in DOMAIN queue[p] : queue[p][j].kind = "round" =>
          queue[p][j].i \in Positions /\ UnderWay(queue[p][j].i)
    BY DEF Inv, RoundInv, WaitInv, OpenTask, Open
  <2> QED
    BY <2>1, <2>2, <2>3, <2>4, <2>5
<1>4. ASSUME loop = "submit" PROVE Len(queue[PoolOf(k)]) < QueueCap
  <2>1. k \in Positions /\ PoolOf(k) \in Pools /\ k \in Nat /\ k - 1 \in Nat /\ k <= Len(repositories)
    BY <1>1, <1>4 DEF Inv, TypeInv, RoundType
  <2>2. \A i \in Positions : UnderWay(i) => i \in 1..(k - 1)
    BY <1>1, <1>4, <2>1 DEF UnderWay
  <2>3. Len(queue[PoolOf(k)]) <= Cardinality(Requests) + (k - 1) /\ Len(queue[PoolOf(k)]) \in Nat
    BY <1>3, <2>1, <2>2, AtMost
  <2> QED
    BY <1>1, <1>2, <2>1, <2>3
<1>5. ASSUME NEW r \in Requests, at[r] = "submit" PROVE Len(queue[pool[r]]) < QueueCap
  <2> DEFINE others == Requests \ {r}
  <2>1. pool[r] \in Pools
    BY <1>5 DEF Inv, StageInv, Stage
  <2>2. IsFiniteSet(others) /\ Cardinality(others) = Cardinality(Requests) - 1
    BY FS_RemoveElement
  <2>3. \A j \in DOMAIN queue[pool[r]] : queue[pool[r]][j].kind = "request" =>
          queue[pool[r]][j].r \in others
    BY <1>3, <1>5, <2>1
  <2>4. \A j \in DOMAIN queue[pool[r]] : queue[pool[r]][j].kind = "round" =>
          queue[pool[r]][j].i \in 1..Len(repositories)
    BY <1>1, <1>3, <2>1
  <2> HIDE DEF others
  <2>5. Len(queue[pool[r]]) <= Cardinality(others) + Len(repositories) /\ Len(queue[pool[r]]) \in Nat
    BY <1>1, <1>3, <2>1, <2>2, <2>3, <2>4, AtMost
  <2> QED
    BY <1>1, <1>2, <2>2, <2>5
<1> QED
  BY <1>4, <1>5

(***************************************************************************)
(* Who waits for whom.                                                     *)
(***************************************************************************)
Fetches(i) == {RoundTask(i, must) : must \in BOOLEAN}

\* What a round and a request wait for is in hand.
RoundAwaits == \A i \in Positions : Open(i) => InHand(PoolOf(i), Fetches(i))
RequestAwaits == \A r \in Requests : at[r] = "wait" => InHand(pool[r], {RequestTask(r)})

\* The tasks of a round come in the order of its channels, after that of the worker.
InOrder ==
  \A p \in Pools : \A j \in DOMAIN queue[p] : queue[p][j].kind = "round" =>
    /\ \A l \in 1..(j - 1) : queue[p][l].kind = "round" => queue[p][l].i < queue[p][j].i
    /\ task[p].kind = "round" => task[p].i < queue[p][j].i

\* A channel that has been read is empty until git gc is over.
ReadIsEmpty ==
  \A p \in Pools : phase[p] = "gc" /\ task[p].i # 0 =>
    PoolOf(task[p].i) = p /\ (Read(task[p].i) => errorChan[task[p].i] = <<>>)

AwaitInv == RoundAwaits /\ RequestAwaits /\ InOrder /\ ReadIsEmpty

\* The task t waits for the pool p or fetches in it.
Held(p, t) == (\E j \in DOMAIN queue[p] : queue[p][j] = t) \/ (phase[p] = "fetch" /\ task[p] = t)

\* Whatever is in hand before the step is in hand after it, but the task u of the pool p.
KeepsBut(p, u) == \A q \in Pools : \A t : Held(q, t) /\ ~(q = p /\ t = u) => Held(q, t)'

\* One of the tasks T is in hand when one of them is held.
LEMMA InHandHeld == \A p, T : InHand(p, T) <=> \E t \in T : Held(p, t)
BY DEF InHand, Held

\* The same after the step.
LEMMA InHandHeldNext == \A p, T : InHand(p, T)' <=> \E t \in T : Held(p, t)'
BY DEF InHand, Held

\* What a round waits for at repository i stays in hand.
LEMMA StaysInHand ==
  ASSUME TypeInv, RoundAwaits, repositories' = repositories, NEW p, NEW u, KeepsBut(p, u),
         NEW i \in Positions, Open(i), ~(PoolOf(i) = p /\ u \in Fetches(i))
  PROVE  InHand(PoolOf(i), Fetches(i))'
<1>1. PoolOf(i)' = PoolOf(i) /\ PoolOf(i) \in Pools
  BY SamePlaces, Places DEF TypeInv, RoundType
<1>2. PICK t \in Fetches(i) : Held(PoolOf(i), t)
  BY InHandHeld DEF RoundAwaits
<1>3. ~(PoolOf(i) = p /\ t = u)
  BY <1>2
<1>4. ASSUME NEW q, q = PoolOf(i) PROVE InHand(q, Fetches(i))'
  <2>1. Held(q, t)'
    BY <1>1, <1>2, <1>3, <1>4 DEF KeepsBut
  <2>2. ASSUME NEW T, T = Fetches(i) PROVE InHand(q, T)'
    BY <2>1, <2>2, <1>2, InHandHeldNext
  <2> QED
    BY <2>2 DEF Fetches, RoundTask
<1> QED
  BY <1>1, <1>4

\* What a round waits for stays in hand when the step ends no other fetch than one whose
\* channel is not empty afterwards.
LEMMA RoundAwaitsKept ==
  ASSUME TypeInv, RoundAwaits, repositories' = repositories, NEW p, NEW u, KeepsBut(p, u),
         \A i \in Positions : Open(i)' => Open(i) /\ ~(PoolOf(i) = p /\ u \in Fetches(i))
  PROVE  RoundAwaits'
<1> SUFFICES ASSUME NEW i \in Positions, Open(i)' PROVE InHand(PoolOf(i), Fetches(i))'
  BY SamePlaces DEF RoundAwaits
<1> QED
  BY StaysInHand

\* What a request waits for stays in hand when the step does not end its own fetch.
LEMMA RequestAwaitsKept ==
  ASSUME StageInv, RequestAwaits, NEW p, NEW u, KeepsBut(p, u),
         \A r \in Requests : at'[r] = "wait" => at[r] = "wait" /\ pool'[r] = pool[r] /\ u # RequestTask(r)
  PROVE  RequestAwaits'
<1> SUFFICES ASSUME NEW r \in Requests, at'[r] = "wait" PROVE InHand(pool[r], {RequestTask(r)})'
  BY DEF RequestAwaits
<1>1. pool[r] \in Pools /\ at[r] = "wait"
  BY DEF StageInv, Stage
<1>2. Held(pool[r], RequestTask(r))
  BY <1>1, InHandHeld DEF RequestAwaits
<1>3. ASSUME NEW q, q = pool[r], NEW t, t = RequestTask(r) PROVE Held(q, t)'
  BY <1>1, <1>2, <1>3 DEF KeepsBut
<1>4. ASSUME NEW q, q = pool[r], NEW T, T = {RequestTask(r)} PROVE InHand(q, T)'
  BY <1>3, <1>4, InHandHeldNext
<1>5. pool'[r] = pool[r]
  OBVIOUS
<1> QED
  BY <1>4, <1>5

\* A worker picks up a task: it alone may be no longer in hand.
LEMMA KeptByPick ==
  ASSUME Inv, NEW p \in Pools, PickUp(p), repositories' = repositories,
         \A q \in Pools : q # p => phase'[q] = phase[q] /\ task'[q] = task[q]
  PROVE  KeepsBut(p, Head(queue[p]))
<1>1. /\ phase[p] = "idle" /\ Head(queue[p]) = queue[p][1]
      /\ \A q \in Pools : q # p => queue'[q] = queue[q]
  BY Picked DEF Inv, TypeInv
<1>2. queue[p] \in Seq(Tasks) /\ queue[p] # <<>> /\ queue'[p] = Tail(queue[p])
  BY DEF Inv, TypeInv, QueueType, PickUp
<1>3. \A j \in DOMAIN queue[p] : j # 1 => j - 1 \in DOMAIN queue'[p] /\ queue'[p][j - 1] = queue[p][j]
  BY <1>2
<1> SUFFICES ASSUME NEW q \in Pools, NEW t, Held(q, t), ~(q = p /\ t = Head(queue[p]))
             PROVE  Held(q, t)'
  BY DEF KeepsBut
<1>4. CASE q # p
  BY <1>1, <1>4 DEF Held
<1>5. CASE q = p
  <2>1. PICK j \in DOMAIN queue[p] : queue[p][j] = t
    BY <1>1, <1>5 DEF Held
  <2>2. j # 1
    BY <1>1, <1>5, <2>1
  <2>3. \E l \in DOMAIN queue'[p] : queue'[p][l] = t
    BY <1>3, <2>1, <2>2
  <2> QED
    BY <1>5, <2>3 DEF Held
<1> QED
  BY <1>4, <1>5

\* A worker ends with its task: it alone is no longer in hand.
LEMMA KeptByEnd ==
  ASSUME queue' = queue, NEW p \in Pools,
         \A q \in Pools : q # p => phase'[q] = phase[q] /\ task'[q] = task[q]
  PROVE  KeepsBut(p, task[p])
BY DEF KeepsBut, Held

\* A step that neither ends a fetch nor picks up a task keeps all in hand.
LEMMA KeptByAll ==
  ASSUME queue' = queue, \A q \in Pools : phase[q] = "fetch" => phase'[q] = "fetch" /\ task'[q] = task[q]
  PROVE  KeepsBut(NoPool, NoTask)
BY DEF KeepsBut, Held

\* A task is submitted: it comes into hand, and nothing goes.
LEMMA KeptByAdding ==
  ASSUME QueueType, NEW p \in Pools, NEW t \in Tasks, Len(queue[p]) < QueueCap,
         queue' = [queue EXCEPT ![p] = Append(@, t)], repositories' = repositories, UNCHANGED <<phase, task>>
  PROVE  KeepsBut(NoPool, NoTask) /\ Held(p, t)'
<1>1. queue[p] \in Seq(Tasks) /\ Len(queue[p]) \in Nat
  BY DEF QueueType
<1>2. queue'[p] = Append(queue[p], t) /\ \A q \in Pools : q # p => queue'[q] = queue[q]
  BY DEF QueueType
<1>3. Len(queue[p]) + 1 \in DOMAIN Append(queue[p], t) /\ Append(queue[p], t)[Len(queue[p]) + 1] = t
  BY <1>1
<1>4. \A j \in DOMAIN queue[p] : j \in DOMAIN Append(queue[p], t) /\ Append(queue[p], t)[j] = queue[p][j]
  BY <1>1
<1>5. Held(p, t)'
  BY <1>2, <1>3 DEF Held
<1>6. ASSUME NEW q \in Pools, NEW u, Held(q, u) PROVE Held(q, u)'
  <2>1. CASE q # p
    BY <1>2, <1>6, <2>1 DEF Held
  <2>2. CASE q = p
    <3>1. (\E j \in DOMAIN queue[p] : queue[p][j] = u) => \E j \in DOMAIN queue'[p] : queue'[p][j] = u
      BY <1>2, <1>4
    <3> QED
      BY <1>6, <2>2, <3>1 DEF Held
  <2> QED
    BY <2>1, <2>2
<1> QED
  BY <1>5, <1>6 DEF KeepsBut

\* The tasks of a round stay in order when the first is picked up.
LEMMA OrderAfterPick ==
  ASSUME Inv, InOrder, NEW p \in Pools, PickUp(p), repositories' = repositories,
         task'[p] \in {NoTask, Head(queue[p])}, \A q \in Pools : q # p => task'[q] = task[q]
  PROVE  InOrder'
<1>1. /\ 1 \in DOMAIN queue[p] /\ Head(queue[p]) = queue[p][1]
      /\ \A q \in Pools : q # p => queue'[q] = queue[q]
      /\ \A j \in DOMAIN queue'[p] :
           j \in Nat \ {0} /\ j + 1 \in DOMAIN queue[p] /\ queue'[p][j] = queue[p][j + 1]
  BY Picked DEF Inv, TypeInv
<1>2. queue'[p] \in Seq(Tasks)
  BY Picked, SamePlaces DEF Inv, TypeInv, QueueType
<1> SUFFICES ASSUME NEW q \in Pools, NEW j \in DOMAIN queue'[q], queue'[q][j].kind = "round"
             PROVE  /\ \A l \in 1..(j - 1) : queue'[q][l].kind = "round" => queue'[q][l].i < queue'[q][j].i
                    /\ task'[q].kind = "round" => task'[q].i < queue'[q][j].i
  BY DEF InOrder
<1>3. CASE q # p
  BY <1>1, <1>3 DEF InOrder
<1>4. CASE q = p
  <2>1. j \in Nat \ {0} /\ j + 1 \in DOMAIN queue[p] /\ queue'[p][j] = queue[p][j + 1]
    BY <1>1, <1>4
  <2>2. ASSUME NEW l \in 1..(j - 1), queue'[p][l].kind = "round" PROVE queue'[p][l].i < queue'[p][j].i
    <3>1. l \in DOMAIN queue'[p] /\ l + 1 \in 1..((j + 1) - 1)
      BY <1>2, <1>4, <2>1
    <3>2. queue'[p][l] = queue[p][l + 1]
      BY <1>1, <3>1
    <3> QED
      BY <1>4, <2>1, <2>2, <3>1, <3>2 DEF InOrder
  <2>3. ASSUME task'[p].kind = "round" PROVE task'[p].i < queue'[p][j].i
    <3>1. task'[p] = queue[p][1]
      BY <1>1, <2>3, TaskKinds
    <3>2. 1 \in 1..((j + 1) - 1)
      BY <2>1
    <3> QED
      BY <1>4, <2>1, <2>3, <3>1, <3>2 DEF InOrder
  <2> QED
    BY <1>4, <2>2, <2>3
<1> QED
  BY <1>3, <1>4

\* They do when workers end with their tasks.
LEMMA OrderStays ==
  ASSUME InOrder, queue' = queue, \A q \in Pools : task'[q] \in {NoTask, task[q]}
  PROVE  InOrder'
BY TaskKinds DEF InOrder

\* They do when a request submits, or the round a repository after those it has submitted.
LEMMA OrderAfterAdding ==
  ASSUME TypeInv, InOrder, NEW p \in Pools, NEW t \in Tasks, Len(queue[p]) < QueueCap,
         queue' = [queue EXCEPT ![p] = Append(@, t)], repositories' = repositories, task' = task,
         t.kind = "round" => /\ task[p].kind = "round" => task[p].i < t.i
                             /\ \A l \in DOMAIN queue[p] : queue[p][l].kind = "round" => queue[p][l].i < t.i
  PROVE  InOrder'
<1>1. /\ \A q \in Pools : q # p => queue'[q] = queue[q]
      /\ queue'[p] = Append(queue[p], t) /\ queue[p] \in Seq(Tasks) /\ Len(queue[p]) \in Nat
  BY DEF TypeInv, QueueType
<1>2. /\ DOMAIN queue[p] = 1..Len(queue[p]) /\ DOMAIN Append(queue[p], t) = 1..(Len(queue[p]) + 1)
      /\ \A j \in DOMAIN queue[p] : Append(queue[p], t)[j] = queue[p][j]
      /\ Append(queue[p], t)[Len(queue[p]) + 1] = t
  BY <1>1
<1> SUFFICES ASSUME NEW q \in Pools, NEW j \in DOMAIN queue'[q], queue'[q][j].kind = "round"
             PROVE  /\ \A l \in 1..(j - 1) : queue'[q][l].kind = "round" => queue'[q][l].i < queue'[q][j].i
                    /\ task[q].kind = "round" => task[q].i < queue'[q][j].i
  BY DEF InOrder
<1>3. CASE q # p
  BY <1>1, <1>3 DEF InOrder
<1>4. CASE q = p
  <2> DEFINE s == Append(queue[p], t)
  <2>1. queue'[q] = s /\ j \in 1..(Len(queue[p]) + 1) /\ \A l \in 1..(j - 1) : l \in DOMAIN queue[p] /\ s[l] = queue[p][l]
    BY <1>1, <1>2, <1>4
  <2>2. (j \in DOMAIN queue[p] /\ s[j] = queue[p][j]) \/ s[j] = t
    BY <1>1, <1>2, <2>1
  <2> HIDE DEF s
  <2>3. CASE j \in DOMAIN queue[p] /\ s[j] = queue[p][j]
    BY <1>4, <2>1, <2>3 DEF InOrder
  <2>4. CASE s[j] = t
    BY <1>4, <2>1, <2>4
  <2> QED
    BY <2>2, <2>3, <2>4
<1> QED
  BY <1>3, <1>4

\* NoTask is the task of nobody.
LEMMA NobodysTask ==
  /\ \A i \in Positions : NoTask \notin Fetches(i)
  /\ \A r \in Requests : NoTask # RequestTask(r)
  /\ \A i \in Positions : \A t \in Fetches(i) : t.kind = "round" /\ t.i = i
  /\ \A i \in Positions : \A r \in Requests : RequestTask(r) \notin Fetches(i)
<1>1. \A i \in Positions : \A t \in Fetches(i) : t.kind = "round" /\ t.i = i
  BY TaskKinds DEF Fetches
<1>2. NoTask.kind = "none" /\ \A r \in Requests : RequestTask(r).kind = "request"
  BY TaskKinds
<1>3. "none" # "round" /\ "none" # "request" /\ "request" # "round"
  OBVIOUS
<1> QED
  BY <1>1, <1>2, <1>3, Zenon

\* What has been read stays empty when the step sends to another channel only, or to that
\* of a repository that is still to be read.
LEMMA ReadIsEmptyKept ==
  ASSUME TypeInv, RoundInv, ReadIsEmpty, UNCHANGED rounds, NEW i,
         \A j \in Positions : j # i => errorChan'[j] = errorChan[j],
         \A q \in Pools : phase'[q] = "gc" /\ task'[q].i # 0 =>
           \/ phase[q] = "gc" /\ task'[q] = task[q] /\ (task[q].i # i \/ ~Read(i))
           \/ PoolOf(task'[q].i) = q /\ ~Read(task'[q].i)
  PROVE  ReadIsEmpty'
<1>1. repositories' = repositories /\ \A j : (Read(j)' <=> Read(j)) /\ PoolOf(j)' = PoolOf(j)
  BY DEF rounds, Read, PoolOf
<1> SUFFICES ASSUME NEW q \in Pools, phase'[q] = "gc", task'[q].i # 0
             PROVE  PoolOf(task'[q].i) = q /\ (Read(task'[q].i) => errorChan'[task'[q].i] = <<>>)
  BY <1>1 DEF ReadIsEmpty, Read, PoolOf, rounds
<1>2. CASE phase[q] = "gc" /\ task'[q] = task[q] /\ (task[q].i # i \/ ~Read(i))
  <2>1. task[q].i \in Positions
    BY <1>2 DEF RoundInv, GCInv
  <2> QED
    BY <1>2, <2>1 DEF ReadIsEmpty
<1>3. CASE PoolOf(task'[q].i) = q /\ ~Read(task'[q].i)
  BY <1>3
<1> QED
  BY <1>2, <1>3

\* Open repositories are under way and not read.
LEMMA OpenIsNotRead == ASSUME TypeInv, NEW i \in Positions, Open(i) PROVE ~Read(i) /\ errorChan[i] = <<>>
<1>1. i \in Nat /\ k \in Nat
  BY Place
<1> QED
  BY <1>1 DEF Open, UnderWay, Read

\* A worker begins a fetch.
LEMMA BeginAwaits ==
  ASSUME Inv, AwaitInv, NEW p \in Pools, BeginFetch(p)
  PROVE  AwaitInv'
<1>1. /\ PickUp(p) /\ task' = [task EXCEPT ![p] = Head(queue[p])] /\ phase' = [phase EXCEPT ![p] = "fetch"]
      /\ UNCHANGED <<rounds, errorChan, at, pool>>
  BY DEF BeginFetch, requests
<1>2. repositories' = repositories
  BY <1>1 DEF rounds
<1>3. /\ phase'[p] = "fetch" /\ task'[p] = Head(queue[p])
      /\ \A q \in Pools : q # p => phase'[q] = phase[q] /\ task'[q] = task[q]
  BY <1>1 DEF Inv, TypeInv, PoolType
<1>4. KeepsBut(p, Head(queue[p]))
  BY <1>1, <1>2, <1>3, KeptByPick
<1>5. KeepsBut(NoPool, NoTask)
  <2>1. \A t : t = Head(queue[p]) => Held(p, t)'
    BY <1>3 DEF Held
  <2> QED
    BY <1>4, <2>1 DEF KeepsBut
<1>6. RoundAwaits'
  <2>1. \A i \in Positions : Open(i)' => Open(i)
    BY <1>1 DEF Open, UnderWay, rounds
  <2> QED
    BY <1>2, <1>5, <2>1, NobodysTask, RoundAwaitsKept DEF Inv, AwaitInv
<1>7. RequestAwaits'
  BY <1>1, <1>5, NobodysTask, RequestAwaitsKept DEF Inv, AwaitInv
<1>8. InOrder'
  BY <1>1, <1>2, <1>3, OrderAfterPick DEF AwaitInv
<1>9. ReadIsEmpty'
  <2>1. \A q \in Pools : phase'[q] = "gc" => phase[q] = "gc" /\ task'[q] = task[q] /\ q # p
    BY <1>3
  <2>2. \A q \in Pools : phase'[q] = "gc" /\ task'[q].i # 0 => phase[q] = "gc" /\ task'[q] = task[q] /\ task[q].i # 0
    BY <2>1
  <2> QED
    BY <1>1, <2>2, ReadIsEmptyKept DEF Inv, AwaitInv
<1> QED
  BY <1>6, <1>7, <1>8, <1>9 DEF AwaitInv

\* A worker skips the fetch of a round: the value is on its channel.
LEMMA SkipRoundAwaits ==
  ASSUME Inv, AwaitInv, NEW p \in Pools, SkipRound(p)
  PROVE  AwaitInv'
<1> DEFINE t == Head(queue[p])
<1>1. /\ PickUp(p) /\ t.kind = "round" /\ Send(t.i, FALSE) /\ AfterFetch(p, t)
      /\ UNCHANGED <<rounds, at, pool>>
  BY DEF SkipRound, requests
<1>2. repositories' = repositories
  BY <1>1 DEF rounds
<1>3. t \in Tasks /\ \E l \in DOMAIN queue[p] : t = queue[p][l]
  BY <1>1, <1>2, FirstTask
<1>4. /\ phase'[p] # "fetch" /\ (phase'[p] = "gc" => task'[p] = t) /\ task'[p] \in {NoTask, t}
      /\ \A q \in Pools : q # p => phase'[q] = phase[q] /\ task'[q] = task[q]
  BY <1>1 DEF AfterFetch, Worker, Inv, TypeInv, PoolType
<1>5. KeepsBut(p, t)
  BY <1>1, <1>2, <1>4, KeptByPick
<1>6. InOrder'
  BY <1>1, <1>2, <1>4, OrderAfterPick DEF AwaitInv
<1> HIDE DEF t
<1>7. t.i \in Positions /\ PoolOf(t.i) = p /\ Open(t.i)
  BY <1>1, <1>3 DEF Inv, RoundInv, WaitInv, OpenTask
<1>8. t.i # 0
  BY <1>7, Place DEF Inv
<1>9. errorChan'[t.i] # <<>> /\ \A j \in Positions : j # t.i => errorChan'[j] = errorChan[j]
  <2>1. /\ errorChan'[t.i] = <<"nil">>
        /\ \A j \in Positions : j # t.i => errorChan'[j] = errorChan[j]
    BY <1>1, <1>7, <1>8, SendFacts DEF Inv, TypeInv
  <2> QED
    BY <2>1
<1>10. RoundAwaits'
  <2>1. \A i \in Positions : Open(i)' => Open(i) /\ i # t.i
    BY <1>1, <1>9 DEF Open, UnderWay, rounds
  <2>2. \A i \in Positions : Open(i)' => Open(i) /\ ~(PoolOf(i) = p /\ t \in Fetches(i))
    BY <2>1, NobodysTask
  <2> QED
    BY <1>2, <1>5, <2>2, RoundAwaitsKept DEF Inv, AwaitInv
<1>11. RequestAwaits'
  <2>1. \A r \in Requests : t # RequestTask(r)
    BY <1>1, TaskKinds
  <2> QED
    BY <1>1, <1>5, <2>1, RequestAwaitsKept DEF Inv, AwaitInv
<1>12. ReadIsEmpty'
  <2>1. ~Read(t.i)
    BY <1>7, OpenIsNotRead DEF Inv
  <2>2. \A q \in Pools : phase'[q] = "gc" =>
          \/ phase[q] = "gc" /\ task'[q] = task[q]
          \/ q = p /\ task'[q] = t
    BY <1>4
  <2>3. \A q \in Pools : phase'[q] = "gc" /\ task'[q].i # 0 =>
          \/ phase[q] = "gc" /\ task'[q] = task[q] /\ (task[q].i # t.i \/ ~Read(t.i))
          \/ PoolOf(task'[q].i) = q /\ ~Read(task'[q].i)
    BY <1>7, <2>1, <2>2
  <2> QED
    BY <1>1, <1>9, <2>3, ReadIsEmptyKept DEF Inv, AwaitInv
<1> QED
  BY <1>6, <1>10, <1>11, <1>12 DEF AwaitInv

\* A step that leaves alone all that anyone waits for.
LEMMA NothingMoves ==
  ASSUME AwaitInv, UNCHANGED <<repositories, loop, k, errorChan, queue, task, phase, at, pool>>
  PROVE  AwaitInv'
<1>1. RoundAwaits'
  BY DEF AwaitInv, RoundAwaits, Positions, Open, UnderWay, InHand, PoolOf, Fetches, RoundTask
<1>2. RequestAwaits'
  BY DEF AwaitInv, RequestAwaits, InHand
<1>3. InOrder' /\ ReadIsEmpty'
  BY DEF AwaitInv, InOrder, ReadIsEmpty, Read, PoolOf
<1> QED
  BY <1>1, <1>2, <1>3 DEF AwaitInv

\* A worker skips the fetch of a request: the request goes on.
LEMMA SkipRequestAwaits ==
  ASSUME Inv, AwaitInv, NEW p \in Pools, SkipRequest(p)
  PROVE  AwaitInv'
<1> DEFINE t == Head(queue[p])
<1>1. /\ PickUp(p) /\ t.kind = "request" /\ at' = [at EXCEPT ![t.r] = "recheck"]
      /\ UNCHANGED <<rounds, errorChan, pool, phase, task>>
  BY DEF SkipRequest, work
<1>2. repositories' = repositories
  BY <1>1 DEF rounds
<1>3. t \in Tasks /\ phase[p] = "idle"
  BY <1>1, <1>2, FirstTask
<1>4. KeepsBut(p, t)
  BY <1>1, <1>2, KeptByPick
<1>5. InOrder'
  <2>1. task[p] = NoTask
    BY <1>3 DEF Inv, TypeInv, PoolType
  <2> QED
    BY <1>1, <1>2, <2>1, OrderAfterPick DEF AwaitInv
<1> HIDE DEF t
<1>6. RoundAwaits'
  <2>1. \A i \in Positions : Open(i)' => Open(i)
    BY <1>1 DEF Open, UnderWay, rounds
  <2>2. \A i \in Positions : t \notin Fetches(i)
    BY <1>1, NobodysTask
  <2> QED
    BY <1>2, <1>4, <2>1, <2>2, RoundAwaitsKept DEF Inv, AwaitInv
<1>7. RequestAwaits'
  <2>1. t.r \in Requests
    BY <1>1, <1>3, TaskKinds
  <2>2. \A r \in Requests : at'[r] = "wait" => at[r] = "wait" /\ r # t.r
    BY <1>1, <2>1 DEF Inv, TypeInv, RequestType
  <2>3. \A r \in Requests : r # t.r => t # RequestTask(r)
    BY TaskKinds
  <2> QED
    BY <1>1, <1>4, <2>2, <2>3, RequestAwaitsKept DEF Inv, AwaitInv
<1>8. ReadIsEmpty'
  BY <1>1, ReadIsEmptyKept DEF Inv, AwaitInv
<1> QED
  BY <1>5, <1>6, <1>7, <1>8 DEF AwaitInv

\* A fetch ends: the value is on its channel, or the request goes on.
LEMMA EndOfFetchAwaits ==
  ASSUME Inv, AwaitInv, NEW p \in Pools, NEW err \in BOOLEAN, Tell(p, err), phase[p] = "fetch",
         UNCHANGED <<rounds, queue, pool>>
  PROVE  AwaitInv'
<1>1. /\ task[p] \in Tasks /\ Ends(p, task[p])
      /\ \/ task[p].kind = "round" /\ Send(task[p].i, err) /\ at' = at
         \/ /\ task[p].kind = "request" /\ errorChan' = errorChan
            /\ at' = [at EXCEPT ![task[p].r] = "recheck"]
  BY FetchEnds DEF Inv
<1>2. /\ (phase'[p] = "gc" => task'[p] = task[p] /\ task[p].kind = "round") /\ task'[p] \in {NoTask, task[p]}
      /\ \A q \in Pools : q # p => phase'[q] = phase[q] /\ task'[q] = task[q]
  BY <1>1 DEF Ends, Inv, TypeInv, PoolType
<1>3. repositories' = repositories
  BY DEF rounds
<1>4. KeepsBut(p, task[p])
  BY <1>2, KeptByEnd
<1>5. InOrder'
  BY <1>2, OrderStays DEF AwaitInv
<1>6. CASE task[p].kind = "round" /\ Send(task[p].i, err) /\ at' = at
  <2> DEFINE i == task[p].i
  <2>1. i \in Positions /\ PoolOf(i) = p /\ Open(i)
    BY <1>6 DEF Inv, RoundInv, FetchInv, OpenTask
  <2>2. i # 0 /\ ~Read(i)
    BY <2>1, Place, OpenIsNotRead DEF Inv
  <2>3. errorChan'[i] # <<>> /\ \A j \in Positions : j # i => errorChan'[j] = errorChan[j]
    <3>1. errorChan'[i] = <<"err">> \/ errorChan'[i] = <<"nil">>
      BY <1>6, <2>1, <2>2, SendFacts DEF Inv, TypeInv
    <3>2. \A j \in Positions : j # i => errorChan'[j] = errorChan[j]
      BY <1>6, <2>1, <2>2, SendFacts DEF Inv, TypeInv
    <3>3. <<"err">> # <<>> /\ <<"nil">> # <<>>
      OBVIOUS
    <3> QED
      BY <3>1, <3>2, <3>3, Zenon
  <2> HIDE DEF i
  <2>4. RoundAwaits'
    <3>1. \A j \in Positions : Open(j)' => Open(j) /\ j # i
      BY <2>3 DEF Open, UnderWay, rounds
    <3>2. \A j \in Positions : Open(j)' => Open(j) /\ ~(PoolOf(j) = p /\ task[p] \in Fetches(j))
      BY <3>1, NobodysTask DEF i
    <3> QED
      BY <1>3, <1>4, <3>2, RoundAwaitsKept DEF Inv, AwaitInv
  <2>5. RequestAwaits'
    <3>1. \A r \in Requests : task[p] # RequestTask(r)
      BY <1>6, TaskKinds
    <3> QED
      BY <1>4, <1>6, <3>1, RequestAwaitsKept DEF Inv, AwaitInv
  <2>6. ReadIsEmpty'
    <3>1. \A q \in Pools : phase'[q] = "gc" =>
            \/ phase[q] = "gc" /\ task'[q] = task[q]
            \/ q = p /\ task'[q].i = i
      BY <1>2 DEF i
    <3>2. \A q \in Pools : phase'[q] = "gc" /\ task'[q].i # 0 =>
            \/ phase[q] = "gc" /\ task'[q] = task[q] /\ (task[q].i # i \/ ~Read(i))
            \/ PoolOf(task'[q].i) = q /\ ~Read(task'[q].i)
      BY <2>1, <2>2, <3>1
    <3> QED
      BY <2>3, <3>2, ReadIsEmptyKept DEF Inv, AwaitInv
  <2> QED
    BY <1>5, <2>4, <2>5, <2>6 DEF AwaitInv
<1>7. CASE task[p].kind = "request" /\ errorChan' = errorChan /\ at' = [at EXCEPT ![task[p].r] = "recheck"]
  <2>1. RoundAwaits'
    <3>1. \A i \in Positions : Open(i)' => Open(i)
      BY <1>7 DEF Open, UnderWay, rounds
    <3>2. \A i \in Positions : task[p] \notin Fetches(i)
      BY <1>7, NobodysTask
    <3> QED
      BY <1>3, <1>4, <3>1, <3>2, RoundAwaitsKept DEF Inv, AwaitInv
  <2>2. RequestAwaits'
    <3>1. task[p].r \in Requests
      BY <1>1, <1>7, TaskKinds
    <3>2. \A r \in Requests : at'[r] = "wait" => at[r] = "wait" /\ r # task[p].r
      BY <1>7, <3>1 DEF Inv, TypeInv, RequestType
    <3>3. \A r \in Requests : r # task[p].r => task[p] # RequestTask(r)
      BY TaskKinds
    <3> QED
      BY <1>4, <3>2, <3>3, RequestAwaitsKept DEF Inv, AwaitInv
  <2>3. ReadIsEmpty'
    <3>1. \A q \in Pools : phase'[q] = "gc" => phase[q] = "gc" /\ task'[q] = task[q]
      BY <1>2, <1>7
    <3>2. \A q \in Pools : phase'[q] = "gc" /\ task'[q].i # 0 =>
            phase[q] = "gc" /\ task'[q] = task[q] /\ task[q].i # 0
      BY <3>1
    <3> QED
      BY <1>7, <3>2, ReadIsEmptyKept DEF Inv, AwaitInv
  <2> QED
    BY <1>5, <2>1, <2>2, <2>3 DEF AwaitInv
<1> QED
  BY <1>1, <1>6, <1>7

\* git gc ends: its channel was read and was empty, and no other task has that channel.
LEMMA EndGCAwaits ==
  ASSUME Inv, AwaitInv, NEW p \in Pools, EndGC(p)
  PROVE  AwaitInv'
<1>1. PICK err \in BOOLEAN : Send(task[p].i, err)
  BY DEF EndGC
<1>2. /\ phase[p] = "gc" /\ UNCHANGED <<rounds, queue, at, pool>>
      /\ phase' = [phase EXCEPT ![p] = "idle"] /\ task' = [task EXCEPT ![p] = NoTask]
  BY DEF EndGC, Worker, requests
<1>3. /\ phase'[p] = "idle" /\ task'[p] = NoTask /\ repositories' = repositories
      /\ \A q \in Pools : q # p => phase'[q] = phase[q] /\ task'[q] = task[q]
  BY <1>2 DEF Inv, TypeInv, PoolType, rounds
<1>4. KeepsBut(NoPool, NoTask)
  BY <1>2, <1>3, KeptByAll
<1>5. InOrder'
  BY <1>2, <1>3, OrderStays DEF AwaitInv
<1>6. task[p].i \in Positions \cup {0}
  BY <1>2, TaskKinds DEF Inv, TypeInv, PoolType
<1>7. /\ \A j \in Positions : j # task[p].i => errorChan'[j] = errorChan[j]
      /\ task[p].i # 0 => errorChan'[task[p].i] # <<>>
  <2>1. \A j \in Positions : j # task[p].i => errorChan'[j] = errorChan[j]
    BY <1>1, <1>6, SendFacts DEF Inv, TypeInv
  <2>2. task[p].i # 0 => errorChan'[task[p].i] = <<"err">> \/ errorChan'[task[p].i] = <<"nil">>
    BY <1>1, <1>6, SendFacts DEF Inv, TypeInv
  <2>3. <<"err">> # <<>> /\ <<"nil">> # <<>>
    OBVIOUS
  <2> QED
    BY <2>1, <2>2, <2>3, Zenon
<1>8. RoundAwaits'
  <2>1. 0 \notin Positions
    BY Places DEF Inv, TypeInv, RoundType
  <2>2. \A i \in Positions : Open(i)' => Open(i)
    BY <1>2, <1>7, <2>1 DEF Open, UnderWay, rounds
  <2> QED
    BY <1>3, <1>4, <2>2, NobodysTask, RoundAwaitsKept DEF Inv, AwaitInv
<1>9. RequestAwaits'
  BY <1>2, <1>4, NobodysTask, RequestAwaitsKept DEF Inv, AwaitInv
<1>10. ReadIsEmpty'
  <2>1. ASSUME NEW q \in Pools, phase'[q] = "gc", task'[q].i # 0
        PROVE  phase[q] = "gc" /\ task'[q] = task[q] /\ task[q].i # task[p].i
    <3>1. q # p /\ phase[q] = "gc" /\ task'[q] = task[q]
      BY <1>3, <2>1
    <3>2. PoolOf(task[q].i) = q
      BY <2>1, <3>1 DEF AwaitInv, ReadIsEmpty
    <3>3. task[p].i # 0 => PoolOf(task[p].i) = p
      BY <1>2 DEF AwaitInv, ReadIsEmpty
    <3> QED
      BY <2>1, <3>1, <3>2, <3>3
  <2> QED
    BY <1>2, <1>7, <2>1, ReadIsEmptyKept DEF Inv, AwaitInv
<1> QED
  BY <1>5, <1>8, <1>9, <1>10 DEF AwaitInv

\* Every step of a worker.
LEMMA WorkAwaits ==
  ASSUME Inv, AwaitInv, NEW p \in Pools, Work(p) \/ Age(p)
  PROVE  AwaitInv'
<1>1. CASE FetchSucceeds(p)
  <2>1. Tell(p, FALSE) /\ phase[p] = "fetch" /\ UNCHANGED <<rounds, queue, pool>>
    BY <1>1 DEF FetchSucceeds
  <2> QED
    BY <2>1, EndOfFetchAwaits
<1>2. CASE FetchFails(p)
  <2>1. Tell(p, TRUE) /\ phase[p] = "fetch" /\ UNCHANGED <<rounds, queue, pool>>
    BY <1>2 DEF FetchFails
  <2> QED
    BY <2>1, EndOfFetchAwaits
<1>3. CASE Age(p)
  <2>1. UNCHANGED <<repositories, loop, k, errorChan, queue, task, phase, at, pool>>
    BY <1>3 DEF Age, rounds, requests
  <2> QED
    BY <2>1, NothingMoves
<1> QED
  BY <1>1, <1>2, <1>3, BeginAwaits, SkipRoundAwaits, SkipRequestAwaits, EndGCAwaits DEF Work

\* Only Submit makes a request wait.
LEMMA HandlerTo ==
  ASSUME TypeInv, NEW r \in Requests, Authorize(r) \/ Handle(r) \/ NextRequest(r), ~Submit(r)
  PROVE  at'[r] # "wait"
<1> USE DEF Go, Reject, Succeed, Fail
<1>0. at \in [Requests -> Stages]
  BY DEF TypeInv, RequestType
<1>1. CASE Refuse(r) \/ NextRequest(r) \/ Go(r, "idle", "handle")
  BY <1>0, <1>1 DEF Refuse, NextRequest
<1>2. CASE Opens(r)
  BY <1>0, <1>2 DEF Opens, OpenRepository
<1>3. CASE LsRefs(r) \/ Check(r) \/ CheckFails(r) \/ EndRequest(r)
  BY <1>0, <1>3 DEF LsRefs, Check, CheckFails, EndRequest
<1>4. CASE Recheck(r) \/ ServeFetchLocal(r)
  BY <1>0, <1>4 DEF Recheck, ServeFetchLocal
<1> QED
  BY <1>1, <1>2, <1>3, <1>4, HandlerCases

\* Every step of a handler: its request waits when its task is in the queue.
LEMMA HandlerAwaits ==
  ASSUME Inv, AwaitInv, NEW r \in Requests, Authorize(r) \/ Handle(r) \/ NextRequest(r)
  PROVE  AwaitInv'
<1> USE DEF Inv
<1>1. UNCHANGED Quiet /\ at[r] # "wait" /\ (queue' = queue \/ Submit(r))
  BY HandlersAreQuiet
<1>2. /\ RequestType' /\ Stage(r)'
      /\ \A q \in Requests : q # r => at'[q] = at[q] /\ pool'[q] = pool[q]
  BY HandlerStep DEF Same, StageInv
<1>3. UNCHANGED <<rounds, repositories, errorChan, task, phase>>
  BY <1>1 DEF Quiet, rounds, work
<1>4. ReadIsEmpty'
  BY <1>3, ReadIsEmptyKept DEF AwaitInv
<1>5. \A i \in Positions : Open(i)' => Open(i)
  BY <1>3 DEF Open, UnderWay, rounds
<1>6. CASE Submit(r)
  <2>1. /\ at[r] = "submit" /\ Len(queue[pool[r]]) < QueueCap
        /\ queue' = [queue EXCEPT ![pool[r]] = Append(@, RequestTask(r))] /\ pool' = pool
    BY <1>6 DEF Submit, Go, Stay
  <2>2. pool[r] \in Pools /\ RequestTask(r) \in Tasks /\ RequestTask(r).kind = "request"
    BY <2>1, TaskKinds DEF StageInv, Stage
  <2> DEFINE t == RequestTask(r)
  <2>3. t \in Tasks /\ t.kind # "round" /\ queue' = [queue EXCEPT ![pool[r]] = Append(@, t)]
    BY <2>1, <2>2
  <2> HIDE DEF t
  <2>4. ASSUME NEW p, p = pool[r] PROVE InOrder' /\ KeepsBut(NoPool, NoTask) /\ Held(p, t)'
    <3>1. /\ p \in Pools /\ Len(queue[p]) < QueueCap /\ queue' = [queue EXCEPT ![p] = Append(@, t)]
      BY <2>1, <2>2, <2>3, <2>4
    <3>2. InOrder'
      BY <1>3, <2>3, <3>1, OrderAfterAdding DEF AwaitInv
    <3>3. KeepsBut(NoPool, NoTask) /\ Held(p, t)'
      BY <1>3, <2>3, <3>1, KeptByAdding DEF TypeInv
    <3> QED
      BY <3>2, <3>3
  <2>5. RoundAwaits'
    BY <1>3, <1>5, <2>4, NobodysTask, RoundAwaitsKept DEF AwaitInv
  <2>6. RequestAwaits'
    <3> SUFFICES ASSUME NEW q \in Requests, at'[q] = "wait", NEW p, p = pool[q], NEW u, u = RequestTask(q)
                 PROVE  Held(p, u)'
      BY <2>1, InHandHeldNext DEF RequestAwaits, RequestTask
    <3>1. CASE q = r
      BY <2>4, <3>1 DEF t
    <3>2. CASE q # r
      <4>1. at[q] = "wait" /\ p \in Pools
        BY <1>2, <3>2 DEF StageInv, Stage
      <4>2. Held(p, u)
        BY <4>1, InHandHeld DEF AwaitInv, RequestAwaits
      <4> QED
        BY <2>4, <4>1, <4>2, NobodysTask DEF KeepsBut
    <3> QED
      BY <3>1, <3>2
  <2> QED
    BY <1>4, <2>4, <2>5, <2>6 DEF AwaitInv
<1>7. CASE queue' = queue /\ ~Submit(r)
  <2>1. KeepsBut(NoPool, NoTask)
    BY <1>3, <1>7, KeptByAll
  <2>2. InOrder'
    BY <1>3, <1>7, OrderStays DEF AwaitInv
  <2>3. RoundAwaits'
    BY <1>3, <1>5, <2>1, NobodysTask, RoundAwaitsKept DEF AwaitInv
  <2>4. at'[r] # "wait"
    BY <1>7, HandlerTo
  <2>5. RequestAwaits'
    BY <1>2, <2>1, <2>4, NobodysTask, RequestAwaitsKept DEF AwaitInv
  <2> QED
    BY <1>4, <2>2, <2>3, <2>5 DEF AwaitInv
<1> QED
  BY <1>1, <1>6, <1>7

\* A step of the loop that submits nothing and opens nothing.
LEMMA LoopAwaits ==
  ASSUME Inv, AwaitInv, UNCHANGED <<repositories, queue, task, phase, at, pool>>,
         \A i \in Positions : Open(i)' => Open(i),
         \A i \in Positions : Read(i)' => errorChan'[i] = <<>> \/ (Read(i) /\ errorChan'[i] = errorChan[i])
  PROVE  AwaitInv'
<1> USE DEF AwaitInv
<1>1. KeepsBut(NoPool, NoTask)
  BY KeptByAll
<1>2. RoundAwaits'
  BY <1>1, NobodysTask, RoundAwaitsKept DEF Inv
<1>3. RequestAwaits'
  BY <1>1, NobodysTask, RequestAwaitsKept DEF Inv
<1>4. InOrder'
  BY OrderStays
<1>5. ReadIsEmpty'
  <2> SUFFICES ASSUME NEW p \in Pools, phase[p] = "gc", task[p].i # 0, NEW i, i = task[p].i
               PROVE  PoolOf(i)' = p /\ (Read(i)' => errorChan'[i] = <<>>)
    BY DEF ReadIsEmpty
  <2>1. i \in Positions /\ PoolOf(i) = p /\ (Read(i) => errorChan[i] = <<>>)
    BY DEF Inv, RoundInv, GCInv, ReadIsEmpty
  <2> QED
    BY <2>1, SamePlaces
<1> QED
  BY <1>2, <1>3, <1>4, <1>5

\* The steps of main, of cancel and of the select.
LEMMA MainAwaits ==
  ASSUME Inv, StopInv, AwaitInv,
         Start \/ Fire \/ StartFails \/ NeedRepository \/ PrefetchFails \/ CallCancel \/ TakeStop
  PROVE  AwaitInv'
<1>1. UNCHANGED <<repositories, k, errorChan, queue, task, phase, at, pool>>
  BY DEF Start, Fire, StartFails, NeedRepository, PrefetchFails, CallCancel, TakeStop, rounds, work, requests
<1>2. CASE Start \/ Fire
  <2>1. loop = "select" /\ loop' # "receive" /\ k = 1
    BY <1>2 DEF Start, Fire, Inv, RoundInv, MainInv
  <2>2. \A i \in Positions : i \in Nat \ {0}
    BY Place DEF Inv
  <2>3. \A i \in Positions : ~UnderWay(i)' /\ ~Read(i)'
    BY <1>1, <2>1, <2>2 DEF UnderWay, Read
  <2> QED
    BY <1>1, <2>3, LoopAwaits DEF Open
<1>3. CASE StartFails \/ NeedRepository \/ PrefetchFails \/ CallCancel \/ TakeStop
  <2>1. \/ loop' = loop \/ (loop = "decide" /\ loop' = "submit") \/ (loop = "select" /\ loop' = "stopped")
    BY <1>3 DEF StartFails, NeedRepository, PrefetchFails, CallCancel, TakeStop, rounds
  <2>2. \A i \in Positions : (UnderWay(i)' => UnderWay(i)) /\ (Read(i)' => Read(i))
    BY <1>1, <2>1 DEF UnderWay, Read
  <2> QED
    BY <1>1, <2>2, LoopAwaits DEF Open
<1> QED
  BY <1>2, <1>3

\* A repository is skipped: the value is on its channel at once.
LEMMA SkipRepositoryAwaits ==
  ASSUME Inv, AwaitInv, SkipRepository
  PROVE  AwaitInv'
<1> USE DEF Inv
<1>1. /\ loop = "decide" /\ Send(k, FALSE) /\ NextRepository
      /\ UNCHANGED <<repositories, queue, task, phase, at, pool>>
  BY DEF SkipRepository, work, requests
<1>2. k \in Positions /\ k # 0
  BY <1>1, Place
<1>3. errorChan'[k] = <<"nil">> /\ \A j \in Positions : j # k => errorChan'[j] = errorChan[j]
  BY <1>1, <1>2, SendFacts DEF TypeInv
<1>4. \A i \in Positions : (UnderWay(i)' <=> UnderWay(i) \/ i = k) /\ ~Read(i)'
  BY <1>1, OneMoreUnderWay
<1>5. \A i \in Positions : Open(i)' => Open(i)
  BY <1>3, <1>4 DEF Open
<1> QED
  BY <1>1, <1>4, <1>5, LoopAwaits

\* A channel is read: it is empty until git gc has its result.
LEMMA ReceiveAwaits ==
  ASSUME Inv, AwaitInv, Receive
  PROVE  AwaitInv'
<1> USE DEF Inv
<1>1. /\ loop = "receive" /\ loop' = "receive" /\ k < Len(repositories) /\ k' = k + 1
      /\ errorChan' = [errorChan EXCEPT ![k] = <<>>]
      /\ UNCHANGED <<repositories, queue, task, phase, at, pool>>
  BY DEF Receive, Received, work, requests
<1>2. k \in Positions /\ errorChan'[k] = <<>> /\ \A i \in Positions : i # k => errorChan'[i] = errorChan[i]
  BY <1>1, Place DEF TypeInv, RoundType
<1>3. \A i \in Positions : (UnderWay(i)' => UnderWay(i) /\ i # k) /\ (Read(i)' => i = k \/ Read(i))
  BY <1>1, Place DEF UnderWay, Read
<1>4. \A i \in Positions : Open(i)' => Open(i)
  BY <1>2, <1>3 DEF Open
<1>5. \A i \in Positions : Read(i)' => errorChan'[i] = <<>> \/ (Read(i) /\ errorChan'[i] = errorChan[i])
  BY <1>2, <1>3
<1> QED
  BY <1>1, <1>4, <1>5, LoopAwaits

\* A repository is submitted: its task comes last, after those of the repositories before.
LEMMA SubmitRepositoryAwaits ==
  ASSUME Inv, AwaitInv, SubmitRepository
  PROVE  AwaitInv'
<1> USE DEF Inv
<1> DEFINE t == RoundTask(k, Must)
           p == PoolOf(k)
<1>1. /\ loop = "submit" /\ Len(queue[p]) < QueueCap /\ NextRepository
      /\ queue' = [queue EXCEPT ![p] = Append(@, t)]
      /\ UNCHANGED <<repositories, errorChan, task, phase, at, pool>>
  BY DEF SubmitRepository, work, requests
<1>2. k \in Positions /\ p \in Pools /\ k \in Nat
  BY <1>1, Place, Places DEF TypeInv, RoundType
<1>3. t \in Tasks /\ t.kind = "round" /\ t.i = k /\ t \in Fetches(k)
  <2>1. Must \in BOOLEAN
    BY Zenon DEF Must
  <2> QED
    BY <1>2, <2>1, TaskKinds DEF Fetches
<1>4. /\ \A i \in Positions : (UnderWay(i)' <=> UnderWay(i) \/ i = k) /\ ~Read(i)'
      /\ \A i \in Positions : UnderWay(i) => i < k
  <2>1. \A i \in Positions : UnderWay(i) => i < k
    BY <1>1 DEF UnderWay
  <2> QED
    BY <1>1, <2>1, OneMoreUnderWay
<1>5. \A i : PoolOf(i)' = PoolOf(i)
  BY <1>1, SamePlaces
<1> HIDE DEF t, p
<1>6. KeepsBut(NoPool, NoTask) /\ \A q, u : q = p /\ u = t => Held(q, u)'
  <2>1. ASSUME NEW q \in Pools, q = p, NEW u \in Tasks, u = t
        PROVE  KeepsBut(NoPool, NoTask) /\ Held(q, u)'
    <3>1. Len(queue[q]) < QueueCap /\ queue' = [queue EXCEPT ![q] = Append(@, u)]
      BY <1>1, <2>1
    <3> QED
      BY <1>1, <3>1, KeptByAdding DEF TypeInv
  <2> QED
    BY <1>2, <1>3, <2>1
<1>7. InOrder'
  <2>1. task[p].kind = "round" => task[p].i < k
    <3>1. CASE phase[p] = "idle"
      BY <1>2, <3>1, TaskKinds DEF TypeInv, PoolType
    <3>2. CASE phase[p] = "fetch"
      BY <1>2, <1>4, <3>2 DEF RoundInv, FetchInv, OpenTask, Open
    <3>3. CASE phase[p] = "gc" /\ task[p].i # 0
      <4>1. task[p].i \in Positions /\ Told(task[p].i)
        BY <1>2, <3>3 DEF RoundInv, GCInv
      <4> QED
        BY <1>1, <1>4, <4>1 DEF Told, Read
    <3>4. CASE phase[p] = "gc" /\ task[p].i = 0
      BY <1>2, <3>4, Place
    <3> QED
      BY <1>2, <3>1, <3>2, <3>3, <3>4 DEF TypeInv, PoolType
  <2>2. \A l \in DOMAIN queue[p] : queue[p][l].kind = "round" => queue[p][l].i < k
    BY <1>2, <1>4 DEF RoundInv, WaitInv, OpenTask, Open
  <2> QED
    BY <1>1, <1>2, <1>3, <2>1, <2>2, OrderAfterAdding DEF AwaitInv
<1>8. RoundAwaits'
  <2> SUFFICES ASSUME NEW i \in Positions, Open(i)' PROVE InHand(PoolOf(i), Fetches(i))'
    BY <1>1, SamePlaces DEF RoundAwaits
  <2>1. CASE i # k
    <3>1. Open(i)
      BY <1>1, <1>4, <2>1 DEF Open
    <3> QED
      BY <1>1, <1>6, <3>1, NobodysTask, StaysInHand DEF AwaitInv
  <2>2. CASE i = k
    <3>1. ASSUME NEW q, q = p, NEW T, T = Fetches(k) PROVE InHand(q, T)'
      BY <1>3, <1>6, <3>1, InHandHeldNext
    <3>2. ASSUME NEW T, T = Fetches(i) PROVE InHand(PoolOf(i), T)'
      BY <1>5, <2>2, <3>1, <3>2 DEF p
    <3> QED
      BY <3>2 DEF Fetches, RoundTask
  <2> QED
    BY <2>1, <2>2
<1>9. RequestAwaits'
  BY <1>1, <1>6, NobodysTask, RequestAwaitsKept DEF AwaitInv
<1>10. ReadIsEmpty'
  <2> SUFFICES ASSUME NEW q \in Pools, phase[q] = "gc", task[q].i # 0, NEW i, i = task[q].i
               PROVE  PoolOf(i)' = q /\ ~Read(i)'
    BY <1>1 DEF ReadIsEmpty
  <2>1. i \in Positions /\ PoolOf(i) = q
    BY DEF RoundInv, GCInv, AwaitInv, ReadIsEmpty
  <2> QED
    BY <1>4, <1>5, <2>1
<1> QED
  BY <1>7, <1>8, <1>9, <1>10 DEF AwaitInv

\* The round is over: only requests wait, and git gc has a channel of nobody.
LEMMA EndRoundAwaits ==
  ASSUME Inv, AwaitInv, EndRound
  PROVE  AwaitInv'
<1> USE DEF Inv
<1>1. /\ loop = "receive" /\ k = Len(repositories) /\ errorChan[k] # <<>> /\ loop' = "select"
      /\ task' = [p \in Pools |-> Outlive(task[p])]
      /\ queue' = [p \in Pools |-> [i \in DOMAIN queue[p] |-> Outlive(queue[p][i])]]
      /\ UNCHANGED <<repositories, phase, at, pool>>
  BY DEF EndRound, RoundOver, requests
<1>2. \A i \in Positions : ~Open(i) /\ ~Open(i)'
  BY <1>1, Place DEF Open, UnderWay
<1>3. \A q \in Pools : \A j \in DOMAIN queue[q] : queue[q][j] \in Tasks /\ queue[q][j].kind = "request"
  <2>1. \A q \in Pools : \A j \in DOMAIN queue[q] : queue[q][j] \in Tasks
    BY DEF TypeInv, QueueType
  <2>2. \A q \in Pools : \A j \in DOMAIN queue[q] : queue[q][j].kind # "round"
    BY <1>2 DEF RoundInv, WaitInv, OpenTask
  <2> QED
    BY <2>1, <2>2, TaskKinds
<1>4. \A q \in Pools : DOMAIN queue'[q] = DOMAIN queue[q] /\ \A j \in DOMAIN queue[q] : queue'[q][j] = queue[q][j]
  BY <1>1, <1>3, Outlived
<1>5. \A q \in Pools : phase[q] = "fetch" => task'[q] = task[q]
  <2>1. \A q \in Pools : phase[q] = "fetch" => task[q] \in Tasks
    BY DEF TypeInv, PoolType
  <2>2. \A q \in Pools : phase[q] = "fetch" => task[q].kind # "round"
    BY <1>2 DEF RoundInv, FetchInv, OpenTask
  <2> QED
    BY <1>1, <2>1, <2>2, TaskKinds, Outlived
<1>6. \A q \in Pools : phase[q] = "gc" => task'[q].i = 0
  <2>1. \A q \in Pools : phase[q] = "gc" => task[q] \in Tasks /\ task[q].kind = "round"
    BY DEF TypeInv, PoolType
  <2> QED
    BY <1>1, <2>1, Outlived
<1>7. KeepsBut(NoPool, NoTask)
  BY <1>1, <1>4, <1>5 DEF KeepsBut, Held
<1>8. RoundAwaits'
  BY <1>1, <1>2, SamePlaces DEF RoundAwaits
<1>9. RequestAwaits'
  BY <1>1, <1>7, NobodysTask, RequestAwaitsKept DEF AwaitInv
<1>10. InOrder'
  <2>1. \A q \in Pools : \A j \in DOMAIN queue'[q] : queue'[q][j].kind # "round"
    BY <1>3, <1>4
  <2> QED
    BY <2>1 DEF InOrder
<1>11. ReadIsEmpty'
  BY <1>1, <1>6 DEF ReadIsEmpty
<1> QED
  BY <1>8, <1>9, <1>10, <1>11 DEF AwaitInv

\* Nobody waits when the server is started.
LEMMA NobodyWaitsYet == Init => AwaitInv
<1> SUFFICES ASSUME Init PROVE AwaitInv
  OBVIOUS
<1>1. Inv
  BY Initially
<1>2. \A p \in Pools : DOMAIN queue[p] = {} /\ phase[p] = "idle"
  BY DEF Init
<1>3. RequestAwaits
  BY DEF Init, RequestAwaits
<1>4. RoundAwaits
  BY <1>1, BetweenRounds DEF Init, Inv, RoundAwaits, Open
<1> QED
  BY <1>2, <1>3, <1>4 DEF AwaitInv, InOrder, ReadIsEmpty

\* Every step keeps what is waited for in hand.
LEMMA AwaitedStays == Inv /\ StopInv /\ AwaitInv /\ [Next]_vars => AwaitInv'
<1> SUFFICES ASSUME Inv, StopInv, AwaitInv, [Next]_vars PROVE AwaitInv'
  OBVIOUS
<1>1. CASE Round \/ CallCancel \/ TakeStop
  BY <1>1, MainAwaits, SkipRepositoryAwaits, SubmitRepositoryAwaits, ReceiveAwaits, EndRoundAwaits DEF Round
<1>2. CASE \E p \in Pools : Work(p) \/ Age(p)
  BY <1>2, WorkAwaits
<1>3. CASE \E r \in Requests : Authorize(r) \/ Handle(r) \/ NextRequest(r)
  BY <1>3, HandlerAwaits
<1>4. CASE UNCHANGED vars
  <2>1. UNCHANGED <<repositories, loop, k, errorChan, queue, task, phase, at, pool>>
    BY <1>4 DEF vars, rounds, work, requests
  <2> QED
    BY <2>1, NothingMoves
<1> QED
  BY <1>1, <1>2, <1>3, <1>4 DEF Next

\* A worker that is held up is not in the way of what the round waits for: the fetch of
\* the channel it has a value for is not open, and a task behind it has a later channel.
LEMMA NoOneInTheWay ==
  ASSUME Inv, AwaitInv, loop = "receive", errorChan[k] = <<>>
  PROVE  InHand(PoolOf(k), Fetches(k)) /\ ~HeldUp(PoolOf(k))
<1> USE DEF Inv
<1>1. k \in Positions /\ k \in Nat /\ PoolOf(k) \in Pools
  BY Place, Places DEF TypeInv, RoundType
<1>2. Open(k)
  BY <1>1 DEF Open, UnderWay
<1>3. InHand(PoolOf(k), Fetches(k))
  BY <1>1, <1>2 DEF AwaitInv, RoundAwaits
<1>4. ASSUME HeldUp(PoolOf(k)) PROVE FALSE
  <2> DEFINE p == PoolOf(k)
             i == task[p].i
  <2>1. phase[p] = "gc" /\ i # 0 /\ errorChan[i] # <<>>
    BY <1>4 DEF HeldUp
  <2>2. i \in Positions /\ i \in Nat /\ Told(i) /\ task[p].kind = "round"
    BY <1>1, <2>1, Place DEF RoundInv, GCInv, TypeInv, PoolType
  <2>3. ~Read(i)
    BY <1>1, <2>1 DEF AwaitInv, ReadIsEmpty
  <2>4. k <= i
    BY <1>1, <2>2, <2>3 DEF Read
  <2>5. PICK j \in DOMAIN queue[p] : queue[p][j] \in Fetches(k)
    BY <1>3, <2>1 DEF InHand
  <2>6. queue[p][j].kind = "round" /\ queue[p][j].i = k
    BY <1>1, <2>5, NobodysTask
  <2>7. i < k
    BY <1>1, <2>2, <2>5, <2>6 DEF AwaitInv, InOrder
  <2> HIDE DEF p, i
  <2> QED
    BY <1>1, <2>2, <2>4, <2>7
<1> QED
  BY <1>3, <1>4

\* A worker that is held up waits for a channel that the round has still to read.
LEMMA HeldUpForLater ==
  ASSUME Inv, AwaitInv, NEW p \in Pools, HeldUp(p)
  PROVE  loop \in {"decide", "submit"} \/ (loop = "receive" /\ k <= task[p].i)
<1> USE DEF Inv
<1>1. phase[p] = "gc" /\ task[p].i # 0 /\ errorChan[task[p].i] # <<>>
  BY DEF HeldUp
<1>2. task[p].i \in Positions /\ task[p].i \in Nat /\ k \in Nat /\ Told(task[p].i)
  BY <1>1, Place DEF RoundInv, GCInv
<1>3. ~Read(task[p].i)
  BY <1>1 DEF AwaitInv, ReadIsEmpty
<1> QED
  BY <1>2, <1>3 DEF Told, UnderWay, Read

\* Nobody waits in vain, however many requests are served and whatever the configuration
\* lists: a queue with room for a task of each is never full for the one who submits; what
\* a round or a request waits for is in hand, and never behind a worker that waits for the
\* same round; and a worker that is held up by the second value of its channel waits for a
\* round that has still to read it.
THEOREM NoWaitIsInVain ==
  ASSUME IsFiniteSet(Requests)
  PROVE  Spec => []NobodyWaitsInVain
<1>1. Init => AwaitInv
  BY NobodyWaitsYet
<1>2. (Inv /\ StopInv) /\ AwaitInv /\ [Next]_vars => AwaitInv'
  BY AwaitedStays
<1>3. (Inv /\ StopInv) /\ AwaitInv => NobodyWaitsInVain
  <2> SUFFICES ASSUME Inv, AwaitInv PROVE NobodyWaitsInVain
    OBVIOUS
  <2>1. RoomToSubmit
    BY Room
  <2>2. loop = "receive" /\ errorChan[k] = <<>> => InHand(PoolOf(k), Fetches(k)) /\ ~HeldUp(PoolOf(k))
    BY NoOneInTheWay
  <2>3. RequestAwaits
    BY DEF AwaitInv
  <2>4. \A p \in Pools : HeldUp(p) => loop \in {"decide", "submit"} \/ (loop = "receive" /\ k <= task[p].i)
    BY HeldUpForLater
  <2> QED
    BY <2>1, <2>2, <2>3, <2>4 DEF NobodyWaitsInVain, RoomToSubmit, RequestAwaits, Fetches
<1> QED
  BY <1>1, <1>2, <1>3, Invariance, PTL DEF Spec
=============================================================================
