----------------------- MODULE ManagedRepositoryProofs -----------------------
(***************************************************************************)
(* Proofs about ManagedRepository, for any set of commits and any history  *)
(* relation on them, any refs, any number of requests, any capacity of the *)
(* pools and any bounds.                                                   *)
(***************************************************************************)
EXTENDS ManagedRepository, SequenceTheorems, TLAPS

(***************************************************************************)
(* Freshness is not inductive: a fetch that ends makes heads stable, and   *)
(* git gc removes objects.  What carries it are the remote-tracking refs.  *)
(***************************************************************************)
\* The functions that the argument applies, and the heads it speaks of.
FreshTypes ==
  /\ upRefs \in [Refs -> Commits \cup {NoCommit}]
  /\ adv \in [Refs -> Commits \cup {NoCommit}]
  /\ tracking \in [Heads -> Commits \cup {NoCommit}]
  /\ stable \subseteq Heads /\ unmoved \subseteq Heads

\* The remote-tracking ref of a stable head is where the head is upstream.
Tracked == \A h \in stable : tracking[h] = upRefs[h]

\* The remote-tracking refs keep their histories in the store.
TrackingComplete == \A h \in Heads : tracking[h] # NoCommit => Reach[tracking[h]] \subseteq objs

\* The second git fetch was told where the heads are that have not moved since.
ToldTruth == phase = "origin_git" => \A h \in stable \cup unmoved : adv[h] = upRefs[h]

\* When it has succeeded, it has put the remote-tracking refs there.
Brought == (phase = "store" /\ ~fetchErr) => \A h \in unmoved : tracking[h] = upRefs[h]

FreshInv == FreshTypes /\ Tracked /\ TrackingComplete /\ ToldTruth /\ Brought

\* What FreshInv is about.
mirror == <<upRefs, objs, tracking, phase, adv, fetchErr, stable, unmoved>>

\* A step that changes none of it keeps it.
LEMMA MirrorUnchanged == FreshInv /\ UNCHANGED mirror => FreshInv'
BY DEF mirror, FreshInv, FreshTypes, Tracked, TrackingComplete, ToldTruth, Brought

\* A step of a request's handler or of its client touches nothing of it: serving never
\* changes the store or the refs.
LEMMA HandlersKeepMirror ==
  ASSUME NEW r \in Requests, Handle(r) \/ Client(r)
  PROVE  UNCHANGED mirror
<1> USE DEF mirror, Quiet, upstream, disk, worker, history
<1>1. CASE Check(r)
  BY <1>1 DEF Check
<1>2. CASE CheckFails(r)
  BY <1>2 DEF CheckFails
<1>3. CASE SubmitFetch(r)
  BY <1>3 DEF SubmitFetch
<1>4. CASE Cancelled(r)
  BY <1>4 DEF Cancelled
<1>5. CASE Recheck(r)
  BY <1>5 DEF Recheck
<1>6. CASE RecheckMissing(r)
  BY <1>6 DEF RecheckMissing
<1>7. CASE StartServe(r)
  BY <1>7 DEF StartServe
<1>8. CASE ServeFetchLocal(r)
  BY <1>8 DEF ServeFetchLocal
<1>9. CASE ServeFetchLocalFails(r)
  BY <1>9 DEF ServeFetchLocalFails
<1>10. CASE HangUp(r)
  BY <1>10 DEF HangUp
<1>11. CASE LsRefsFails(r)
  BY <1>11 DEF LsRefsFails
<1>12. ASSUME NEW s \in Selections, LsRefs(r, s[1], s[2]) PROVE UNCHANGED mirror
  BY <1>12 DEF LsRefs
<1> QED
  BY <1>1, <1>2, <1>3, <1>4, <1>5, <1>6, <1>7, <1>8, <1>9, <1>10, <1>11, <1>12 DEF Handle, Client

\* git fetch gives the refs in S the values it was told: their histories are in the store.
LEMMA UpdatedComplete ==
  ASSUME FreshInv, phase = "origin_git", Needed \subseteq objs,
         NEW S \in SUBSET Heads
  PROVE  /\ Updated(tracking, S) \in [Heads -> Commits \cup {NoCommit}]
         /\ \A h \in Heads : Updated(tracking, S)[h] # NoCommit => Reach[Updated(tracking, S)[h]] \subseteq objs
         /\ \A h \in stable : Updated(tracking, S)[h] = upRefs[h]
<1> USE DEF FreshInv, FreshTypes, Refs
<1>1. DOMAIN tracking = Heads
  OBVIOUS
<1>2. \A h \in Heads : adv[h] # NoCommit => Reach[adv[h]] \subseteq objs
  BY DEF Needed
<1>3. \A h \in Heads : Updated(tracking, S)[h] = IF h \in S /\ adv[h] # NoCommit THEN adv[h] ELSE tracking[h]
  BY <1>1 DEF Updated
<1>4. Updated(tracking, S) \in [Heads -> Commits \cup {NoCommit}]
  BY <1>1 DEF Updated
<1>5. \A h \in Heads : Updated(tracking, S)[h] # NoCommit => Reach[Updated(tracking, S)[h]] \subseteq objs
  BY <1>2, <1>3 DEF TrackingComplete
<1>6. \A h \in stable : Updated(tracking, S)[h] = upRefs[h]
  BY <1>3 DEF Tracked, ToldTruth
<1> QED
  BY <1>4, <1>5, <1>6

\* Every step keeps FreshInv.
LEMMA FreshStep == FreshInv /\ [Next]_vars => FreshInv'
<1> SUFFICES ASSUME FreshInv, [Next]_vars PROVE FreshInv'
  OBVIOUS
<1> USE DEF FreshInv, upstream, disk, main, worker, requests, history
<1>u. CASE UNCHANGED vars
  BY <1>u, MirrorUnchanged DEF vars, mirror
<1>1. CASE Tick
  BY <1>1, MirrorUnchanged DEF Tick, mirror
<1>2. CASE GitLogsGc
  BY <1>2, MirrorUnchanged DEF GitLogsGc, mirror
<1>3. CASE StartRound
  BY <1>3, MirrorUnchanged DEF StartRound, mirror
<1>4. CASE SkipRound
  BY <1>4, MirrorUnchanged DEF SkipRound, mirror
<1>5. CASE NeedRound
  BY <1>5, MirrorUnchanged DEF NeedRound, mirror
<1>6. CASE SubmitRound
  BY <1>6, MirrorUnchanged DEF SubmitRound, mirror
<1>7. CASE EndRound
  BY <1>7, MirrorUnchanged DEF EndRound, mirror
<1>8. CASE Crash \/ PrefetchFails
  <2>1. Stop
    BY <1>8 DEF Crash, PrefetchFails
  <2>2. NoAdv \in [Refs -> Commits \cup {NoCommit}]
    BY DEF NoAdv
  <2> QED
    BY <2>1, <2>2 DEF Stop, FreshTypes, Tracked, TrackingComplete, ToldTruth, Brought
<1>9. CASE GitConnect
  <2>1. CASE phase = "all" /\ phase' = "all_git" /\ adv' = upRefs
    BY <1>9, <2>1 DEF GitConnect, FreshTypes, Tracked, TrackingComplete, ToldTruth, Brought
  <2>2. CASE /\ phase = "origin" /\ phase' = "origin_git"
             /\ adv' = [r \in Refs |-> IF r \in Heads THEN upRefs[r] ELSE NoCommit]
    <3>1. \A h \in Heads : adv'[h] = upRefs[h]
      BY <2>2 DEF Refs
    <3>2. adv' \in [Refs -> Commits \cup {NoCommit}]
      BY <2>2 DEF FreshTypes
    <3> QED
      BY <1>9, <2>2, <3>1, <3>2 DEF GitConnect, FreshTypes, Tracked, TrackingComplete, ToldTruth,
         Brought
  <2> QED
    BY <1>9, <2>1, <2>2 DEF GitConnect
<1>10. CASE EndFetchAll
  <2>1. NoAdv \in [Refs -> Commits \cup {NoCommit}]
    BY DEF NoAdv
  <2> QED
    BY <1>10, <2>1 DEF EndFetchAll, FreshTypes, Tracked, TrackingComplete, ToldTruth, Brought
<1>11. CASE EndFetchOrigin
  <2>1. NoAdv \in [Refs -> Commits \cup {NoCommit}]
    BY DEF NoAdv
  <2>2. \A h \in Heads : adv[h] # NoCommit => Reach[adv[h]] \subseteq objs
    BY <1>11 DEF EndFetchOrigin, Needed, FreshTypes, Refs
  <2>3. tracking' \in [Heads -> Commits \cup {NoCommit}] /\ \A h \in Heads : tracking'[h] = adv[h]
    BY <1>11 DEF EndFetchOrigin, FreshTypes, Refs
  <2>4. \A h \in stable \cup unmoved : tracking'[h] = upRefs[h]
    BY <1>11, <2>3 DEF EndFetchOrigin, FreshTypes, ToldTruth
  <2> QED
    BY <1>11, <2>1, <2>2, <2>3, <2>4 DEF EndFetchOrigin, FreshTypes, Tracked, TrackingComplete,
       ToldTruth, Brought
<1>12. CASE FailFetchOrigin
  <2>1. NoAdv \in [Refs -> Commits \cup {NoCommit}]
    BY DEF NoAdv
  <2>2. CASE UNCHANGED tracking
    BY <1>12, <2>1, <2>2 DEF FailFetchOrigin, FreshTypes, Tracked, TrackingComplete, ToldTruth, Brought
  <2>3. ASSUME phase = "origin_git", Needed \subseteq objs,
               NEW S \in SUBSET Heads, tracking' = Updated(tracking, S)
        PROVE  FreshInv'
    BY <1>12, <2>1, <2>3, UpdatedComplete DEF FailFetchOrigin, FreshTypes, Tracked,
       TrackingComplete, ToldTruth, Brought
  <2> QED
    BY <1>12, <2>2, <2>3 DEF FailFetchOrigin
<1>13. CASE RunGC
  <2>1. PICK S \in SUBSET ((objs \ Rooted) \ recent) : objs' = objs \ S
    BY <1>13 DEF RunGC
  <2>2. \A h \in Heads : tracking[h] # NoCommit => Reach[tracking[h]] \subseteq Rooted
    BY DEF Rooted
  <2>3. TrackingComplete'
    BY <1>13, <2>1, <2>2 DEF RunGC, TrackingComplete
  <2> QED
    BY <1>13, <2>3 DEF RunGC, FreshTypes, Tracked, ToldTruth, Brought
<1>14. ASSUME NEW r \in Refs, NEW c \in Commits \cup {NoCommit}, Push(r, c) PROVE FreshInv'
  <2>1. \A h \in Refs : h # r => upRefs'[h] = upRefs[h]
    BY <1>14 DEF Push, FreshTypes
  <2>2. upRefs' \in [Refs -> Commits \cup {NoCommit}]
    BY <1>14 DEF Push, FreshTypes
  <2> QED
    BY <1>14, <2>1, <2>2 DEF Push, Refs, FreshTypes, Tracked, TrackingComplete, ToldTruth, Brought
<1>15. ASSUME NEW c \in Commits, GitWriteObject(c) PROVE FreshInv'
  BY <1>15 DEF GitWriteObject, FreshTypes, Tracked, TrackingComplete, ToldTruth, Brought
<1>16. ASSUME NEW r \in Requests, FetchForRequest(r) PROVE FreshInv'
  BY <1>16 DEF FetchForRequest, BeginFetch, PickUp, FreshTypes, Tracked, TrackingComplete,
     ToldTruth, Brought
<1>17. ASSUME NEW r \in Requests, SkipRequest(r) PROVE FreshInv'
  BY <1>17, MirrorUnchanged DEF SkipRequest, mirror
<1>18. ASSUME NEW r \in Requests, FinishRequest(r) PROVE FreshInv'
  BY <1>18 DEF FinishRequest, StoreUpdate, FreshTypes, Tracked, TrackingComplete, ToldTruth, Brought
<1>19. ASSUME NEW n \in 1..MaxCalls, SkipTask(n) PROVE FreshInv'
  BY <1>19 DEF SkipTask, AfterFetch, FreshTypes, Tracked, TrackingComplete, ToldTruth, Brought
<1>20. ASSUME NEW n \in 1..MaxCalls, NEW must \in BOOLEAN, FetchForRound(n, must) PROVE FreshInv'
  BY <1>20 DEF FetchForRound, BeginFetch, PickUp, FreshTypes, Tracked, TrackingComplete, ToldTruth,
     Brought
<1>21. ASSUME NEW n \in 1..MaxCalls, NEW must \in BOOLEAN, FinishRound(n, must) PROVE FreshInv'
  BY <1>21 DEF FinishRound, StoreUpdate, AfterFetch, FreshTypes, Tracked, TrackingComplete,
     ToldTruth, Brought
<1>22. ASSUME NEW n \in 1..MaxCalls, NEW must \in BOOLEAN, SendGC(n, must) PROVE FreshInv'
  BY <1>22 DEF SendGC, FreshTypes, Tracked, TrackingComplete, ToldTruth, Brought
<1>23. ASSUME NEW r \in Requests, Handle(r) \/ Client(r) PROVE FreshInv'
  BY <1>23, HandlersKeepMirror, MirrorUnchanged
<1> QED
  BY <1>u, <1>1, <1>2, <1>3, <1>4, <1>5, <1>6, <1>7, <1>8, <1>9, <1>10, <1>11, <1>12,
     <1>13, <1>14, <1>15, <1>16, <1>17, <1>18, <1>19, <1>20, <1>21, <1>22, <1>23
  DEF Next, Environment, Round, Work, GitFetch

\* FreshInv holds in every state of every behaviour.
LEMMA FreshInvariance == Spec => []FreshInv
<1>1. Init => FreshInv
  BY RefAssumption DEF Init, FreshInv, FreshTypes, Tracked, TrackingComplete, ToldTruth, Brought,
                       NoAdv
<1> QED
  BY <1>1, FreshStep, PTL DEF Spec

\* The two parts that speak of stable heads give Freshness.
LEMMA FreshInvImplies == FreshInv => Freshness
BY DEF FreshInv, FreshTypes, Tracked, TrackingComplete, Freshness

\* lastUpdateUnix never overstates: whatever the heads pointed to when the last
\* successful fetchUpstream started is complete in the store, whichever git fetches
\* fail, whatever git gc prunes and however often the program dies.
THEOREM StoreIsFresh == Spec => []Freshness
BY FreshInvariance, FreshInvImplies, PTL

\* The check made again by the worker and after the wait never sends a request to the
\* upstream, or away with nothing, for commits that a fetch has brought already.
THEOREM NoMissIsNeedless == Spec => NoNeedlessMiss
<1>1. ASSUME Freshness, [Next]_vars,
             NEW r \in Requests, FetchForRequest(r) \/ RecheckMissing(r)
      PROVE  ~(Listed(r) \subseteq Known /\ wantRefs[r] = {})
  <2>1. ~HasAllWants(r)
    BY <1>1 DEF FetchForRequest, RecheckMissing
  <2>2. Known \subseteq objs
    BY <1>1 DEF Freshness, Known
  <2> QED
    BY <2>1, <2>2 DEF HasAllWants, Listed
<1>2. Freshness /\ [Next]_vars =>
        [\A r \in Requests :
           (FetchForRequest(r) \/ RecheckMissing(r)) => ~(Listed(r) \subseteq Known /\ wantRefs[r] = {})]_vars
  BY <1>1
<1> QED
  BY <1>2, StoreIsFresh, PTL DEF Spec, NoNeedlessMiss

(***************************************************************************)
(* Typing, one part of the state at a time.                                *)
(***************************************************************************)
UpType == upRefs \in [Refs -> Commits \cup {NoCommit}] /\ pushes \in 0..MaxPushes

DiskType ==
  /\ objs \subseteq Commits /\ recent \subseteq objs /\ gcLog \in BOOLEAN
  /\ refs \in [Refs -> Commits \cup {NoCommit}]
  /\ tracking \in [Heads -> Commits \cup {NoCommit}]

ClockType ==
  now \in 1..(MaxTime + 1) /\ lastUpdate \in 0..now /\ bgAt \in 0..now /\ startTime \in 0..now

\* A round that is under way has a number.
MainType ==
  /\ server \in {"starting", "serving", "exited"}
  /\ bg \in {"sleep", "decide", "submit", "receive"}
  /\ call \in 0..MaxCalls /\ (bg # "sleep" => call # 0) /\ crashes \in 0..MaxCrashes
  /\ errorChan \in [1..MaxCalls -> {<<>>, <<"nil">>, <<"err">>}]

QueueType == queue \in Seq(Tasks) /\ Len(queue) <= QueueCap

WorkerType ==
  /\ task \in Tasks \cup {NoTask} /\ phase \in Phases /\ fetchErr \in BOOLEAN
  /\ adv \in [Refs -> Commits \cup {NoCommit}]

ReqType ==
  /\ pc \in [Requests -> PCs]
  /\ want \in [Requests -> Seq(Commits)]
  /\ wantRefs \in [Requests -> SUBSET Refs]
  /\ gone \in [Requests -> BOOLEAN]
  /\ outcome \in [Requests -> {"none", "pack", "error", "silent", "lost"}]

HistType == unmoved \subseteq Heads /\ stable \subseteq Heads

TypeInv ==
  /\ UpType /\ DiskType /\ ClockType /\ MainType
  /\ QueueType /\ WorkerType /\ ReqType /\ HistType

\* The parts are TypeOK.
LEMMA TypeInvImpliesTypeOK == TypeInv => TypeOK
BY DEF TypeInv, UpType, DiskType, ClockType, MainType, QueueType, WorkerType, ReqType, HistType,
       TypeOK

\* Tasks of requests and of rounds are told apart by their fields.
LEMMA TaskFacts ==
  /\ \A r \in Requests : RequestTask(r) \in Tasks
  /\ \A n \in 1..MaxCalls, b \in BOOLEAN : RoundTask(n, b) \in Tasks
  /\ \A t \in Tasks : \/ \E r \in Requests : t = RequestTask(r)
                      \/ \E n \in 1..MaxCalls, b \in BOOLEAN : t = RoundTask(n, b)
  /\ \A r, n, b : RequestTask(r) # RoundTask(n, b)
  /\ \A n, b, m, c : RoundTask(n, b) = RoundTask(m, c) => n = m /\ b = c
  /\ \A r, n, b : NoTask # RequestTask(r) /\ NoTask # RoundTask(n, b)
<1>1. /\ \A r \in Requests : RequestTask(r) \in Tasks
      /\ \A n \in 1..MaxCalls, b \in BOOLEAN : RoundTask(n, b) \in Tasks
      /\ \A t \in Tasks : \/ \E r \in Requests : t = RequestTask(r)
                          \/ \E n \in 1..MaxCalls, b \in BOOLEAN : t = RoundTask(n, b)
  BY DEF Tasks
<1>2. \A r, n, b : RequestTask(r) # RoundTask(n, b)
  BY DEF RequestTask, RoundTask
<1>3. \A n, b, m, c : RoundTask(n, b) = RoundTask(m, c) => n = m /\ b = c
  BY DEF RoundTask
<1>4. \A r, n, b : NoTask # RequestTask(r) /\ NoTask # RoundTask(n, b)
  BY DEF NoTask, RequestTask, RoundTask
<1> QED
  BY <1>1, <1>2, <1>3, <1>4

\* A channel of capacity one holds nothing or one error.
LEMMA SendType ==
  ASSUME MainType, NEW n \in 1..MaxCalls, NEW err, Send(n, err)
  PROVE  /\ errorChan' \in [1..MaxCalls -> {<<>>, <<"nil">>, <<"err">>}]
         /\ errorChan[n] = <<>>
         /\ errorChan'[n] = IF err THEN <<"err">> ELSE <<"nil">>
         /\ \A m \in 1..MaxCalls \ {n} : errorChan'[m] = errorChan[m]
<1>1. errorChan[n] = <<>>
  <2>1. Len(<<"nil">>) = 1 /\ Len(<<"err">>) = 1
    OBVIOUS
  <2> QED
    BY <2>1 DEF Send, ErrorChanCap, MainType
<1>2. Append(<<>>, "nil") = <<"nil">> /\ Append(<<>>, "err") = <<"err">>
  OBVIOUS
<1>3. errorChan' = [errorChan EXCEPT ![n] = IF err THEN <<"err">> ELSE <<"nil">>]
  BY <1>1, <1>2 DEF Send
<1> QED
  BY <1>1, <1>3 DEF MainType

\* What picking up the head of the queue leaves.
LEMMA PickUpType ==
  ASSUME QueueType, NEW t, PickUp(t)
  PROVE  QueueType' /\ t \in Tasks
<1>1. queue # <<>> /\ Head(queue) = t /\ queue' = Tail(queue)
  BY DEF PickUp
<1> QED
  BY <1>1, BoundAssumption DEF QueueType

\* Refs stay refs when git fetch updates some of them.
LEMMA UpdatedType ==
  ASSUME WorkerType, NEW D \in SUBSET Refs, NEW f \in [D -> Commits \cup {NoCommit}], NEW S
  PROVE  Updated(f, S) \in [D -> Commits \cup {NoCommit}]
BY DEF Updated, WorkerType

\* The empty advertisement.
LEMMA NoAdvType == NoAdv \in [Refs -> Commits \cup {NoCommit}]
BY DEF NoAdv

\* The state after a crash or an exit has the types.
LEMMA StopType ==
  ASSUME TypeInv, Stop, server' \in {"starting", "exited"}, crashes' \in 0..MaxCrashes
  PROVE  TypeInv'
<1> USE DEF Stop, TypeInv, upstream, disk
<1>1. UpType' /\ DiskType'
  BY DEF UpType, DiskType
<1>2. ClockType' /\ MainType'
  BY DEF ClockType, MainType
<1>3. QueueType'
  BY BoundAssumption DEF QueueType
<1>4. fetchErr' \in BOOLEAN
  BY Zenon
<1>5. WorkerType'
  BY <1>4, NoAdvType DEF WorkerType, Phases
<1>6. gone' \in [Requests -> BOOLEAN]
  BY Zenon
<1>7. ReqType'
  BY <1>6 DEF ReqType, PCs
<1>8. HistType'
  BY DEF HistType
<1> QED
  BY <1>1, <1>2, <1>3, <1>5, <1>7, <1>8

\* A handler's step keeps the types of the queue and of the requests.
LEMMA HandlerTypes ==
  ASSUME TypeInv, NEW r \in Requests, Handle(r) \/ Client(r)
  PROVE  QueueType' /\ ReqType' /\ UNCHANGED Quiet
<1> USE DEF TypeInv, QueueType, ReqType, PCs, Move, Answer
<1>0. RequestTask(r) \in Tasks
  BY TaskFacts
<1>g. \A v \in BOOLEAN : [gone EXCEPT ![r] = v] \in [Requests -> BOOLEAN]
  OBVIOUS
<1>1. CASE Check(r)
  BY <1>1 DEF Check
<1>2. CASE CheckFails(r)
  <2>1. CASE Answer(r, "check", "error")
    BY <1>2, <2>1, <1>g DEF CheckFails
  <2>2. CASE Answer(r, "recheck", "error")
    BY <1>2, <2>2, <1>g DEF CheckFails
  <2> QED
    BY <1>2, <2>1, <2>2 DEF CheckFails
<1>3. CASE SubmitFetch(r)
  BY <1>3, <1>0, BoundAssumption DEF SubmitFetch
<1>4. CASE Cancelled(r)
  BY <1>4 DEF Cancelled
<1>5. CASE Recheck(r)
  BY <1>5 DEF Recheck
<1>6. CASE RecheckMissing(r)
  BY <1>6 DEF RecheckMissing
<1>7. CASE StartServe(r)
  BY <1>7 DEF StartServe
<1>8. CASE ServeFetchLocal(r)
  BY <1>8 DEF ServeFetchLocal
<1>9. CASE ServeFetchLocalFails(r)
  BY <1>9 DEF ServeFetchLocalFails
<1>10. CASE HangUp(r)
  BY <1>10 DEF HangUp
<1>11. CASE LsRefsFails(r)
  BY <1>11 DEF LsRefsFails
<1>12. ASSUME NEW s \in Selections, LsRefs(r, s[1], s[2])
      PROVE  QueueType' /\ ReqType' /\ UNCHANGED Quiet
  <2>1. s[1] \in Seq(Refs) /\ s[2] \subseteq Refs
    BY RefAssumption
  <2>2. \A i \in DOMAIN s[1] : upRefs[s[1][i]] \in Commits
    BY <1>12, <2>1 DEF LsRefs, UpType
  <2>3. [i \in DOMAIN s[1] |-> upRefs[s[1][i]]] \in Seq(Commits)
    <3>1. DOMAIN s[1] = 1..Len(s[1]) /\ Len(s[1]) \in Nat
      BY <2>1
    <3>2. [i \in DOMAIN s[1] |-> upRefs[s[1][i]]] \in [1..Len(s[1]) -> Commits]
      BY <2>2, <3>1
    <3> QED
      BY <3>1, <3>2, SeqDef
  <2> QED
    BY <1>12, <2>1, <2>3 DEF LsRefs
<1> QED
  BY <1>1, <1>2, <1>3, <1>4, <1>5, <1>6, <1>7, <1>8, <1>9, <1>10, <1>11, <1>12
  DEF Handle, Client

\* Every step keeps the types.
LEMMA TypeStep == TypeInv /\ [Next]_vars => TypeInv'
<1> SUFFICES ASSUME TypeInv, [Next]_vars PROVE TypeInv'
  OBVIOUS
<1> USE DEF TypeInv, upstream, disk, main, worker, requests, history
<1>1. CASE Tick
  <2>1. DiskType'
    BY <1>1 DEF Tick, DiskType
  <2>2. ClockType'
    BY <1>1, BoundAssumption DEF Tick, ClockType
  <2> QED
    BY <1>1, <2>1, <2>2 DEF Tick, UpType, MainType, QueueType, WorkerType, ReqType, HistType
<1>2. CASE GitLogsGc
  <2>1. DiskType'
    BY <1>2 DEF GitLogsGc, DiskType
  <2> QED
    BY <1>2, <2>1 DEF GitLogsGc, UpType, ClockType, MainType, QueueType, WorkerType, ReqType, HistType
<1>3. CASE Crash
  BY <1>3, StopType, BoundAssumption DEF Crash, MainType
<1>4. ASSUME NEW r \in Refs, NEW c \in Commits \cup {NoCommit}, Push(r, c) PROVE TypeInv'
  <2>1. UpType'
    BY <1>4, BoundAssumption DEF Push, UpType
  <2>2. HistType'
    BY <1>4, BoundAssumption DEF Push, HistType
  <2> QED
    BY <1>4, <2>1, <2>2 DEF Push, DiskType, ClockType, MainType, QueueType, WorkerType, ReqType
<1>5. CASE StartRound
  <2>1. MainType'
    BY <1>5, BoundAssumption DEF StartRound, MainType
  <2> QED
    BY <1>5, <2>1 DEF StartRound, UpType, DiskType, ClockType, QueueType, WorkerType, ReqType, HistType
<1>6. CASE SkipRound
  <2>1. call \in 1..MaxCalls
    BY <1>6 DEF SkipRound, MainType
  <2>2. MainType'
    BY <1>6, <2>1, SendType DEF SkipRound, MainType
  <2> QED
    BY <1>6, <2>2 DEF SkipRound, UpType, DiskType, ClockType, QueueType, WorkerType, ReqType, HistType
<1>7. CASE NeedRound
  <2>1. MainType'
    BY <1>7 DEF NeedRound, MainType
  <2> QED
    BY <1>7, <2>1 DEF NeedRound, UpType, DiskType, ClockType, QueueType, WorkerType, ReqType, HistType
<1>8. CASE SubmitRound
  <2>1. MainType'
    BY <1>8 DEF SubmitRound, MainType
  <2>2. call \in 1..MaxCalls /\ (server = "starting") \in BOOLEAN
    BY <1>8 DEF SubmitRound, MainType
  <2>3. RoundTask(call, server = "starting") \in Tasks
    BY <2>2, TaskFacts
  <2>4. QueueType'
    BY <1>8, <2>3, BoundAssumption DEF SubmitRound, QueueType
  <2> QED
    BY <1>8, <2>1, <2>4 DEF SubmitRound, UpType, DiskType, ClockType, WorkerType, ReqType, HistType
<1>9. CASE EndRound
  <2>1. ClockType'
    BY <1>9, BoundAssumption DEF EndRound, ClockType
  <2>2. call \in 1..MaxCalls
    BY <1>9 DEF EndRound, MainType
  <2>3. Tail(errorChan[call]) = <<>>
    <3>1. Tail(<<"nil">>) = <<>> /\ Tail(<<"err">>) = <<>>
      OBVIOUS
    <3> QED
      BY <1>9, <2>2, <3>1 DEF EndRound, MainType
  <2>4. MainType'
    BY <1>9, <2>2, <2>3 DEF EndRound, MainType
  <2> QED
    BY <1>9, <2>1, <2>4 DEF EndRound, UpType, DiskType, QueueType, WorkerType, ReqType, HistType
<1>10. CASE PrefetchFails
  BY <1>10, StopType DEF PrefetchFails, MainType
<1>11. CASE GitConnect
  <2>1. WorkerType'
    BY <1>11, NoAdvType DEF GitConnect, WorkerType, Phases, UpType
  <2> QED
    BY <1>11, <2>1 DEF GitConnect, UpType, DiskType, ClockType, MainType, QueueType, ReqType, HistType
<1>12. CASE EndFetchAll
  <2>1. DiskType'
    BY <1>12, UpdatedType DEF EndFetchAll, DiskType
  <2>2. WorkerType'
    BY <1>12, NoAdvType DEF EndFetchAll, WorkerType, Phases
  <2> QED
    BY <1>12, <2>1, <2>2 DEF EndFetchAll, UpType, ClockType, MainType, QueueType, ReqType, HistType
<1>13. CASE EndFetchOrigin
  <2>1. DiskType'
    BY <1>13, UpdatedType DEF EndFetchOrigin, DiskType, Refs, WorkerType
  <2>2. WorkerType'
    BY <1>13, NoAdvType DEF EndFetchOrigin, WorkerType, Phases
  <2> QED
    BY <1>13, <2>1, <2>2 DEF EndFetchOrigin, UpType, ClockType, MainType, QueueType, ReqType, HistType
<1>14. CASE FailFetchOrigin
  <2>1. DiskType'
    BY <1>14, UpdatedType DEF FailFetchOrigin, DiskType, Refs
  <2>2. WorkerType'
    BY <1>14, NoAdvType DEF FailFetchOrigin, WorkerType, Phases
  <2> QED
    BY <1>14, <2>1, <2>2 DEF FailFetchOrigin, UpType, ClockType, MainType, QueueType, ReqType, HistType
<1>15. ASSUME NEW c \in Commits, GitWriteObject(c) PROVE TypeInv'
  <2>1. DiskType'
    BY <1>15 DEF GitWriteObject, DiskType
  <2> QED
    BY <1>15, <2>1 DEF GitWriteObject, UpType, ClockType, MainType, QueueType, WorkerType, ReqType,
       HistType
<1>16. CASE RunGC
  <2>1. DiskType'
    BY <1>16 DEF RunGC, DiskType
  <2>2. WorkerType'
    BY <1>16, NoAdvType DEF RunGC, WorkerType, Phases
  <2> QED
    BY <1>16, <2>1, <2>2 DEF RunGC, UpType, ClockType, MainType, QueueType, ReqType, HistType
<1>17. ASSUME NEW r \in Requests, FetchForRequest(r) PROVE TypeInv'
  <2>1. ClockType'
    BY <1>17, BoundAssumption DEF FetchForRequest, BeginFetch, ClockType
  <2>2. QueueType'
    BY <1>17, PickUpType DEF FetchForRequest, BeginFetch
  <2>3. WorkerType'
    BY <1>17, NoAdvType, TaskFacts DEF FetchForRequest, BeginFetch, WorkerType, Phases
  <2>4. HistType'
    BY <1>17 DEF FetchForRequest, BeginFetch, HistType
  <2> QED
    BY <1>17, <2>1, <2>2, <2>3, <2>4 DEF FetchForRequest, BeginFetch, UpType, DiskType, MainType,
       ReqType
<1>18. ASSUME NEW r \in Requests, SkipRequest(r) PROVE TypeInv'
  <2>1. QueueType'
    BY <1>18, PickUpType DEF SkipRequest, PickUp
  <2>2. ReqType'
    BY <1>18 DEF SkipRequest, PickUp, ReqType, PCs
  <2> QED
    BY <1>18, <2>1, <2>2 DEF SkipRequest, PickUp, UpType, DiskType, ClockType, MainType, WorkerType,
       HistType
<1>19. ASSUME NEW r \in Requests, FinishRequest(r) PROVE TypeInv'
  <2>1. ClockType'
    BY <1>19, BoundAssumption DEF FinishRequest, StoreUpdate, ClockType
  <2>2. WorkerType'
    BY <1>19, NoAdvType DEF FinishRequest, StoreUpdate, WorkerType, Phases
  <2>3. ReqType'
    BY <1>19 DEF FinishRequest, StoreUpdate, ReqType, PCs
  <2>4. HistType'
    BY <1>19 DEF FinishRequest, StoreUpdate, HistType
  <2> QED
    BY <1>19, <2>1, <2>2, <2>3, <2>4 DEF FinishRequest, StoreUpdate, UpType, DiskType, MainType,
       QueueType
<1>20. ASSUME NEW n \in 1..MaxCalls, SkipTask(n) PROVE TypeInv'
  <2>1. MainType'
    BY <1>20, SendType DEF SkipTask, AfterFetch, MainType
  <2>2. QueueType'
    BY <1>20, PickUpType DEF SkipTask, AfterFetch
  <2>3. WorkerType'
    BY <1>20, NoAdvType, TaskFacts, PickUpType DEF SkipTask, AfterFetch, WorkerType, Phases
  <2> QED
    BY <1>20, <2>1, <2>2, <2>3 DEF SkipTask, AfterFetch, UpType, DiskType, ClockType, ReqType, HistType
<1>21. ASSUME NEW n \in 1..MaxCalls, NEW must \in BOOLEAN, FetchForRound(n, must) PROVE TypeInv'
  <2>1. ClockType'
    BY <1>21, BoundAssumption DEF FetchForRound, BeginFetch, ClockType
  <2>2. QueueType'
    BY <1>21, PickUpType DEF FetchForRound, BeginFetch
  <2>3. WorkerType'
    BY <1>21, NoAdvType, TaskFacts DEF FetchForRound, BeginFetch, WorkerType, Phases
  <2>4. HistType'
    BY <1>21 DEF FetchForRound, BeginFetch, HistType
  <2> QED
    BY <1>21, <2>1, <2>2, <2>3, <2>4 DEF FetchForRound, BeginFetch, UpType, DiskType, MainType, ReqType
<1>22. ASSUME NEW n \in 1..MaxCalls, NEW must \in BOOLEAN, FinishRound(n, must) PROVE TypeInv'
  <2>1. ClockType'
    BY <1>22, BoundAssumption DEF FinishRound, StoreUpdate, AfterFetch, ClockType
  <2>2. MainType'
    BY <1>22, SendType DEF FinishRound, StoreUpdate, AfterFetch, MainType
  <2>3. WorkerType'
    BY <1>22, NoAdvType, TaskFacts DEF FinishRound, StoreUpdate, AfterFetch, WorkerType, Phases
  <2>4. HistType'
    BY <1>22 DEF FinishRound, StoreUpdate, AfterFetch, HistType
  <2> QED
    BY <1>22, <2>1, <2>2, <2>3, <2>4 DEF FinishRound, StoreUpdate, AfterFetch, UpType, DiskType,
       QueueType, ReqType
<1>23. ASSUME NEW n \in 1..MaxCalls, NEW must \in BOOLEAN, SendGC(n, must) PROVE TypeInv'
  <2>1. MainType'
    BY <1>23, SendType DEF SendGC, MainType
  <2>2. WorkerType'
    BY <1>23, NoAdvType DEF SendGC, WorkerType, Phases
  <2> QED
    BY <1>23, <2>1, <2>2 DEF SendGC, UpType, DiskType, ClockType, QueueType, ReqType, HistType
<1>24. ASSUME NEW r \in Requests, Handle(r) \/ Client(r) PROVE TypeInv'
  BY <1>24, HandlerTypes DEF Quiet, UpType, DiskType, ClockType, MainType, WorkerType, HistType
<1>25. CASE UNCHANGED vars
  BY <1>25 DEF vars, UpType, DiskType, ClockType, MainType, QueueType, WorkerType, ReqType, HistType
<1> QED
  BY <1>1, <1>2, <1>3, <1>4, <1>5, <1>6, <1>7, <1>8, <1>9, <1>10, <1>11, <1>12,
     <1>13, <1>14, <1>15, <1>16, <1>17, <1>18, <1>19, <1>20, <1>21, <1>22, <1>23, <1>24,
     <1>25
  DEF Next, Environment, Round, Work, GitFetch

\* The initial state has the types.
LEMMA InitType == Init => TypeInv
<1> SUFFICES ASSUME Init PROVE TypeInv
  OBVIOUS
<1>1. UpType /\ DiskType
  <2>1. gcLog \in BOOLEAN
    BY Zenon DEF Init
  <2> QED
    BY <2>1, RefAssumption, BoundAssumption DEF Init, UpType, DiskType
<1>2. ClockType /\ MainType
  BY BoundAssumption DEF Init, ClockType, MainType
<1>3. QueueType
  BY BoundAssumption DEF Init, QueueType
<1>4. WorkerType
  <2>1. fetchErr \in BOOLEAN
    BY Zenon DEF Init
  <2> QED
    BY <2>1, NoAdvType DEF Init, WorkerType, Phases
<1>5. ReqType /\ HistType
  <2>1. gone \in [Requests -> BOOLEAN]
    BY Zenon DEF Init
  <2> QED
    BY <2>1 DEF Init, ReqType, HistType, PCs
<1> QED
  BY <1>1, <1>2, <1>3, <1>4, <1>5 DEF TypeInv

\* Type correctness: what the worker, the rounds, the handlers and the git processes share
\* keeps its shape, the channels of the rounds and the queue of the pool their capacity.
THEOREM Typing == Spec => []TypeOK
BY InitType, TypeStep, TypeInvImpliesTypeOK, PTL DEF Spec

(***************************************************************************)
(* The rounds.  The pre-fetch is the only round that must fetch; while it  *)
(* is under way main waits for it, and its channel is empty until its      *)
(* fetch has ended.                                                        *)
(***************************************************************************)
Fetching == {"all", "all_git", "origin", "origin_git", "store"}

\* Main waits for the error of round n, the pre-fetch, which has not been sent.
Prefetching(n) == server = "starting" /\ bg = "receive" /\ n = call /\ errorChan[n] = <<>>

\* The worker runs a fetch that it may not skip.
MustRuns == phase \in Fetching /\ \E m \in 1..MaxCalls : task = RoundTask(m, TRUE)

\* The waiting tasks.  One that must fetch is that of the pre-fetch, there is no other,
\* and none runs; the others come from a server that serves.
MustWaits ==
  \A i \in 1..Len(queue), n \in 1..MaxCalls : queue[i] = RoundTask(n, TRUE) => Prefetching(n)
MustOnce ==
  \A i \in 1..Len(queue), j \in 1..Len(queue), n \in 1..MaxCalls, m \in 1..MaxCalls :
    queue[i] = RoundTask(n, TRUE) /\ queue[j] = RoundTask(m, TRUE) => i = j
MustAlone ==
  \A i \in 1..Len(queue), n \in 1..MaxCalls : queue[i] = RoundTask(n, TRUE) => ~MustRuns
OthersWait ==
  \A i \in 1..Len(queue), n \in 1..MaxCalls : queue[i] = RoundTask(n, FALSE) => server = "serving"
Numbered ==
  \A i \in 1..Len(queue), n \in 1..MaxCalls, b \in BOOLEAN : queue[i] = RoundTask(n, b) => n <= call
QueueInv == MustWaits /\ MustOnce /\ MustAlone /\ OthersWait /\ Numbered

\* The running task: it fetches and has sent nothing, or it has sent the error of its
\* fetch and goes on with git gc.
RunInv ==
  /\ phase \in Fetching => startTime # 0
  /\ \A n \in 1..MaxCalls, b \in BOOLEAN :
       task = RoundTask(n, b) /\ phase # "idle" =>
         /\ n <= call
         /\ phase \in Fetching => IF b THEN Prefetching(n) ELSE server = "serving"
         /\ phase \notin Fetching =>
              \/ server = "serving"
              \/ server = "starting" /\ bg = "receive" /\ n = call /\ errorChan[n] # <<>>

\* The channels, and what a nil on the channel of the pre-fetch means.
ChanInv ==
  /\ \A n \in 1..MaxCalls : n > call => errorChan[n] = <<>>
  /\ server = "starting" /\ bg = "submit" => errorChan[call] = <<>>
  /\ server = "starting" /\ bg = "receive" /\ errorChan[call] = <<"nil">> => lastUpdate # 0
  /\ bg = "decide" => server = "serving"
  /\ server = "exited" => bg = "sleep"

RoundInv == QueueInv /\ RunInv /\ ChanInv /\ PrefetchFirst

\* What RoundInv is about.
rounds == <<server, bg, call, errorChan, lastUpdate, queue, task, phase, startTime>>

\* The tasks that wait after the step are those that waited before it, without the
\* first k.
Moved(k) ==
  /\ Len(queue') = Len(queue) - k
  /\ \A i \in 1..Len(queue') : i + k \in 1..Len(queue) /\ queue'[i] = queue[i + k]

\* Behind those that waited before it waits one more.
Grown(t) ==
  \A i \in 1..Len(queue') :
    \/ i \in 1..Len(queue) /\ queue'[i] = queue[i]
    \/ i = Len(queue) + 1 /\ queue'[i] = t

\* A step that leaves the queue alone.
LEMMA StillQueue == ASSUME QueueType, queue' = queue PROVE Moved(0)
BY DEF QueueType, Moved

\* The worker takes the first task; the others move up.
LEMMA TailQueue ==
  ASSUME QueueType, NEW t, PickUp(t)
  PROVE  phase = "idle" /\ t \in Tasks /\ 1 \in 1..Len(queue) /\ queue[1] = t /\ Moved(1)
<1>1. queue # <<>> /\ Head(queue) = t /\ queue' = Tail(queue) /\ phase = "idle"
  BY DEF PickUp
<1>2. Len(queue) \in Nat \ {0} /\ queue[1] = t /\ t \in Tasks
  BY <1>1 DEF QueueType
<1>3. Len(queue') = Len(queue) - 1 /\ \A i \in 1..Len(queue') : queue'[i] = queue[i + 1]
  BY <1>1, <1>2 DEF QueueType
<1> QED
  BY <1>1, <1>2, <1>3 DEF Moved

\* Submit puts a task behind those that wait.
LEMMA AppendQueue ==
  ASSUME QueueType, NEW t \in Tasks, queue' = Append(queue, t)
  PROVE  Grown(t)
BY DEF QueueType, Grown

\* The pre-fetch goes on waiting when the worker takes a task and sends nothing.
LEMMA WaitsMoved ==
  ASSUME MustWaits, NEW k \in {0, 1}, Moved(k), UNCHANGED <<server, bg, call, errorChan>>
  PROVE  MustWaits'
BY DEF MustWaits, Moved, Prefetching

\* The waiting tasks keep what is known of them while they move up.
LEMMA QueueMoved ==
  ASSUME QueueType, MainType, MainType', QueueInv, NEW k \in {0, 1}, Moved(k),
         MustWaits',
         MustRuns' => MustRuns \/ (k = 1 /\ \E n \in 1..MaxCalls : queue[1] = RoundTask(n, TRUE)),
         server = "serving" => server' = "serving", call <= call'
  PROVE  QueueInv'
<1>0. Len(queue) \in Nat /\ k \in Nat
  BY DEF QueueType
<1>1. MustOnce'
  <2> SUFFICES ASSUME NEW i \in 1..Len(queue'), NEW j \in 1..Len(queue'),
                      NEW n \in 1..MaxCalls, NEW m \in 1..MaxCalls,
                      queue'[i] = RoundTask(n, TRUE), queue'[j] = RoundTask(m, TRUE)
               PROVE  i = j
    BY DEF MustOnce
  <2>1. i + k \in 1..Len(queue) /\ queue[i + k] = RoundTask(n, TRUE)
    BY DEF Moved
  <2>2. j + k \in 1..Len(queue) /\ queue[j + k] = RoundTask(m, TRUE)
    BY DEF Moved
  <2>3. i + k = j + k
    BY <2>1, <2>2 DEF QueueInv, MustOnce
  <2> QED
    BY <1>0, <2>3
<1>2. MustAlone'
  <2> SUFFICES ASSUME NEW i \in 1..Len(queue'), NEW n \in 1..MaxCalls,
                      queue'[i] = RoundTask(n, TRUE), MustRuns'
               PROVE  FALSE
    BY DEF MustAlone
  <2>1. i + k \in 1..Len(queue) /\ queue[i + k] = RoundTask(n, TRUE)
    BY DEF Moved
  <2>2. ~MustRuns
    BY <2>1 DEF QueueInv, MustAlone
  <2>3. PICK m \in 1..MaxCalls : k = 1 /\ queue[1] = RoundTask(m, TRUE)
    BY <2>2
  <2>4. 1 \in 1..Len(queue) /\ i + k # 1
    BY <1>0, <2>3 DEF Moved
  <2> QED
    BY <2>1, <2>3, <2>4 DEF QueueInv, MustOnce
<1>3. OthersWait'
  BY DEF Moved, QueueInv, OthersWait
<1>4. Numbered'
  BY DEF Moved, QueueInv, Numbered, MainType
<1> QED
  BY <1>1, <1>2, <1>3, <1>4 DEF QueueInv

\* The two ways to move: not at all, and by one.
LEMMA QueueStays ==
  ASSUME QueueType, MainType, MainType', QueueInv, queue' = queue, MustWaits', MustRuns' => MustRuns,
         server = "serving" => server' = "serving", call <= call'
  PROVE  QueueInv'
<1>1. Moved(0)
  BY StillQueue
<1> QED
  BY <1>1, QueueMoved

\* The worker takes the first task of the queue.
LEMMA QueueTaken ==
  ASSUME QueueType, MainType, MainType', QueueInv, Moved(1), MustWaits',
         MustRuns' => MustRuns \/ \E n \in 1..MaxCalls : queue[1] = RoundTask(n, TRUE),
         server' = server, call' = call
  PROVE  QueueInv'
<1>1. call <= call'
  BY DEF MainType
<1> QED
  BY <1>1, QueueMoved

\* They keep it, too, when a task is submitted that is none that must fetch, or the only one.
LEMMA QueueGrown ==
  ASSUME QueueInv, NEW t \in Tasks, Grown(t),
         UNCHANGED <<server, call, task, phase>>, MustWaits',
         \A n \in 1..MaxCalls : t = RoundTask(n, TRUE) =>
           ~MustRuns /\ \A i \in 1..Len(queue), m \in 1..MaxCalls : queue[i] # RoundTask(m, TRUE),
         \A n \in 1..MaxCalls : t = RoundTask(n, FALSE) => server = "serving",
         \A n \in 1..MaxCalls, b \in BOOLEAN : t = RoundTask(n, b) => n <= call
  PROVE  QueueInv'
<1>0. \A i \in 1..Len(queue') :
        \/ i \in 1..Len(queue) /\ queue'[i] = queue[i]
        \/ i = Len(queue) + 1 /\ queue'[i] = t
  BY DEF Grown
<1>1. MustOnce'
  <2> SUFFICES ASSUME NEW i \in 1..Len(queue'), NEW j \in 1..Len(queue'),
                      NEW n \in 1..MaxCalls, NEW m \in 1..MaxCalls,
                      queue'[i] = RoundTask(n, TRUE), queue'[j] = RoundTask(m, TRUE)
               PROVE  i = j
    BY DEF MustOnce
  <2>1. CASE t = RoundTask(n, TRUE)
    BY <1>0, <2>1
  <2>2. CASE t = RoundTask(m, TRUE)
    BY <1>0, <2>2
  <2>3. CASE t # RoundTask(n, TRUE) /\ t # RoundTask(m, TRUE)
    <3>1. /\ i \in 1..Len(queue) /\ queue[i] = RoundTask(n, TRUE)
          /\ j \in 1..Len(queue) /\ queue[j] = RoundTask(m, TRUE)
      BY <1>0, <2>3
    <3> QED
      BY <3>1 DEF QueueInv, MustOnce
  <2> QED
    BY <2>1, <2>2, <2>3
<1>2. MustRuns' = MustRuns
  BY DEF MustRuns
<1>3. MustAlone'
  BY <1>0, <1>2 DEF QueueInv, MustAlone
<1>4. OthersWait'
  BY <1>0 DEF QueueInv, OthersWait
<1>5. Numbered'
  BY <1>0 DEF QueueInv, Numbered
<1> QED
  BY <1>1, <1>3, <1>4, <1>5 DEF QueueInv

\* A step that changes nothing of it keeps it.
LEMMA RoundsUnchanged ==
  ASSUME QueueType, MainType, MainType', RoundInv, UNCHANGED rounds
  PROVE  RoundInv'
<1>1. QueueInv'
  <2>1. MustWaits' /\ (MustRuns' => MustRuns)
    BY StillQueue, WaitsMoved DEF rounds, RoundInv, QueueInv, MustRuns
  <2> QED
    BY <2>1, QueueStays DEF rounds, RoundInv, MainType
<1>2. RunInv'
  BY DEF rounds, RoundInv, RunInv, Prefetching
<1>3. ChanInv' /\ PrefetchFirst'
  BY DEF rounds, RoundInv, ChanInv, PrefetchFirst
<1> QED
  BY <1>1, <1>2, <1>3 DEF RoundInv

\* No task that must fetch waits or runs unless main waits for the pre-fetch.
LEMMA NoMust ==
  ASSUME RoundInv, \A n \in 1..MaxCalls : ~Prefetching(n)
  PROVE  /\ ~MustRuns
         /\ \A i \in 1..Len(queue), n \in 1..MaxCalls : queue[i] # RoundTask(n, TRUE)
<1>1. ~MustRuns
  BY DEF RoundInv, RunInv, MustRuns, Fetching
<1>2. \A i \in 1..Len(queue), n \in 1..MaxCalls : queue[i] # RoundTask(n, TRUE)
  BY DEF RoundInv, QueueInv, MustWaits
<1> QED
  BY <1>1, <1>2

\* A step of main, or of the worker, while main does not wait for the pre-fetch.
LEMMA QuietQueue ==
  ASSUME QueueType, MainType, MainType', RoundInv, queue' = queue, UNCHANGED <<task, phase>>,
         \A n \in 1..MaxCalls : ~Prefetching(n),
         server = "serving" => server' = "serving", call <= call'
  PROVE  QueueInv'
<1>1. MustWaits'
  BY NoMust DEF MustWaits
<1>2. MustRuns' => MustRuns
  BY DEF MustRuns
<1> QED
  BY <1>1, <1>2, QueueStays DEF RoundInv

\* Every step keeps RoundInv.
LEMMA RoundStep ==
  ASSUME TypeInv, TypeInv', RoundInv, [Next]_vars
  PROVE  RoundInv'
<1> USE DEF TypeInv, upstream, disk, main, worker, requests, history
<1>1. CASE Tick
  BY <1>1, RoundsUnchanged DEF Tick, rounds
<1>2. CASE GitLogsGc
  BY <1>2, RoundsUnchanged DEF GitLogsGc, rounds
<1>3. CASE Crash
  <2>1. QueueInv'
    <3>1. 1..Len(queue') = {}
      BY <1>3 DEF Crash, Stop
    <3> QED
      BY <3>1 DEF QueueInv, MustWaits, MustOnce, MustAlone, OthersWait, Numbered
  <2>2. RunInv'
    BY <1>3, TaskFacts DEF Crash, Stop, MainType, RoundInv, RunInv, Prefetching, Fetching
  <2>3. ChanInv'
    BY <1>3 DEF Crash, Stop, MainType, RoundInv, ChanInv
  <2>4. PrefetchFirst'
    BY <1>3 DEF Crash, Stop, MainType, RoundInv, PrefetchFirst
  <2> QED
    BY <2>1, <2>2, <2>3, <2>4 DEF RoundInv
<1>4. ASSUME NEW r \in Refs, NEW c \in Commits \cup {NoCommit}, Push(r, c) PROVE RoundInv'
  BY <1>4, RoundsUnchanged DEF Push, rounds
<1>5. CASE StartRound
  <2>1. \A m \in 1..MaxCalls : ~Prefetching(m)
    BY <1>5 DEF StartRound, Prefetching
  <2>2. QueueInv'
    BY <1>5, <2>1, QuietQueue DEF StartRound, MainType
  <2>3. RunInv'
    BY <1>5, <2>1, TaskFacts DEF StartRound, MainType, RoundInv, RunInv, Prefetching, Fetching
  <2>4. ChanInv'
    BY <1>5 DEF StartRound, MainType, RoundInv, ChanInv
  <2>5. PrefetchFirst'
    BY <1>5 DEF StartRound, MainType, RoundInv, PrefetchFirst
  <2> QED
    BY <2>2, <2>3, <2>4, <2>5 DEF RoundInv
<1>6. CASE SkipRound
  <2>1. Send(call, FALSE)
    BY <1>6 DEF SkipRound
  <2>2. call \in 1..MaxCalls /\ bg' = "receive" /\ server' = server
    BY <1>6 DEF SkipRound, MainType
  <2>3. server = "serving"
    BY <1>6 DEF SkipRound, RoundInv, ChanInv
  <2>4. \A m \in 1..MaxCalls : m # call => errorChan'[m] = errorChan[m]
    BY <2>1, <2>2, SendType
  <2>5. \A m \in 1..MaxCalls : ~Prefetching(m)
    BY <2>3 DEF Prefetching
  <2>6. QueueInv'
    BY <1>6, <2>2, <2>5, QuietQueue DEF SkipRound, MainType
  <2>7. RunInv'
    BY <1>6, <2>2, <2>3, TaskFacts DEF SkipRound, MainType, RoundInv, RunInv, Prefetching, Fetching
  <2>8. ChanInv'
    BY <1>6, <2>2, <2>3, <2>4 DEF SkipRound, MainType, RoundInv, ChanInv
  <2>9. PrefetchFirst'
    BY <1>6, <2>2 DEF SkipRound, MainType, RoundInv, PrefetchFirst
  <2> QED
    BY <2>6, <2>7, <2>8, <2>9 DEF RoundInv
<1>7. CASE NeedRound
  <2>1. \A m \in 1..MaxCalls : ~Prefetching(m)
    BY <1>7 DEF NeedRound, Prefetching
  <2>2. QueueInv'
    BY <1>7, <2>1, QuietQueue DEF NeedRound, MainType
  <2>3. RunInv'
    BY <1>7, <2>1, TaskFacts DEF NeedRound, MainType, RoundInv, RunInv, Prefetching, Fetching
  <2>4. ChanInv'
    BY <1>7 DEF NeedRound, MainType, RoundInv, ChanInv
  <2>5. PrefetchFirst'
    BY <1>7 DEF NeedRound, MainType, RoundInv, PrefetchFirst
  <2> QED
    BY <2>2, <2>3, <2>4, <2>5 DEF RoundInv
<1>8. CASE SubmitRound
  <2>1. call \in 1..MaxCalls /\ (server = "starting") \in BOOLEAN
    BY <1>8 DEF SubmitRound, MainType
  <2>2. server # "starting" => server = "serving"
    BY <1>8 DEF SubmitRound, MainType, RoundInv, ChanInv
  <2>3. \A m \in 1..MaxCalls : ~Prefetching(m)
    BY <1>8 DEF SubmitRound, Prefetching
  <2>4. ASSUME server = "starting" PROVE QueueInv'
    <3>1. queue' = Append(queue, RoundTask(call, TRUE)) /\ RoundTask(call, TRUE) \in Tasks
      <4>1. (server = "starting") = TRUE
        BY <2>4, Zenon
      <4> QED
        BY <1>8, <2>1, <4>1, TaskFacts DEF SubmitRound
    <3>2. \A n \in 1..MaxCalls : n = call => Prefetching(n)'
      BY <1>8, <2>4 DEF SubmitRound, Prefetching, RoundInv, ChanInv
    <3>3. ~MustRuns /\ \A i \in 1..Len(queue), m \in 1..MaxCalls : queue[i] # RoundTask(m, TRUE)
      BY <2>3, NoMust
    <3>4. Grown(RoundTask(call, TRUE))
      BY <3>1, AppendQueue
    <3>5. MustWaits'
      <4>1. \A n \in 1..MaxCalls : RoundTask(call, TRUE) = RoundTask(n, TRUE) => n = call
        BY DEF RoundTask
      <4> QED
        BY <3>2, <3>3, <3>4, <4>1 DEF MustWaits, Grown
    <3>6. UNCHANGED <<server, call, task, phase>>
      BY <1>8 DEF SubmitRound
    <3>7. \A n \in 1..MaxCalls, b \in BOOLEAN : RoundTask(call, TRUE) = RoundTask(n, b) => n <= call
      BY <2>1 DEF RoundTask
    <3>8. \A n \in 1..MaxCalls : RoundTask(call, TRUE) # RoundTask(n, FALSE)
      BY DEF RoundTask
    <3> QED
      BY <3>1, <3>3, <3>4, <3>5, <3>6, <3>7, <3>8, QueueGrown DEF RoundInv
  <2>5. ASSUME server # "starting" PROVE QueueInv'
    <3>1. queue' = Append(queue, RoundTask(call, FALSE)) /\ RoundTask(call, FALSE) \in Tasks
      <4>1. (server = "starting") = FALSE
        BY <2>5, Zenon
      <4> QED
        BY <1>8, <2>1, <4>1, TaskFacts DEF SubmitRound
    <3>2. \A i \in 1..Len(queue), m \in 1..MaxCalls : queue[i] # RoundTask(m, TRUE)
      BY <2>3, NoMust
    <3>3. Grown(RoundTask(call, FALSE))
      BY <3>1, AppendQueue
    <3>4. \A n \in 1..MaxCalls : RoundTask(call, FALSE) # RoundTask(n, TRUE)
      BY DEF RoundTask
    <3>5. MustWaits'
      BY <3>2, <3>3, <3>4 DEF MustWaits, Grown
    <3>6. UNCHANGED <<server, call, task, phase>>
      BY <1>8 DEF SubmitRound
    <3>7. \A n \in 1..MaxCalls, b \in BOOLEAN : RoundTask(call, FALSE) = RoundTask(n, b) => n <= call
      BY <2>1 DEF RoundTask
    <3> QED
      BY <2>2, <2>5, <3>1, <3>3, <3>4, <3>5, <3>6, <3>7, QueueGrown DEF RoundInv
  <2>6. QueueInv'
    BY <2>4, <2>5
  <2>7. RunInv'
    BY <1>8, <2>1, <2>3, TaskFacts DEF SubmitRound, MainType, RoundInv, RunInv, Prefetching, Fetching
  <2>8. ChanInv'
    <3>1. <<>> # <<"nil">>
      OBVIOUS
    <3> QED
      BY <1>8, <2>1, <3>1 DEF SubmitRound, MainType, RoundInv, ChanInv
  <2>9. PrefetchFirst'
    BY <1>8 DEF SubmitRound, MainType, RoundInv, PrefetchFirst
  <2> QED
    BY <2>6, <2>7, <2>8, <2>9 DEF RoundInv
<1>9. CASE EndRound
  <2>1. call \in 1..MaxCalls /\ errorChan[call] # <<>>
    BY <1>9 DEF EndRound, MainType
  <2>2. \A m \in 1..MaxCalls : m # call => errorChan'[m] = errorChan[m]
    BY <1>9, <2>1 DEF EndRound, MainType
  <2>3. \A m \in 1..MaxCalls : ~Prefetching(m)
    BY <2>1 DEF Prefetching
  <2>4. Head(<<"err">>) = "err" /\ Head(<<"nil">>) = "nil"
    OBVIOUS
  <2>5. QueueInv'
    BY <1>9, <2>3, QuietQueue DEF EndRound, MainType
  <2>6. RunInv'
    BY <1>9, <2>3, TaskFacts DEF EndRound, MainType, RoundInv, RunInv, Prefetching, Fetching
  <2>7. ChanInv'
    BY <1>9, <2>1, <2>2 DEF EndRound, MainType, RoundInv, ChanInv
  <2>8. PrefetchFirst'
    BY <1>9, <2>1, <2>4 DEF EndRound, MainType, RoundInv, PrefetchFirst, ChanInv
  <2> QED
    BY <2>5, <2>6, <2>7, <2>8 DEF RoundInv
<1>10. CASE PrefetchFails
  <2>1. QueueInv'
    <3>1. 1..Len(queue') = {}
      BY <1>10 DEF PrefetchFails, Stop
    <3> QED
      BY <3>1 DEF QueueInv, MustWaits, MustOnce, MustAlone, OthersWait, Numbered
  <2>2. RunInv'
    BY <1>10, TaskFacts DEF PrefetchFails, Stop, MainType, RoundInv, RunInv, Prefetching, Fetching
  <2>3. ChanInv'
    BY <1>10 DEF PrefetchFails, Stop, MainType, RoundInv, ChanInv
  <2>4. PrefetchFirst'
    BY <1>10 DEF PrefetchFails, Stop, MainType, RoundInv, PrefetchFirst
  <2> QED
    BY <2>1, <2>2, <2>3, <2>4 DEF RoundInv
<1>11. CASE GitConnect
  <2>1. Moved(0) /\ MustWaits' /\ (MustRuns' => MustRuns)
    BY <1>11, StillQueue, WaitsMoved DEF GitConnect, RoundInv, QueueInv, MustRuns, Fetching
  <2>2. QueueInv'
    <3>1. server' = server /\ call' = call /\ call <= call' /\ queue' = queue
      BY <1>11 DEF GitConnect, MainType
    <3> QED
      BY <2>1, <3>1, QueueStays DEF RoundInv
  <2>3. RunInv'
    BY <1>11, TaskFacts DEF GitConnect, RoundInv, RunInv, Prefetching, Fetching
  <2>4. ChanInv'
    BY <1>11 DEF GitConnect, RoundInv, ChanInv
  <2>5. PrefetchFirst'
    BY <1>11 DEF GitConnect, RoundInv, PrefetchFirst
  <2> QED
    BY <2>2, <2>3, <2>4, <2>5 DEF RoundInv
<1>12. CASE EndFetchAll
  <2>1. Moved(0) /\ MustWaits' /\ (MustRuns' => MustRuns)
    BY <1>12, StillQueue, WaitsMoved DEF EndFetchAll, RoundInv, QueueInv, MustRuns, Fetching
  <2>2. QueueInv'
    <3>1. server' = server /\ call' = call /\ call <= call' /\ queue' = queue
      BY <1>12 DEF EndFetchAll, MainType
    <3> QED
      BY <2>1, <3>1, QueueStays DEF RoundInv
  <2>3. RunInv'
    BY <1>12, TaskFacts DEF EndFetchAll, RoundInv, RunInv, Prefetching, Fetching
  <2>4. ChanInv'
    BY <1>12 DEF EndFetchAll, RoundInv, ChanInv
  <2>5. PrefetchFirst'
    BY <1>12 DEF EndFetchAll, RoundInv, PrefetchFirst
  <2> QED
    BY <2>2, <2>3, <2>4, <2>5 DEF RoundInv
<1>13. CASE EndFetchOrigin
  <2>1. Moved(0) /\ MustWaits' /\ (MustRuns' => MustRuns)
    BY <1>13, StillQueue, WaitsMoved DEF EndFetchOrigin, RoundInv, QueueInv, MustRuns, Fetching
  <2>2. QueueInv'
    <3>1. server' = server /\ call' = call /\ call <= call' /\ queue' = queue
      BY <1>13 DEF EndFetchOrigin, MainType
    <3> QED
      BY <2>1, <3>1, QueueStays DEF RoundInv
  <2>3. RunInv'
    BY <1>13, TaskFacts DEF EndFetchOrigin, RoundInv, RunInv, Prefetching, Fetching
  <2>4. ChanInv'
    BY <1>13 DEF EndFetchOrigin, RoundInv, ChanInv
  <2>5. PrefetchFirst'
    BY <1>13 DEF EndFetchOrigin, RoundInv, PrefetchFirst
  <2> QED
    BY <2>2, <2>3, <2>4, <2>5 DEF RoundInv
<1>14. CASE FailFetchOrigin
  <2>1. Moved(0) /\ MustWaits' /\ (MustRuns' => MustRuns)
    BY <1>14, StillQueue, WaitsMoved DEF FailFetchOrigin, RoundInv, QueueInv, MustRuns, Fetching
  <2>2. QueueInv'
    <3>1. server' = server /\ call' = call /\ call <= call' /\ queue' = queue
      BY <1>14 DEF FailFetchOrigin, MainType
    <3> QED
      BY <2>1, <3>1, QueueStays DEF RoundInv
  <2>3. RunInv'
    BY <1>14, TaskFacts DEF FailFetchOrigin, RoundInv, RunInv, Prefetching, Fetching
  <2>4. ChanInv'
    BY <1>14 DEF FailFetchOrigin, RoundInv, ChanInv
  <2>5. PrefetchFirst'
    BY <1>14 DEF FailFetchOrigin, RoundInv, PrefetchFirst
  <2> QED
    BY <2>2, <2>3, <2>4, <2>5 DEF RoundInv
<1>15. ASSUME NEW c \in Commits, GitWriteObject(c) PROVE RoundInv'
  BY <1>15, RoundsUnchanged DEF GitWriteObject, rounds
<1>16. CASE RunGC
  <2>1. Moved(0) /\ MustWaits' /\ (MustRuns' => MustRuns)
    BY <1>16, StillQueue, WaitsMoved DEF RunGC, RoundInv, QueueInv, MustRuns, Fetching
  <2>2. QueueInv'
    <3>1. server' = server /\ call' = call /\ call <= call' /\ queue' = queue
      BY <1>16 DEF RunGC, MainType
    <3> QED
      BY <2>1, <3>1, QueueStays DEF RoundInv
  <2>3. RunInv'
    BY <1>16, TaskFacts DEF RunGC, RoundInv, RunInv, Prefetching, Fetching
  <2>4. ChanInv'
    BY <1>16 DEF RunGC, RoundInv, ChanInv
  <2>5. PrefetchFirst'
    BY <1>16 DEF RunGC, RoundInv, PrefetchFirst
  <2> QED
    BY <2>2, <2>3, <2>4, <2>5 DEF RoundInv
<1>17. ASSUME NEW r \in Requests, FetchForRequest(r) PROVE RoundInv'
  <2>1. phase = "idle" /\ RequestTask(r) \in Tasks /\ 1 \in 1..Len(queue) /\ queue[1] = RequestTask(r) /\ Moved(1)
    BY <1>17, TailQueue DEF FetchForRequest, BeginFetch
  <2>2. MustWaits' /\ ~MustRuns'
    BY <1>17, <2>1, TaskFacts, WaitsMoved DEF FetchForRequest, BeginFetch, RoundInv, QueueInv, MustRuns
  <2>3. QueueInv'
    <3>1. server' = server /\ call' = call /\ call <= call'
      BY <1>17 DEF FetchForRequest, BeginFetch, MainType
    <3> QED
      BY <2>1, <2>2, <3>1, QueueTaken DEF RoundInv
  <2>4. RunInv'
    BY <1>17, <2>1, TaskFacts DEF FetchForRequest, BeginFetch, ClockType, RoundInv, RunInv,
       Prefetching, Fetching
  <2>5. ChanInv'
    BY <1>17 DEF FetchForRequest, BeginFetch, ClockType, RoundInv, ChanInv
  <2>6. PrefetchFirst'
    BY <1>17 DEF FetchForRequest, BeginFetch, ClockType, RoundInv, PrefetchFirst
  <2> QED
    BY <2>3, <2>4, <2>5, <2>6 DEF RoundInv
<1>18. ASSUME NEW r \in Requests, SkipRequest(r) PROVE RoundInv'
  <2>1. phase = "idle" /\ RequestTask(r) \in Tasks /\ 1 \in 1..Len(queue) /\ queue[1] = RequestTask(r) /\ Moved(1)
    BY <1>18, TailQueue DEF SkipRequest
  <2>2. MustWaits' /\ (MustRuns' => MustRuns)
    BY <1>18, <2>1, WaitsMoved DEF SkipRequest, RoundInv, QueueInv, MustRuns
  <2>3. QueueInv'
    <3>1. server' = server /\ call' = call /\ call <= call'
      BY <1>18 DEF SkipRequest, MainType
    <3> QED
      BY <2>1, <2>2, <3>1, QueueTaken DEF RoundInv
  <2>4. RunInv'
    BY <1>18, <2>1, TaskFacts DEF SkipRequest, RoundInv, RunInv, Prefetching, Fetching
  <2>5. ChanInv'
    BY <1>18 DEF SkipRequest, RoundInv, ChanInv
  <2>6. PrefetchFirst'
    BY <1>18 DEF SkipRequest, RoundInv, PrefetchFirst
  <2> QED
    BY <2>3, <2>4, <2>5, <2>6 DEF RoundInv
<1>19. ASSUME NEW r \in Requests, FinishRequest(r) PROVE RoundInv'
  <2>1. Moved(0) /\ MustWaits' /\ ~MustRuns'
    BY <1>19, StillQueue, WaitsMoved DEF FinishRequest, RoundInv, QueueInv, MustRuns, Fetching
  <2>2. QueueInv'
    <3>1. server' = server /\ call' = call /\ call <= call' /\ queue' = queue
      BY <1>19 DEF FinishRequest, MainType
    <3> QED
      BY <2>1, <3>1, QueueStays DEF RoundInv
  <2>3. RunInv'
    BY <1>19, TaskFacts DEF FinishRequest, StoreUpdate, RoundInv, RunInv, Prefetching, Fetching
  <2>4. ChanInv'
    BY <1>19 DEF FinishRequest, StoreUpdate, RoundInv, ChanInv, RunInv, Fetching, Prefetching
  <2>5. PrefetchFirst'
    BY <1>19 DEF FinishRequest, StoreUpdate, RoundInv, PrefetchFirst, RunInv, Fetching, Prefetching
  <2> QED
    BY <2>2, <2>3, <2>4, <2>5 DEF RoundInv
<1>20. ASSUME NEW n \in 1..MaxCalls, SkipTask(n) PROVE RoundInv'
  <2>1. phase = "idle" /\ RoundTask(n, FALSE) \in Tasks /\ 1 \in 1..Len(queue) /\ queue[1] = RoundTask(n, FALSE) /\ Moved(1)
    BY <1>20, TailQueue DEF SkipTask
  <2>2. server = "serving" /\ n <= call
    BY <2>1 DEF RoundInv, QueueInv, OthersWait, Numbered
  <2>3. \A m \in 1..MaxCalls : m # n => errorChan'[m] = errorChan[m]
    BY <1>20, SendType DEF SkipTask
  <2>4. \A m \in 1..MaxCalls : ~Prefetching(m)
    BY <2>2 DEF Prefetching
  <2>5. MustWaits' /\ ~MustRuns'
    BY <1>20, <2>1, <2>4, NoMust DEF SkipTask, AfterFetch, MustWaits, MustRuns, Moved, Fetching
  <2>6. QueueInv'
    <3>1. server' = server /\ call' = call /\ call <= call'
      BY <1>20 DEF SkipTask, MainType
    <3> QED
      BY <2>1, <2>5, <3>1, QueueTaken DEF RoundInv
  <2>7. RunInv'
    <3>1. phase' \notin Fetching /\ server' = server /\ call' = call
      BY <1>20 DEF SkipTask, AfterFetch, Fetching
    <3>2. \A m \in 1..MaxCalls, b \in BOOLEAN : task' = RoundTask(m, b) => m = n
      BY <1>20 DEF SkipTask, AfterFetch, RoundTask, NoTask
    <3> QED
      BY <2>2, <3>1, <3>2 DEF RunInv
  <2>8. ChanInv'
    BY <1>20, <2>2, <2>3 DEF SkipTask, AfterFetch, MainType, RoundInv, ChanInv
  <2>9. PrefetchFirst'
    BY <1>20 DEF SkipTask, AfterFetch, MainType, RoundInv, PrefetchFirst
  <2> QED
    BY <2>6, <2>7, <2>8, <2>9 DEF RoundInv
<1>21. ASSUME NEW n \in 1..MaxCalls, NEW must \in BOOLEAN, FetchForRound(n, must) PROVE RoundInv'
  <2>1. phase = "idle" /\ RoundTask(n, must) \in Tasks /\ 1 \in 1..Len(queue) /\ queue[1] = RoundTask(n, must) /\ Moved(1)
    BY <1>21, TailQueue DEF FetchForRound, BeginFetch
  <2>2. MustWaits' /\ (MustRuns' => \E m \in 1..MaxCalls : queue[1] = RoundTask(m, TRUE))
    BY <1>21, <2>1, TaskFacts, WaitsMoved DEF FetchForRound, BeginFetch, RoundInv, QueueInv, MustRuns
  <2>3. QueueInv'
    <3>1. server' = server /\ call' = call /\ call <= call'
      BY <1>21 DEF FetchForRound, BeginFetch, MainType
    <3> QED
      BY <2>1, <2>2, <3>1, QueueTaken DEF RoundInv
  <2>4. n <= call /\ IF must THEN Prefetching(n) ELSE server = "serving"
    BY <2>1 DEF RoundInv, QueueInv, MustWaits, OthersWait, Numbered
  <2>5. RunInv'
    BY <1>21, <2>1, <2>4, TaskFacts DEF FetchForRound, BeginFetch, ClockType, RoundInv, RunInv,
       Prefetching, Fetching
  <2>6. ChanInv'
    BY <1>21 DEF FetchForRound, BeginFetch, ClockType, RoundInv, ChanInv
  <2>7. PrefetchFirst'
    BY <1>21 DEF FetchForRound, BeginFetch, ClockType, RoundInv, PrefetchFirst
  <2> QED
    BY <2>3, <2>5, <2>6, <2>7 DEF RoundInv
<1>22. ASSUME NEW n \in 1..MaxCalls, NEW must \in BOOLEAN, FinishRound(n, must) PROVE RoundInv'
  <2>1. phase = "store" /\ n <= call /\ IF must THEN Prefetching(n) ELSE server = "serving"
    BY <1>22 DEF FinishRound, StoreUpdate, RoundInv, RunInv, Fetching
  <2>2. /\ errorChan'[n] = IF fetchErr THEN <<"err">> ELSE <<"nil">>
        /\ \A m \in 1..MaxCalls : m # n => errorChan'[m] = errorChan[m]
    BY <1>22, SendType DEF FinishRound
  <2>3. /\ lastUpdate' = lastUpdate \/ lastUpdate' # 0
        /\ ~fetchErr => lastUpdate' # 0
    BY <1>22, <2>1 DEF FinishRound, StoreUpdate, RoundInv, RunInv, Fetching
  <2>4. \A i \in 1..Len(queue), m \in 1..MaxCalls : queue[i] # RoundTask(m, TRUE)
    <3>1. CASE must
      <4>1. MustRuns
        BY <1>22, <2>1, <3>1 DEF FinishRound, MustRuns, Fetching
      <4> QED
        BY <4>1 DEF RoundInv, QueueInv, MustAlone
    <3>2. CASE ~must
      BY <2>1, <3>2, NoMust DEF Prefetching
    <3> QED
      BY <3>1, <3>2
  <2>5. Moved(0) /\ MustWaits' /\ ~MustRuns'
    BY <1>22, <2>4, StillQueue DEF FinishRound, AfterFetch, MustRuns, Fetching, MustWaits
  <2>6. QueueInv'
    <3>1. server' = server /\ call' = call /\ call <= call' /\ queue' = queue
      BY <1>22 DEF FinishRound, MainType
    <3> QED
      BY <2>5, <3>1, QueueStays DEF RoundInv
  <2>7. <<"err">> # <<>> /\ <<"nil">> # <<>> /\ <<"err">> # <<"nil">>
    OBVIOUS
  <2>8. RunInv'
    BY <1>22, <2>1, <2>2, <2>7, TaskFacts DEF FinishRound, AfterFetch, MainType, RoundInv, RunInv,
       Prefetching, Fetching
  <2>9. ChanInv'
    BY <1>22, <2>1, <2>2, <2>3, <2>7 DEF FinishRound, AfterFetch, MainType, RoundInv, ChanInv,
       RunInv, Fetching, Prefetching
  <2>10. PrefetchFirst'
    BY <1>22, <2>1, <2>3 DEF FinishRound, AfterFetch, MainType, RoundInv, PrefetchFirst
  <2> QED
    BY <2>6, <2>8, <2>9, <2>10 DEF RoundInv
<1>23. ASSUME NEW n \in 1..MaxCalls, NEW must \in BOOLEAN, SendGC(n, must) PROVE RoundInv'
  <2>1. /\ errorChan[n] = <<>>
        /\ \A m \in 1..MaxCalls : m # n => errorChan'[m] = errorChan[m]
    BY <1>23, SendType DEF SendGC
  <2>2. n <= call /\ server = "serving"
    BY <1>23, <2>1 DEF SendGC, RoundInv, RunInv, Fetching
  <2>3. \A m \in 1..MaxCalls : ~Prefetching(m)
    BY <2>2 DEF Prefetching
  <2>4. Moved(0) /\ MustWaits' /\ ~MustRuns'
    BY <1>23, <2>3, NoMust, StillQueue DEF SendGC, MustRuns, Fetching, MustWaits
  <2>5. QueueInv'
    <3>1. server' = server /\ call' = call /\ call <= call' /\ queue' = queue
      BY <1>23 DEF SendGC, MainType
    <3> QED
      BY <2>4, <3>1, QueueStays DEF RoundInv
  <2>6. RunInv'
    BY <1>23, <2>2, TaskFacts DEF SendGC, MainType, RoundInv, RunInv, Prefetching, Fetching
  <2>7. ChanInv'
    BY <1>23, <2>1, <2>2 DEF SendGC, MainType, RoundInv, ChanInv
  <2>8. PrefetchFirst'
    BY <1>23 DEF SendGC, MainType, RoundInv, PrefetchFirst
  <2> QED
    BY <2>5, <2>6, <2>7, <2>8 DEF RoundInv
<1>24. ASSUME NEW r \in Requests, Handle(r) \/ Client(r) PROVE RoundInv'
  <2>1. UNCHANGED Quiet
    BY <1>24, HandlerTypes
  <2>2. CASE queue' = queue
    BY <2>1, <2>2, RoundsUnchanged DEF Quiet, rounds
  <2>3. CASE queue' = Append(queue, RequestTask(r))
    <3>0. \A n, b : RequestTask(r) # RoundTask(n, b)
      BY TaskFacts
    <3>1. RequestTask(r) \in Tasks /\ Grown(RequestTask(r))
      BY <2>3, AppendQueue, TaskFacts
    <3>2. MustWaits'
      BY <2>1, <3>0, <3>1 DEF Quiet, RoundInv, QueueInv, MustWaits, Grown, Prefetching
    <3>4. UNCHANGED <<server, call, task, phase>>
      BY <2>1 DEF Quiet
    <3>5. QueueInv'
      BY <3>0, <3>1, <3>2, <3>4, QueueGrown DEF RoundInv
    <3>3. RunInv' /\ ChanInv' /\ PrefetchFirst'
      BY <2>1 DEF Quiet, RoundInv, RunInv, ChanInv, PrefetchFirst, Prefetching
    <3> QED
      BY <3>5, <3>3 DEF RoundInv
  <2>4. queue' = queue \/ queue' = Append(queue, RequestTask(r))
    BY <1>24 DEF Handle, Client, Check, CheckFails, SubmitFetch, Cancelled, Recheck, RecheckMissing,
                 StartServe, ServeFetchLocal, ServeFetchLocalFails, HangUp, LsRefsFails, LsRefs
  <2> QED
    BY <2>2, <2>3, <2>4
<1>25. CASE UNCHANGED vars
  BY <1>25, RoundsUnchanged DEF vars, rounds
<1> QED
  BY <1>1, <1>2, <1>3, <1>4, <1>5, <1>6, <1>7, <1>8, <1>9, <1>10, <1>11, <1>12,
     <1>13, <1>14, <1>15, <1>16, <1>17, <1>18, <1>19, <1>20, <1>21, <1>22, <1>23, <1>24,
     <1>25
  DEF Next, Environment, Round, Work, GitFetch

\* RoundInv holds in every state of every behaviour.
LEMMA RoundInvariance == Spec => [](TypeInv /\ RoundInv)
<1>1. Init => RoundInv
  BY DEF Init, RoundInv, QueueInv, MustWaits, MustOnce, MustAlone, OthersWait, Numbered, RunInv,
     ChanInv, PrefetchFirst, Fetching
<1>2. TypeInv /\ RoundInv /\ [Next]_vars => (TypeInv /\ RoundInv)'
  BY TypeStep, RoundStep
<1> QED
  BY <1>1, <1>2, InitType, PTL DEF Spec

\* No client is served from a repository that this run of the program has not fetched,
\* whatever the queue, the worker and git gc of the pre-fetch do, and after every crash.
THEOREM ServesAfterPrefetch == Spec => []PrefetchFirst
<1>1. RoundInv => PrefetchFirst
  BY DEF RoundInv
<1> QED
  BY <1>1, RoundInvariance, PTL

\* The second look at lastUpdateUnix works: a background round whose task waited while
\* another fetch succeeded does not fetch again within 15 minutes.
THEOREM RoundsAreSpaced == Spec => RoundsSpaced
<1> DEFINE Spaced == (phase = "idle" /\ phase' = "all" /\ task'[1] = "round" /\ server = "serving")
                       => startTime' - lastUpdate >= FifteenMinutes
<1>1. TypeInv /\ RoundInv /\ [Next]_vars => [Spaced]_vars
  <2> SUFFICES ASSUME TypeInv, RoundInv, Next, phase = "idle", phase' = "all", task'[1] = "round",
                      server = "serving"
               PROVE  startTime' - lastUpdate >= FifteenMinutes
    OBVIOUS
  <2>1. PICK t : BeginFetch(t) /\ \/ \E r \in Requests : t = RequestTask(r)
                                  \/ \E n \in 1..MaxCalls, b \in BOOLEAN : t = RoundTask(n, b) /\ (b \/ ~Fresh)
    <3>1. \/ \E r \in Requests : FetchForRequest(r)
          \/ \E n \in 1..MaxCalls, b \in BOOLEAN : FetchForRound(n, b)
      <4> USE DEF worker
      <4>1. ~Environment
        BY DEF Environment, Tick, GitLogsGc, Crash, Stop, Push
      <4>2. ~Round
        BY DEF Round, StartRound, SkipRound, NeedRound, SubmitRound, EndRound, PrefetchFails, Stop
      <4>3. ~GitFetch /\ ~RunGC
        BY DEF GitFetch, GitConnect, EndFetchAll, EndFetchOrigin, FailFetchOrigin, GitWriteObject,
               RunGC
      <4>4. ASSUME NEW r \in Requests PROVE ~SkipRequest(r) /\ ~FinishRequest(r)
        BY DEF SkipRequest, FinishRequest
      <4>5. ASSUME NEW n \in 1..MaxCalls PROVE ~SkipTask(n)
        BY DEF SkipTask, AfterFetch
      <4>6. ASSUME NEW n \in 1..MaxCalls, NEW b \in BOOLEAN PROVE ~FinishRound(n, b) /\ ~SendGC(n, b)
        BY DEF FinishRound, AfterFetch, SendGC
      <4>7. ASSUME NEW r \in Requests PROVE ~(Handle(r) \/ Client(r))
        BY HandlerTypes DEF Quiet
      <4> QED
        BY <4>1, <4>2, <4>3, <4>4, <4>5, <4>6, <4>7 DEF Next, Work
    <3> QED
      BY <3>1 DEF FetchForRequest, FetchForRound
  <2>2. task' = t /\ startTime' = now /\ queue[1] = t /\ 1 \in 1..Len(queue)
    BY <2>1, TailQueue DEF BeginFetch, TypeInv
  <2>3. PICK n \in 1..MaxCalls, b \in BOOLEAN : t = RoundTask(n, b) /\ (b \/ ~Fresh)
    <3>1. \A r : RequestTask(r)[1] # "round"
      BY DEF RequestTask
    <3> QED
      BY <2>1, <2>2, <3>1
  <2>4. b = FALSE
    BY <2>2, <2>3 DEF RoundInv, QueueInv, MustWaits, Prefetching
  <2>5. now \in Int /\ lastUpdate \in Int
    BY DEF TypeInv, ClockType
  <2> QED
    BY <2>2, <2>3, <2>4, <2>5 DEF Fresh, FifteenMinutes
<1> QED
  BY <1>1, RoundInvariance, PTL DEF Spec, RoundsSpaced
=============================================================================
