-------------------------- MODULE BackupStoreProofs --------------------------
(***************************************************************************)
(* Proofs about BackupStore, for any set of repositories and any bounds.   *)
(*                                                                         *)
(* The argument: every version goes upstream, disk, bucket in that order,  *)
(* and a name is read from lastUpdate before the disk is read, so that a   *)
(* bundle holds at least what its name says.  gcBundle never deletes the   *)
(* largest name, unless a name that is no number sorts after the bundles.  *)
(***************************************************************************)
EXTENDS BackupStore, FiniteSetTheorems, TLAPS

(***************************************************************************)
(* The operators.                                                          *)
(***************************************************************************)
\* A set of bundle names that is not empty has a newest one.
LEMMA HasNewest ==
  ASSUME NEW S, S \subseteq Times, S # {}
  PROVE  Newest(S) \in S /\ \A u \in S : u <= Newest(S)
<1> USE BoundAssumption DEF Times
<1> DEFINE R == StrictSubsetOrdering(Times)
           Above(t) == {u \in S : u > t}
           F == {Above(t) : t \in S}
<1>1. IsWellFoundedOn(R, FiniteSubsetsOf(Times))
  BY FS_StrictSubsetOrderingWellFounded
<1>2. F \subseteq FiniteSubsetsOf(Times) /\ F # {}
  <2>1. IsFiniteSet(Times)
    BY FS_Interval
  <2>2. FiniteSubsetsOf(Times) = SUBSET Times
    BY <2>1, FS_FiniteSubsetsOfFinite
  <2>3. \A t \in S : Above(t) \in SUBSET Times
    OBVIOUS
  <2>4. F \subseteq SUBSET Times
    BY <2>3
  <2>5. F # {}
    OBVIOUS
  <2> QED
    BY <2>2, <2>4, <2>5
<1>3. PICK X \in F : \A Y \in F : <<Y, X>> \notin R
  <2> HIDE DEF R, F
  <2> QED
    BY <1>1, <1>2, WFMin
<1>4. PICK t \in S : X = Above(t)
  BY <1>3
<1>5. \A u \in S : u <= t
  <2> SUFFICES ASSUME NEW u \in S, u > t PROVE FALSE
    OBVIOUS
  <2>1. Above(u) \in F
    OBVIOUS
  <2>2. Above(u) \subseteq Above(t)
    <3>1. \A v \in S : v > u => v > t
      OBVIOUS
    <3> QED
      BY <3>1
  <2>3. u \in Above(t) /\ u \notin Above(u)
    <3>1. u \in Int
      OBVIOUS
    <3> QED
      BY <3>1
  <2>4. Above(u) \in SUBSET Times /\ Above(t) \in SUBSET Times
    OBVIOUS
  <2> HIDE DEF Above
  <2>5. <<Above(u), X>> \in R
    BY <2>2, <2>3, <2>4, <1>4 DEF StrictSubsetOrdering
  <2> QED
    BY <1>3, <2>1, <2>5
<1> QED
  BY <1>4, <1>5 DEF Newest

\* The bundles of a repository and the objects that gcBundle takes for bundles.
LEMMA BundleNames ==
  ASSUME NEW r \in Repos
  PROVE  /\ Bundles(r) \subseteq Times
         /\ Passed(r) \subseteq Bundles(r)
         /\ Older(r) \subseteq Passed(r)
BY DEF Bundles, Passed, Older

\* The manifest that lists a repository.
LEMMA ListedIn ==
  /\ \A r : r \in Listed <=> \E t \in Times : r \in manifest[t]
  /\ \A r : r \in Listed' <=> \E t \in Times : r \in manifest'[t]
BY DEF Listed

(***************************************************************************)
(* Typing.                                                                 *)
(***************************************************************************)
EnvType ==
  now \in Times \ {0} /\ up \in [Repos -> Versions] /\ upAt \in [Repos -> [Times -> Versions]]

ReposType ==
  managed \subseteq Repos /\ local \in [Repos -> Versions] /\ lastUpdate \in [Repos -> 0..now]

BucketType ==
  /\ bundle \in [Repos -> [Times -> Versions]] /\ stranger \in [Repos -> Strangers]
  /\ manifest \in [Times -> SUBSET Repos]

\* The loop works on one repository or on none.
LoopType ==
  /\ pc \in {"list", "recover", "sleep", "save", "name", "write", "manifest", "gc"}
  /\ todo \subseteq Repos /\ urls \subseteq Repos
  /\ cur = {} \/ \E r \in todo : cur = {r}
  /\ cur # {} <=> pc \in {"name", "write"}
  /\ name \in Times /\ stamp \in Times

CountType ==
  failures \in 0..MaxFailures /\ restarts \in 0..MaxRestarts /\ lostCommit \in BOOLEAN

TypeInv == EnvType /\ ReposType /\ BucketType /\ LoopType /\ CountType

\* TypeInv says of cur what TypeOK says with its cardinality.
LEMMA TypeInvImpliesTypeOK == TypeInv => TypeOK
<1> SUFFICES ASSUME TypeInv PROVE TypeOK
  OBVIOUS
<1>1. cur \subseteq todo /\ Cardinality(cur) <= 1
  <2>1. CASE cur = {}
    BY <2>1, FS_EmptySet
  <2>2. CASE cur # {}
    BY <2>2, FS_Singleton DEF TypeInv, LoopType
  <2> QED
    BY <2>1, <2>2
<1> QED
  BY <1>1 DEF TypeInv, EnvType, ReposType, BucketType, LoopType, CountType, TypeOK

\* The clock and the versions are natural numbers that start at 0.
LEMMA Zeros ==
  /\ 0 \in Times /\ 0 \in Versions
  /\ \A t \in Times : t \in Nat /\ t <= MaxTime
  /\ \A v \in Versions : v \in Nat /\ v <= MaxPushes
BY BoundAssumption DEF Times, Versions

\* What is left when some objects are deleted.
LEMMA AfterDelete ==
  ASSUME BucketType, NEW r \in Repos, NEW D
  PROVE  /\ Without(r, D) \in [Repos -> [Times -> Versions]]
         /\ \A q \in Repos, t \in Times :
              Without(r, D)[q][t] = IF q = r /\ t \in D THEN 0 ELSE bundle[q][t]
BY Zeros DEF BucketType, Without

\* What is recovered from the bucket is a version.
LEMMA RecoveredType ==
  ASSUME ReposType, BucketType, NEW r \in Repos, Passed(r) # {} PROVE Recovered(r) \in Versions
<1>1. Newest(Passed(r)) \in Times
  BY BundleNames, HasNewest
<1> QED
  BY <1>1 DEF ReposType, BucketType, Recovered

\* A deletion counts at most one failing call.
LEMMA GcBundleEffect ==
  ASSUME CountType, NEW r \in Repos, GcBundle(r)
  PROVE  /\ \E D \in SUBSET Older(r) : bundle' = Without(r, D)
         /\ failures' \in 0..MaxFailures
         /\ failures' = failures \/ failures' = failures + 1
BY BoundAssumption DEF CountType, GcBundle, Fail

\* Every step keeps the types.
LEMMA TypeStep == TypeInv /\ [Next]_vars => TypeInv'
<1> SUFFICES ASSUME TypeInv, [Next]_vars PROVE TypeInv'
  OBVIOUS
<1> USE DEF env, repos, bucket, process, TypeInv
<1>1. CASE ReadRepoList
  <2>1. Listed \subseteq Repos
    BY ListedIn DEF BucketType
  <2>2. LoopType'
    BY <1>1, <2>1 DEF ReadRepoList, LoopType
  <2>3. CountType'
    BY <1>1, BoundAssumption DEF ReadRepoList, CountType, Fail
  <2> QED
    BY <1>1, <2>2, <2>3 DEF ReadRepoList, EnvType, ReposType, BucketType
<1>2. CASE RecoveryEnds
  <2>1. LoopType'
    BY <1>2 DEF RecoveryEnds, LoopType
  <2> QED
    BY <1>2, <2>1 DEF RecoveryEnds, EnvType, ReposType, BucketType, CountType
<1>3. CASE SaveBackup
  <2>1. LoopType'
    BY <1>3 DEF SaveBackup, LoopType, ReposType
  <2> QED
    BY <1>3, <2>1 DEF SaveBackup, EnvType, ReposType, BucketType, CountType
<1>4. CASE SavedAll
  <2>1. LoopType'
    BY <1>4 DEF SavedAll, LoopType, EnvType
  <2> QED
    BY <1>4, <2>1 DEF SavedAll, EnvType, ReposType, BucketType, CountType
<1>5. CASE WriteManifest
  <2>1. BucketType'
    BY <1>5 DEF WriteManifest, BucketType, LoopType
  <2>2. LoopType'
    BY <1>5 DEF WriteManifest, LoopType
  <2>3. failures' \in 0..MaxFailures
    BY <1>5, BoundAssumption DEF WriteManifest, CountType, Fail
  <2>4. lostCommit' \in BOOLEAN
    BY <1>5, Zenon DEF WriteManifest, CountType
  <2>5. CountType'
    BY <1>5, <2>3, <2>4 DEF WriteManifest, CountType
  <2> QED
    BY <1>5, <2>1, <2>2, <2>5 DEF WriteManifest, EnvType, ReposType
<1>6. CASE WriteManifestFails
  <2>1. LoopType'
    BY <1>6, Zeros DEF WriteManifestFails, LoopType
  <2>2. CountType'
    BY <1>6, BoundAssumption DEF WriteManifestFails, CountType, Fail
  <2> QED
    BY <1>6, <2>1, <2>2 DEF WriteManifestFails, EnvType, ReposType, BucketType
<1>7. CASE GarbageCollectOldManifests
  <2>1. BucketType'
    BY <1>7 DEF GarbageCollectOldManifests, Old, BucketType
  <2>2. LoopType'
    BY <1>7, Zeros DEF GarbageCollectOldManifests, Old, LoopType
  <2>3. CountType'
    BY <1>7, BoundAssumption DEF GarbageCollectOldManifests, Old, CountType, Fail
  <2> QED
    BY <1>7, <2>1, <2>2, <2>3 DEF GarbageCollectOldManifests, Old, EnvType, ReposType
<1>8. ASSUME NEW r \in Repos, RecoverFromBundle(r) PROVE TypeInv'
  <2>1. PICK D \in SUBSET Older(r) : bundle' = Without(r, D)
    BY <1>8, GcBundleEffect DEF RecoverFromBundle
  <2>2. ReposType'
    BY <1>8, RecoveredType DEF RecoverFromBundle, ReposType
  <2>3. BucketType'
    BY <1>8, <2>1, AfterDelete DEF RecoverFromBundle, BucketType
  <2>4. LoopType'
    BY <1>8 DEF RecoverFromBundle, LoopType
  <2>5. CountType'
    BY <1>8, GcBundleEffect DEF RecoverFromBundle, CountType, Fail
  <2> QED
    BY <1>8, <2>2, <2>3, <2>4, <2>5 DEF RecoverFromBundle, EnvType
<1>9. ASSUME NEW r \in Repos, RecoverSkips(r) PROVE TypeInv'
  <2>1. ReposType'
    BY <1>9 DEF RecoverSkips, ReposType
  <2>2. BucketType'
    BY <1>9, AfterDelete DEF RecoverSkips, BucketType
  <2>3. LoopType'
    BY <1>9 DEF RecoverSkips, LoopType
  <2>4. CountType'
    BY <1>9, BoundAssumption DEF RecoverSkips, CountType, Fail
  <2> QED
    BY <1>9, <2>1, <2>2, <2>3, <2>4 DEF RecoverSkips, EnvType
<1>10. ASSUME NEW r \in Repos, VisitRepo(r) PROVE TypeInv'
  <2>1. PICK D \in SUBSET Older(r) : bundle' = Without(r, D)
    BY <1>10, GcBundleEffect DEF VisitRepo
  <2>2. BucketType'
    BY <1>10, <2>1, AfterDelete DEF VisitRepo, BucketType
  <2>3. LoopType'
    BY <1>10 DEF VisitRepo, LoopType
  <2>4. CountType'
    BY <1>10, GcBundleEffect DEF VisitRepo, CountType, Fail
  <2> QED
    BY <1>10, <2>2, <2>3, <2>4 DEF VisitRepo, EnvType, ReposType
<1>11. ASSUME NEW r \in Repos, VisitFails(r) PROVE TypeInv'
  <2>1. LoopType'
    BY <1>11 DEF VisitFails, LoopType
  <2>2. CountType'
    BY <1>11, BoundAssumption DEF VisitFails, CountType, Fail
  <2> QED
    BY <1>11, <2>1, <2>2 DEF VisitFails, EnvType, ReposType, BucketType
<1>12. ASSUME NEW r \in Repos, NameBundle(r) PROVE TypeInv'
  <2>1. LoopType'
    BY <1>12, Zeros, BoundAssumption DEF NameBundle, LoopType, ReposType, EnvType, Times
  <2> QED
    BY <1>12, <2>1 DEF NameBundle, EnvType, ReposType, BucketType, CountType
<1>13. ASSUME NEW r \in Repos, WriteBundle(r) PROVE TypeInv'
  <2>1. BucketType'
    BY <1>13 DEF WriteBundle, BundleDone, BucketType, LoopType, ReposType
  <2>2. LoopType'
    BY <1>13, Zeros DEF WriteBundle, BundleDone, LoopType
  <2> QED
    BY <1>13, <2>1, <2>2 DEF WriteBundle, BundleDone, EnvType, ReposType, CountType
<1>14. ASSUME NEW r \in Repos, WriteBundleFails(r) PROVE TypeInv'
  <2>1. LoopType'
    BY <1>14, Zeros DEF WriteBundleFails, BundleDone, LoopType
  <2>2. CountType'
    BY <1>14, BoundAssumption DEF WriteBundleFails, BundleDone, CountType, Fail
  <2> QED
    BY <1>14, <2>1, <2>2 DEF WriteBundleFails, BundleDone, EnvType, ReposType, BucketType
<1>15. ASSUME NEW r \in Repos, CloseFails(r) PROVE TypeInv'
  <2>1. LoopType'
    BY <1>15, Zeros DEF CloseFails, BundleDone, LoopType
  <2>2. CountType'
    BY <1>15, BoundAssumption DEF CloseFails, BundleDone, CountType, Fail
  <2> QED
    BY <1>15, <2>1, <2>2 DEF CloseFails, BundleDone, EnvType, ReposType, BucketType
<1>16. CASE Tick
  <2>1. EnvType'
    BY <1>16, BoundAssumption DEF Tick, EnvType, Times, Versions
  <2>2. ReposType'
    BY <1>16, Zeros DEF Tick, ReposType, EnvType
  <2> QED
    BY <1>16, <2>1, <2>2 DEF Tick, BucketType, LoopType, CountType
<1>17. CASE Restart
  <2>1. ReposType'
    BY <1>17, Zeros DEF Restart, ReposType, EnvType
  <2>2. LoopType'
    BY <1>17, Zeros DEF Restart, LoopType
  <2>3. CountType'
    BY <1>17, BoundAssumption DEF Restart, CountType, Fail
  <2> QED
    BY <1>17, <2>1, <2>2, <2>3 DEF Restart, EnvType, BucketType
<1>18. ASSUME NEW r \in Repos, Push(r) PROVE TypeInv'
  <2>1. EnvType'
    BY <1>18, BoundAssumption DEF Push, EnvType, Times, Versions
  <2> QED
    BY <1>18, <2>1 DEF Push, ReposType, BucketType, LoopType, CountType
<1>19. ASSUME NEW r \in Repos, Fetch(r) PROVE TypeInv'
  <2>1. ReposType'
    BY <1>19, Zeros DEF Fetch, ReposType, EnvType
  <2> QED
    BY <1>19, <2>1 DEF Fetch, EnvType, BucketType, LoopType, CountType
<1>20. CASE UNCHANGED vars
  BY <1>20 DEF vars, EnvType, ReposType, BucketType, LoopType, CountType
<1> QED
  BY <1>1, <1>2, <1>3, <1>4, <1>5, <1>6, <1>7, <1>8, <1>9, <1>10, <1>11, <1>12, <1>13, <1>14, <1>15,
     <1>16, <1>17, <1>18, <1>19, <1>20 DEF Next, Process

\* The empty bucket and the empty disk have the types.
LEMMA InitType == Init => TypeInv
<1> SUFFICES ASSUME Init PROVE TypeInv
  OBVIOUS
<1>1. EnvType /\ ReposType
  BY Zeros, BoundAssumption DEF Init, EnvType, ReposType, Times
<1>2. BucketType /\ LoopType
  BY Zeros DEF Init, BucketType, LoopType
<1>3. failures \in 0..MaxFailures /\ restarts \in 0..MaxRestarts
  BY BoundAssumption DEF Init
<1>4. lostCommit \in BOOLEAN
  BY Zenon DEF Init
<1> QED
  BY <1>1, <1>2, <1>3, <1>4 DEF TypeInv, CountType

\* Type correctness, with calls failing and servers replaced anywhere.
THEOREM Typing == Spec => []TypeOK
BY InitType, TypeStep, TypeInvImpliesTypeOK, PTL DEF Spec

(***************************************************************************)
(* The inductive invariants.                                               *)
(***************************************************************************)
\* Versions only get to the disk and to the bucket from upstream.
VersionInv ==
  \A r \in Repos :
    /\ local[r] <= up[r]
    /\ \A t \in Times : upAt[r][t] <= up[r] /\ bundle[r][t] <= up[r]

\* A bundle has a name of the past, and holds what that name stands for.
NameInv ==
  \A r \in Repos, t \in Times : bundle[r][t] # 0 => t <= now /\ upAt[r][t] <= bundle[r][t]

\* The disk holds what lastUpdate stands for; 0 stands for nothing.
UpdateInv ==
  \A r \in Repos :
    /\ upAt[r][0] = 0
    /\ upAt[r][lastUpdate[r]] <= local[r]
    /\ Bundles(r) # {} /\ lastUpdate[r] # 0 => local[r] # 0

\* The name that was read is still honest when the bundle is written; during the
\* recovery no fetch has set lastUpdate.
WriterInv ==
  /\ pc \in {"list", "recover"} => \A r \in Repos : lastUpdate[r] = 0
  /\ pc = "write" => name <= now /\ \A r \in cur : upAt[r][name] <= local[r]

Honest == VersionInv /\ NameInv /\ UpdateInv /\ WriterInv

\* What is listed, or will be, has a bundle.
BackedInv == ~lostCommit => \A r \in Repos : r \in urls \/ r \in Listed => Bundles(r) # {}

\* While no call fails, what is listed will be listed by the manifest that this server
\* writes next.
RelistInv ==
  /\ ~lostCommit
  /\ pc = "recover" => Listed \subseteq managed \cup todo
  /\ pc \notin {"list", "recover"} => Listed \subseteq managed
  /\ pc \in {"save", "name", "write"} => Listed \subseteq urls \cup todo /\ todo \subseteq managed
  /\ pc \in {"manifest", "gc"} => Listed \subseteq urls
  /\ urls \subseteq managed
  /\ pc = "gc" => manifest[stamp] = urls
  /\ \A r \in cur : r \in Listed => lastUpdate[r] # 0

\* The values of the types are numbers that can be compared.
LEMMA Numbers ==
  ASSUME TypeInv
  PROVE  /\ now \in Nat /\ now \in Times
         /\ \A r \in Repos : lastUpdate[r] \in Times /\ lastUpdate[r] <= now
         /\ \A r \in Repos : local[r] \in Nat /\ up[r] \in Nat
         /\ \A r \in Repos, t \in Times : upAt[r][t] \in Nat /\ bundle[r][t] \in Nat
<1>1. now \in Nat /\ now \in Times
  BY Zeros DEF TypeInv, EnvType
<1>2. \A r \in Repos : lastUpdate[r] \in Times /\ lastUpdate[r] <= now
  BY <1>1, BoundAssumption DEF TypeInv, ReposType, Times
<1>3. \A r \in Repos : local[r] \in Nat /\ up[r] \in Nat
  BY Zeros DEF TypeInv, EnvType, ReposType
<1>4. \A r \in Repos, t \in Times : upAt[r][t] \in Nat /\ bundle[r][t] \in Nat
  BY Zeros DEF TypeInv, EnvType, BucketType
<1> QED
  BY <1>1, <1>2, <1>3, <1>4

\* No object is added to the bucket.
Fewer == \A q \in Repos, t \in Times : bundle'[q][t] = bundle[q][t] \/ bundle'[q][t] = 0

\* The steps that delete bundles add none.
LEMMA Deletions ==
  ASSUME TypeInv, NEW r \in Repos, RecoverFromBundle(r) \/ RecoverSkips(r) \/ VisitRepo(r)
  PROVE  /\ Fewer
         /\ \/ bundle' = bundle
            \/ \E D \in SUBSET Older(r) : bundle' = Without(r, D)
<1>1. bundle' = bundle \/ \E D \in SUBSET Older(r) : bundle' = Without(r, D)
  <2>1. CASE RecoverFromBundle(r)
    BY <2>1, GcBundleEffect DEF RecoverFromBundle, TypeInv
  <2>2. CASE RecoverSkips(r)
    BY <2>2 DEF RecoverSkips
  <2>3. CASE VisitRepo(r)
    BY <2>3, GcBundleEffect DEF VisitRepo, TypeInv
  <2> QED
    BY <2>1, <2>2, <2>3
<1>2. Fewer
  BY <1>1, AfterDelete DEF Fewer, TypeInv
<1> QED
  BY <1>1, <1>2

\* Only the writer of a bundle adds to the bucket.
LEMMA BucketStep ==
  ASSUME TypeInv, [Next]_vars
  PROVE  \/ bundle' = bundle
         \/ \E r \in Repos : \E D \in SUBSET Older(r) : bundle' = Without(r, D)
         \/ \E r \in Repos : WriteBundle(r)
<1> DEFINE Goal == \/ bundle' = bundle
                   \/ \E r \in Repos : \E D \in SUBSET Older(r) : bundle' = Without(r, D)
                   \/ \E r \in Repos : WriteBundle(r)
<1> SUFFICES Goal
  OBVIOUS
<1> USE DEF env, repos, bucket, process
<1>1. CASE ReadRepoList
  BY <1>1 DEF ReadRepoList
<1>2. CASE RecoveryEnds
  BY <1>2 DEF RecoveryEnds
<1>3. CASE SaveBackup
  BY <1>3 DEF SaveBackup
<1>4. CASE SavedAll
  BY <1>4 DEF SavedAll
<1>5. CASE WriteManifest
  BY <1>5 DEF WriteManifest
<1>6. CASE WriteManifestFails
  BY <1>6 DEF WriteManifestFails
<1>7. CASE GarbageCollectOldManifests
  BY <1>7 DEF GarbageCollectOldManifests, Old
<1>8. ASSUME NEW r \in Repos, RecoverFromBundle(r) PROVE Goal
  BY <1>8, Deletions
<1>9. ASSUME NEW r \in Repos, RecoverSkips(r) PROVE Goal
  BY <1>9, Deletions
<1>10. ASSUME NEW r \in Repos, VisitRepo(r) PROVE Goal
  BY <1>10, Deletions
<1>11. ASSUME NEW r \in Repos, VisitFails(r) PROVE Goal
  BY <1>11 DEF VisitFails
<1>12. ASSUME NEW r \in Repos, NameBundle(r) PROVE Goal
  BY <1>12 DEF NameBundle
<1>13. ASSUME NEW r \in Repos, WriteBundle(r) PROVE Goal
  BY <1>13
<1>14. ASSUME NEW r \in Repos, WriteBundleFails(r) PROVE Goal
  BY <1>14 DEF WriteBundleFails, BundleDone
<1>15. ASSUME NEW r \in Repos, CloseFails(r) PROVE Goal
  BY <1>15 DEF CloseFails, BundleDone
<1>16. CASE Tick
  BY <1>16 DEF Tick
<1>17. CASE Restart
  BY <1>17 DEF Restart
<1>18. ASSUME NEW r \in Repos, Push(r) PROVE Goal
  BY <1>18 DEF Push
<1>19. ASSUME NEW r \in Repos, Fetch(r) PROVE Goal
  BY <1>19 DEF Fetch
<1>20. CASE UNCHANGED vars
  BY <1>20 DEF vars
<1> QED
  BY <1>1, <1>2, <1>3, <1>4, <1>5, <1>6, <1>7, <1>8, <1>9, <1>10, <1>11, <1>12, <1>13, <1>14, <1>15,
     <1>16, <1>17, <1>18, <1>19, <1>20 DEF Next, Process

(***************************************************************************)
(* The names of the bundles.                                               *)
(***************************************************************************)
\* Every step keeps the names honest.
LEMMA HonestStep ==
  ASSUME TypeInv, TypeInv', Honest, [Next]_vars
  PROVE  Honest'
<1> USE Numbers DEF env, repos, bucket, process, Honest
<1>0. /\ \A r \in Repos : local'[r] \in Nat /\ up'[r] \in Nat
      /\ \A r \in Repos, t \in Times : upAt'[r][t] \in Nat /\ bundle'[r][t] \in Nat
  BY Zeros DEF TypeInv, EnvType, ReposType, BucketType
<1>1. CASE ReadRepoList
  <2>1. WriterInv'
    BY <1>1, <1>0 DEF ReadRepoList, WriterInv
  <2> QED
    BY <1>1, <2>1 DEF ReadRepoList, VersionInv, NameInv, UpdateInv, Bundles
<1>2. CASE RecoveryEnds
  <2>1. WriterInv'
    BY <1>2, <1>0 DEF RecoveryEnds, WriterInv
  <2> QED
    BY <1>2, <2>1 DEF RecoveryEnds, VersionInv, NameInv, UpdateInv, Bundles
<1>3. CASE SaveBackup
  <2>1. WriterInv'
    BY <1>3, <1>0 DEF SaveBackup, WriterInv
  <2> QED
    BY <1>3, <2>1 DEF SaveBackup, VersionInv, NameInv, UpdateInv, Bundles
<1>4. CASE SavedAll
  <2>1. WriterInv'
    BY <1>4, <1>0 DEF SavedAll, WriterInv
  <2> QED
    BY <1>4, <2>1 DEF SavedAll, VersionInv, NameInv, UpdateInv, Bundles
<1>5. CASE WriteManifest
  <2>1. WriterInv'
    BY <1>5, <1>0 DEF WriteManifest, WriterInv
  <2> QED
    BY <1>5, <2>1 DEF WriteManifest, VersionInv, NameInv, UpdateInv, Bundles
<1>6. CASE WriteManifestFails
  <2>1. WriterInv'
    BY <1>6, <1>0 DEF WriteManifestFails, WriterInv
  <2> QED
    BY <1>6, <2>1 DEF WriteManifestFails, VersionInv, NameInv, UpdateInv, Bundles
<1>7. CASE GarbageCollectOldManifests
  <2>1. WriterInv'
    BY <1>7, <1>0 DEF GarbageCollectOldManifests, Old, WriterInv
  <2> QED
    BY <1>7, <2>1 DEF GarbageCollectOldManifests, Old, VersionInv, NameInv, UpdateInv, Bundles
<1>8. ASSUME NEW r \in Repos, RecoverFromBundle(r) PROVE Honest'
  <2>1. Fewer
    BY <1>8, Deletions
  <2>2. Recovered(r) <= up[r]
    <3>1. Newest(Passed(r)) \in Times
      BY <1>8, BundleNames, HasNewest DEF RecoverFromBundle
    <3> QED
      BY <3>1 DEF Recovered, VersionInv
  <2>3. VersionInv'
    BY <1>8, <1>0, <2>1, <2>2 DEF RecoverFromBundle, VersionInv, TypeInv, ReposType, Fewer
  <2>4. NameInv'
    BY <1>8, <1>0, <2>1 DEF RecoverFromBundle, NameInv, Fewer
  <2>5. UpdateInv'
    BY <1>8, <1>0, <2>1, Zeros DEF RecoverFromBundle, UpdateInv, TypeInv, ReposType, WriterInv,
       Bundles, Fewer
  <2> QED
    BY <1>8, <2>3, <2>4, <2>5 DEF RecoverFromBundle, WriterInv
<1>9. ASSUME NEW r \in Repos, RecoverSkips(r) PROVE Honest'
  <2>1. Fewer
    BY <1>9, Deletions
  <2>2. VersionInv'
    BY <1>9, <1>0, <2>1 DEF RecoverSkips, VersionInv, Fewer
  <2>3. NameInv'
    BY <1>9, <1>0, <2>1 DEF RecoverSkips, NameInv, Fewer
  <2>4. UpdateInv'
    BY <1>9, <1>0, <2>1, Zeros DEF RecoverSkips, UpdateInv, Fewer, Bundles
  <2> QED
    BY <1>9, <2>2, <2>3, <2>4 DEF RecoverSkips, WriterInv
<1>10. ASSUME NEW r \in Repos, VisitRepo(r) PROVE Honest'
  <2>1. Fewer
    BY <1>10, Deletions
  <2>2. VersionInv'
    BY <1>10, <1>0, <2>1 DEF VisitRepo, VersionInv, Fewer
  <2>3. NameInv'
    BY <1>10, <1>0, <2>1 DEF VisitRepo, NameInv, Fewer
  <2>4. UpdateInv'
    BY <1>10, <1>0, <2>1, Zeros DEF VisitRepo, UpdateInv, Fewer, Bundles
  <2>5. WriterInv'
    BY <1>10, <1>0 DEF VisitRepo, WriterInv
  <2> QED
    BY <1>10, <2>2, <2>3, <2>4, <2>5 DEF VisitRepo
<1>11. ASSUME NEW r \in Repos, VisitFails(r) PROVE Honest'
  <2>1. WriterInv'
    BY <1>11, <1>0 DEF VisitFails, WriterInv
  <2> QED
    BY <1>11, <2>1 DEF VisitFails, VersionInv, NameInv, UpdateInv, Bundles
<1>12. ASSUME NEW r \in Repos, NameBundle(r) PROVE Honest'
  <2>1. WriterInv'
    BY <1>12, <1>0 DEF NameBundle, WriterInv, TypeInv, UpdateInv, LoopType, ReposType
  <2> QED
    BY <1>12, <2>1 DEF NameBundle, VersionInv, NameInv, UpdateInv, Bundles
<1>13. ASSUME NEW r \in Repos, WriteBundle(r) PROVE Honest'
  <2>1. VersionInv'
    BY <1>13, <1>0 DEF WriteBundle, BundleDone, VersionInv, TypeInv, BucketType, LoopType
  <2>2. NameInv'
    BY <1>13, <1>0 DEF WriteBundle, BundleDone, NameInv, TypeInv, BucketType, LoopType, WriterInv
  <2>3. UpdateInv'
    BY <1>13, <1>0, Zeros DEF WriteBundle, BundleDone, UpdateInv, TypeInv, BucketType, LoopType,
       ReposType, Bundles
  <2>4. WriterInv'
    BY <1>13, <1>0 DEF WriteBundle, BundleDone, WriterInv
  <2> QED
    BY <1>13, <2>1, <2>2, <2>3, <2>4 DEF WriteBundle, BundleDone
<1>14. ASSUME NEW r \in Repos, WriteBundleFails(r) PROVE Honest'
  <2>1. WriterInv'
    BY <1>14, <1>0 DEF WriteBundleFails, BundleDone, WriterInv
  <2> QED
    BY <1>14, <2>1 DEF WriteBundleFails, BundleDone, VersionInv, NameInv, UpdateInv, Bundles
<1>15. ASSUME NEW r \in Repos, CloseFails(r) PROVE Honest'
  <2>1. WriterInv'
    BY <1>15, <1>0 DEF CloseFails, BundleDone, WriterInv
  <2> QED
    BY <1>15, <2>1 DEF CloseFails, BundleDone, VersionInv, NameInv, UpdateInv, Bundles
<1>16. CASE Tick
  <2>1. /\ now + 1 \in Times /\ now' = now + 1
        /\ \A r \in Repos, t \in Times : upAt'[r][t] = IF t = now + 1 THEN up[r] ELSE upAt[r][t]
    BY <1>16, BoundAssumption DEF Tick, TypeInv, EnvType, Times
  <2>2. VersionInv'
    BY <1>16, <1>0, <2>1 DEF Tick, VersionInv, TypeInv, EnvType
  <2>3. NameInv'
    BY <1>16, <1>0, <2>1 DEF Tick, NameInv, TypeInv, EnvType
  <2>4. UpdateInv'
    <3>1. \A r \in Repos : upAt'[r][0] = upAt[r][0] /\ upAt'[r][lastUpdate[r]] = upAt[r][lastUpdate[r]]
      BY <2>1, Zeros
    <3> QED
      BY <1>16, <3>1 DEF Tick, UpdateInv, Bundles
  <2>5. WriterInv'
    <3>1. ASSUME pc = "write" PROVE name <= now + 1 /\ \A r \in cur : upAt'[r][name] = upAt[r][name]
      <4>1. cur \subseteq Repos /\ name \in Times /\ name \in Nat /\ name <= now
        BY <3>1, Zeros DEF TypeInv, LoopType, WriterInv
      <4> QED
        BY <2>1, <4>1
    <3> QED
      BY <1>16, <2>1, <3>1 DEF Tick, WriterInv
  <2> QED
    BY <1>16, <2>2, <2>3, <2>4, <2>5 DEF Tick
<1>17. CASE Restart
  <2>1. VersionInv'
    BY <1>17, <1>0 DEF Restart, VersionInv, TypeInv, EnvType
  <2>2. UpdateInv'
    BY <1>17, <1>0, Zeros DEF Restart, UpdateInv, TypeInv, EnvType
  <2>3. WriterInv'
    BY <1>17, <1>0 DEF Restart, WriterInv, TypeInv, LoopType
  <2> QED
    BY <1>17, <2>1, <2>2, <2>3 DEF Restart, NameInv
<1>18. ASSUME NEW r \in Repos, Push(r) PROVE Honest'
  <2>1. VersionInv'
    BY <1>18, <1>0 DEF Push, VersionInv, TypeInv, EnvType
  <2> QED
    BY <1>18, <2>1 DEF Push, NameInv, UpdateInv, WriterInv, Bundles
<1>19. ASSUME NEW r \in Repos, Fetch(r) PROVE Honest'
  <2>1. VersionInv'
    BY <1>19, <1>0 DEF Fetch, VersionInv, TypeInv, ReposType, EnvType
  <2>2. UpdateInv'
    <3>1. UNCHANGED <<upAt, up, bundle, now>>
      BY <1>19 DEF Fetch
    <3>2. ASSUME NEW q \in Repos
          PROVE  \/ lastUpdate'[q] = lastUpdate[q] /\ local'[q] = local[q]
                 \/ lastUpdate'[q] = lastUpdate[q] /\ local'[q] = up[q]
                 \/ lastUpdate'[q] = now /\ local'[q] = up[q]
      BY <1>19 DEF Fetch, TypeInv, ReposType
    <3>3. ASSUME NEW q \in Repos, Bundles(q) # {} PROVE up[q] # 0
      BY <3>3 DEF Bundles, VersionInv
    <3>4. ASSUME NEW q \in Repos PROVE upAt[q][lastUpdate'[q]] <= local'[q]
      BY <3>2 DEF UpdateInv, VersionInv
    <3>5. ASSUME NEW q \in Repos, Bundles(q) # {}, lastUpdate'[q] # 0 PROVE local'[q] # 0
      BY <3>2, <3>3, <3>5 DEF UpdateInv
    <3>6. \A q \in Repos : Bundles(q)' = Bundles(q)
      BY <3>1 DEF Bundles
    <3> QED
      BY <3>1, <3>4, <3>5, <3>6 DEF UpdateInv
  <2>3. WriterInv'
    BY <1>19, <1>0 DEF Fetch, WriterInv, TypeInv, ReposType, LoopType, VersionInv
  <2> QED
    BY <1>19, <2>1, <2>2, <2>3 DEF Fetch, NameInv
<1>20. CASE UNCHANGED vars
  BY <1>20 DEF vars, VersionInv, NameInv, UpdateInv, WriterInv, Bundles
<1> QED
  BY <1>1, <1>2, <1>3, <1>4, <1>5, <1>6, <1>7, <1>8, <1>9, <1>10, <1>11, <1>12, <1>13, <1>14, <1>15,
     <1>16, <1>17, <1>18, <1>19, <1>20 DEF Next, Process

\* Nothing is upstream, on disk or in the bucket at first.
LEMMA InitHonest == Init => Honest
BY Zeros DEF Init, Honest, VersionInv, NameInv, UpdateInv, WriterInv, Bundles

\* The invariants hold in every reachable state.
LEMMA HonestInvariance == Spec => [](TypeInv /\ Honest)
<1>1. TypeInv /\ Honest /\ [Next]_vars => (TypeInv /\ Honest)'
  BY TypeStep, HonestStep
<1> QED
  BY <1>1, InitType, InitHonest, PTL DEF Spec

\* The name of a bundle promises no more than the bundle holds, whatever other objects are
\* in the bucket, whichever calls fail and whenever the server is replaced.
THEOREM NamesAreTrue == Spec => []NamedTruly
<1>1. TypeInv /\ Honest => NamedTruly
  BY Numbers DEF Honest, NameInv, NamedTruly, Bundles
<1> QED
  BY <1>1, HonestInvariance, PTL

(***************************************************************************)
(* The newest bundle.  No other object sorts after the bundles: with one   *)
(* there, gcBundle deletes them all (run backup_junk).                     *)
(***************************************************************************)
\* The newest bundle is not among the older ones.
LEMMA DeletionKeepsNewest ==
  ASSUME "after" \notin Strangers, TypeInv, NEW r \in Repos, NEW D \in SUBSET Older(r),
         bundle' = Without(r, D), NEW q \in Repos, Bundles(q) # {}
  PROVE  Newest(Bundles(q)) \in Bundles(q)'
<1> DEFINE m == Newest(Bundles(q))
<1>1. m \in Bundles(q) /\ \A u \in Bundles(q) : u <= m
  BY HasNewest, BundleNames
<1> HIDE DEF m
<1>2. m \in Times /\ bundle[q][m] # 0 /\ m \in Nat
  BY <1>1, Zeros DEF Bundles
<1>3. bundle'[q][m] = IF q = r /\ m \in D THEN 0 ELSE bundle[q][m]
  BY <1>2, AfterDelete DEF TypeInv
<1>4. ~(q = r /\ m \in D)
  <2> SUFFICES ASSUME q = r, m \in Older(r) PROVE FALSE
    OBVIOUS
  <2>1. stranger[r] # "after"
    BY DEF TypeInv, BucketType
  <2>2. PICK u \in Passed(r) : u > m
    BY <2>1 DEF Older
  <2>3. u \in Bundles(q) /\ u \in Nat
    BY BundleNames, Zeros
  <2> QED
    BY <1>1, <1>2, <2>2, <2>3
<1> QED
  BY <1>2, <1>3, <1>4 DEF Bundles, m

\* No step at all removes the newest bundle of a repository.
LEMMA NewestStays ==
  ASSUME "after" \notin Strangers, TypeInv, [Next]_vars, NEW q \in Repos, Bundles(q) # {}
  PROVE  Newest(Bundles(q)) \in Bundles(q)'
<1>0. Newest(Bundles(q)) \in Bundles(q)
  BY HasNewest, BundleNames
<1>1. CASE bundle' = bundle
  BY <1>0, <1>1 DEF Bundles
<1>2. ASSUME NEW r \in Repos, NEW D \in SUBSET Older(r), bundle' = Without(r, D)
      PROVE  Newest(Bundles(q)) \in Bundles(q)'
  BY <1>2, DeletionKeepsNewest
<1>3. ASSUME NEW r \in Repos, WriteBundle(r) PROVE Newest(Bundles(q)) \in Bundles(q)'
  <2>1. \A t \in Times : bundle[q][t] # 0 => bundle'[q][t] # 0
    BY <1>3 DEF WriteBundle, TypeInv, BucketType
  <2> QED
    BY <1>0, <2>1 DEF Bundles
<1> QED
  BY <1>1, <1>2, <1>3, BucketStep

\* No step of a save, of a recovery or of gcBundle, with any of its calls failing, leaves a
\* repository without its newest backup.
THEOREM NewestIsKept ==
  ASSUME "after" \notin Strangers
  PROVE  Spec => NewestKept
<1> DEFINE Kept == \A r \in Repos : Bundles(r) # {} =>
                     Bundles(r)' # {} /\ Newest(Bundles(r)') >= Newest(Bundles(r))
<1>1. TypeInv /\ [Next]_vars => [Kept]_vars
  <2> SUFFICES ASSUME TypeInv, [Next]_vars, NEW r \in Repos, Bundles(r) # {}
               PROVE  Bundles(r)' # {} /\ Newest(Bundles(r)') >= Newest(Bundles(r))
    OBVIOUS
  <2>1. Newest(Bundles(r)) \in Bundles(r)'
    BY NewestStays
  <2>2. Bundles(r)' \subseteq Times
    BY DEF Bundles
  <2>3. /\ Newest(Bundles(r)') \in Bundles(r)'
        /\ \A u \in Bundles(r)' : u <= Newest(Bundles(r)')
    BY <2>1, <2>2, HasNewest
  <2> QED
    BY <2>1, <2>2, <2>3, Zeros
<1>2. Spec => []TypeInv
  BY InitType, TypeStep, PTL DEF Spec
<1> QED
  BY <1>1, <1>2, PTL DEF Spec, NewestKept

(***************************************************************************)
(* The manifests.                                                          *)
(***************************************************************************)
\* A repository that counts as up to date has a bundle.
LEMMA UpToDate ==
  ASSUME TypeInv, NEW r \in Repos, Latest(r) >= lastUpdate[r]
  PROVE  Bundles(r) # {}
<1>1. Passed(r) = {} => Latest(r) = -1
  BY Zenon DEF Latest
<1>2. lastUpdate[r] \in Nat
  BY Numbers, Zeros
<1> QED
  BY <1>1, <1>2, BundleNames

\* Every step keeps a bundle for what is listed or will be.
LEMMA BackedStep ==
  ASSUME "after" \notin Strangers, TypeInv, BackedInv, [Next]_vars
  PROVE  BackedInv'
<1>k. \A q \in Repos : Bundles(q) # {} => Bundles(q)' # {}
  BY NewestStays
<1>m. ASSUME ~lostCommit, NEW q \in Repos, q \in urls \/ q \in Listed PROVE Bundles(q)' # {}
  BY <1>k, <1>m DEF BackedInv
<1>q. ASSUME lostCommit' = lostCommit,
             \A q \in Repos : q \in urls' \/ q \in Listed'
                                => q \in urls \/ q \in Listed \/ Bundles(q)' # {}
      PROVE  BackedInv'
  BY <1>m, <1>q DEF BackedInv
<1>p. ASSUME lostCommit' = lostCommit, urls' \subseteq urls, manifest' = manifest
      PROVE  BackedInv'
  BY <1>p, <1>q, ListedIn
<1> HIDE DEF BackedInv
<1> USE DEF env, repos, bucket, process
<1>1. CASE ReadRepoList
  BY <1>1, <1>p DEF ReadRepoList
<1>2. CASE RecoveryEnds
  BY <1>2, <1>p DEF RecoveryEnds
<1>3. CASE SaveBackup
  BY <1>3, <1>p DEF SaveBackup
<1>4. CASE SavedAll
  BY <1>4, <1>p DEF SavedAll
<1>5. CASE WriteManifest
  <2>1. CASE lostCommit'
    BY <2>1 DEF BackedInv
  <2>2. CASE manifest' = [manifest EXCEPT ![stamp] = urls] /\ lostCommit' = lostCommit
    <3>1. \A q \in Repos : q \in Listed' => q \in urls \/ q \in Listed
      BY <2>2, ListedIn DEF TypeInv, BucketType, LoopType
    <3> QED
      BY <1>5, <2>2, <3>1, <1>q DEF WriteManifest
  <2> QED
    BY <1>5, <2>1, <2>2 DEF WriteManifest
<1>6. CASE WriteManifestFails
  BY <1>6, <1>p DEF WriteManifestFails
<1>7. CASE GarbageCollectOldManifests
  <2>1. \A t \in Times : manifest'[t] \subseteq manifest[t]
    BY <1>7 DEF GarbageCollectOldManifests
  <2> QED
    BY <1>7, <2>1, <1>q, ListedIn DEF GarbageCollectOldManifests
<1>8. ASSUME NEW r \in Repos, RecoverFromBundle(r) PROVE BackedInv'
  BY <1>8, <1>p DEF RecoverFromBundle
<1>9. ASSUME NEW r \in Repos, RecoverSkips(r) PROVE BackedInv'
  BY <1>9, <1>p DEF RecoverSkips
<1>10. ASSUME NEW r \in Repos, VisitRepo(r) PROVE BackedInv'
  <2>1. \A q \in Repos : q \in urls' => q \in urls \/ Bundles(q)' # {}
    BY <1>10, <1>k, UpToDate DEF VisitRepo
  <2> QED
    BY <1>10, <2>1, <1>q, ListedIn DEF VisitRepo
<1>11. ASSUME NEW r \in Repos, VisitFails(r) PROVE BackedInv'
  BY <1>11, <1>p DEF VisitFails
<1>12. ASSUME NEW r \in Repos, NameBundle(r) PROVE BackedInv'
  BY <1>12, <1>p DEF NameBundle
<1>13. ASSUME NEW r \in Repos, WriteBundle(r) PROVE BackedInv'
  <2>1. bundle'[r][name] = local[r] /\ local[r] # 0 /\ name \in Times
    BY <1>13 DEF WriteBundle, TypeInv, BucketType, LoopType
  <2>2. Bundles(r)' # {}
    BY <2>1 DEF Bundles
  <2> QED
    BY <1>13, <2>2, <1>q, ListedIn DEF WriteBundle, BundleDone
<1>14. ASSUME NEW r \in Repos, WriteBundleFails(r) PROVE BackedInv'
  BY <1>14, <1>p DEF WriteBundleFails, BundleDone
<1>15. ASSUME NEW r \in Repos, CloseFails(r) PROVE BackedInv'
  BY <1>15 DEF CloseFails, BackedInv
<1>16. CASE Tick
  BY <1>16, <1>p DEF Tick
<1>17. CASE Restart
  BY <1>17, <1>p DEF Restart
<1>18. ASSUME NEW r \in Repos, Push(r) PROVE BackedInv'
  BY <1>18, <1>p DEF Push
<1>19. ASSUME NEW r \in Repos, Fetch(r) PROVE BackedInv'
  BY <1>19, <1>p DEF Fetch
<1>20. CASE UNCHANGED vars
  BY <1>20, <1>p DEF vars
<1> QED
  BY <1>1, <1>2, <1>3, <1>4, <1>5, <1>6, <1>7, <1>8, <1>9, <1>10, <1>11, <1>12, <1>13, <1>14, <1>15,
     <1>16, <1>17, <1>18, <1>19, <1>20 DEF Next, Process

\* A manifest lists only what a new server can recover, as long as no commit was lost.
THEOREM ListedIsBacked ==
  ASSUME "after" \notin Strangers
  PROVE  Spec => []ListedIsThere
<1>1. Init => BackedInv
  <2> SUFFICES ASSUME Init PROVE \A r \in Repos : r \notin urls /\ r \notin Listed
    BY DEF BackedInv
  <2> QED
    BY ListedIn DEF Init
<1>2. TypeInv /\ BackedInv /\ [Next]_vars => (TypeInv /\ BackedInv)'
  BY TypeStep, BackedStep
<1>3. TypeInv /\ BackedInv => ListedIsThere
  <2>1. TypeInv => Listed \subseteq Repos
    BY ListedIn DEF TypeInv, BucketType
  <2> QED
    BY <2>1 DEF BackedInv, ListedIsThere
<1> QED
  BY <1>1, <1>2, <1>3, InitType, PTL DEF Spec

(***************************************************************************)
(* What is listed stays listed.  There is no other object in the bucket:   *)
(* a server does not recover a repository whose first object is none.      *)
(***************************************************************************)
\* failures counts the calls that failed.
LEMMA FailuresGrow ==
  ASSUME TypeInv, [Next]_vars PROVE failures' = failures \/ failures' = failures + 1
<1> USE DEF env, repos, bucket, process, Fail
<1>1. CASE ReadRepoList
  BY <1>1 DEF ReadRepoList
<1>2. CASE RecoveryEnds
  BY <1>2 DEF RecoveryEnds
<1>3. CASE SaveBackup
  BY <1>3 DEF SaveBackup
<1>4. CASE SavedAll
  BY <1>4 DEF SavedAll
<1>5. CASE WriteManifest
  BY <1>5 DEF WriteManifest
<1>6. CASE WriteManifestFails
  BY <1>6 DEF WriteManifestFails
<1>7. CASE GarbageCollectOldManifests
  BY <1>7 DEF GarbageCollectOldManifests, Old
<1>8. ASSUME NEW r \in Repos, RecoverFromBundle(r) PROVE failures' = failures \/ failures' = failures + 1
  BY <1>8, GcBundleEffect DEF RecoverFromBundle, TypeInv
<1>9. ASSUME NEW r \in Repos, RecoverSkips(r) PROVE failures' = failures \/ failures' = failures + 1
  BY <1>9 DEF RecoverSkips
<1>10. ASSUME NEW r \in Repos, VisitRepo(r) PROVE failures' = failures \/ failures' = failures + 1
  BY <1>10, GcBundleEffect DEF VisitRepo, TypeInv
<1>11. ASSUME NEW r \in Repos, VisitFails(r) PROVE failures' = failures \/ failures' = failures + 1
  BY <1>11 DEF VisitFails
<1>12. ASSUME NEW r \in Repos, NameBundle(r) PROVE failures' = failures \/ failures' = failures + 1
  BY <1>12 DEF NameBundle
<1>13. ASSUME NEW r \in Repos, WriteBundle(r) PROVE failures' = failures \/ failures' = failures + 1
  BY <1>13 DEF WriteBundle, BundleDone
<1>14. ASSUME NEW r \in Repos, WriteBundleFails(r) PROVE failures' = failures \/ failures' = failures + 1
  BY <1>14 DEF WriteBundleFails, BundleDone
<1>15. ASSUME NEW r \in Repos, CloseFails(r) PROVE failures' = failures \/ failures' = failures + 1
  BY <1>15 DEF CloseFails, BundleDone
<1>16. CASE Tick
  BY <1>16 DEF Tick
<1>17. CASE Restart
  BY <1>17 DEF Restart
<1>18. ASSUME NEW r \in Repos, Push(r) PROVE failures' = failures \/ failures' = failures + 1
  BY <1>18 DEF Push
<1>19. ASSUME NEW r \in Repos, Fetch(r) PROVE failures' = failures \/ failures' = failures + 1
  BY <1>19 DEF Fetch
<1>20. CASE UNCHANGED vars
  BY <1>20 DEF vars
<1> QED
  BY <1>1, <1>2, <1>3, <1>4, <1>5, <1>6, <1>7, <1>8, <1>9, <1>10, <1>11, <1>12, <1>13, <1>14, <1>15,
     <1>16, <1>17, <1>18, <1>19, <1>20 DEF Next, Process

\* While no call fails every step keeps what is listed, and keeps it on the way into the
\* next manifest.
LEMMA RelistStep ==
  ASSUME Strangers \subseteq {"none"}, TypeInv, TypeInv', Honest, BackedInv, RelistInv,
         failures = 0, failures' = 0, [Next]_vars
  PROVE  RelistInv' /\ Listed \subseteq Listed'
<1> DEFINE Goal == RelistInv' /\ Listed \subseteq Listed'
<1> SUFFICES Goal
  OBVIOUS
<1>p. \A r \in Repos : Passed(r) = Bundles(r)
  BY DEF TypeInv, BucketType, Passed
<1>l. Listed \subseteq Repos /\ \A r \in Listed : Bundles(r) # {}
  BY ListedIn DEF TypeInv, BucketType, BackedInv, RelistInv
<1>u. manifest' = manifest => Listed' = Listed
  BY DEF Listed
<1>c. cur \subseteq todo /\ \A r \in Repos : lastUpdate[r] \in Nat
  BY Numbers, Zeros DEF TypeInv, LoopType
<1> USE DEF env, repos, bucket, process, Fail, Goal, LoopType
<1>1. CASE ReadRepoList
  BY <1>1, <1>u, <1>c DEF ReadRepoList, RelistInv, TypeInv
<1>2. CASE RecoveryEnds
  BY <1>2, <1>u, <1>c DEF RecoveryEnds, RelistInv, TypeInv
<1>3. CASE SaveBackup
  BY <1>3, <1>u, <1>c DEF SaveBackup, RelistInv, TypeInv
<1>4. CASE SavedAll
  BY <1>4, <1>u, <1>c DEF SavedAll, RelistInv, TypeInv
<1>5. CASE WriteManifest
  <2>1. manifest' = [manifest EXCEPT ![stamp] = urls] /\ stamp \in Times
    BY <1>5 DEF WriteManifest, TypeInv, CountType
  <2>2. manifest'[stamp] = urls /\ \A t \in Times \ {stamp} : manifest'[t] = manifest[t]
    BY <2>1 DEF TypeInv, BucketType
  <2>3. Listed \subseteq urls /\ urls \subseteq Listed'
    BY <1>5, <2>1, <2>2, ListedIn DEF WriteManifest, RelistInv
  <2>4. Listed' \subseteq urls
    BY <2>2, <2>3, ListedIn
  <2> QED
    BY <1>5, <2>2, <2>3, <2>4, <1>c DEF WriteManifest, RelistInv, TypeInv
<1>6. CASE WriteManifestFails
  BY <1>6, <1>u, <1>c DEF WriteManifestFails, RelistInv, TypeInv
<1>7. CASE GarbageCollectOldManifests
  <2>1. stamp \notin Old /\ stamp \in Times
    BY Zeros, BoundAssumption DEF Old, TypeInv
  <2>2. manifest'[stamp] = urls /\ \A t \in Times : manifest'[t] \subseteq manifest[t]
    BY <1>7, <2>1 DEF GarbageCollectOldManifests, RelistInv
  <2>3. Listed \subseteq Listed' /\ Listed' \subseteq Listed
    BY <1>7, <2>1, <2>2, ListedIn DEF GarbageCollectOldManifests, RelistInv
  <2> QED
    BY <1>7, <2>3, <1>c DEF GarbageCollectOldManifests, RelistInv, TypeInv
<1>8. ASSUME NEW r \in Repos, RecoverFromBundle(r) PROVE Goal
  BY <1>8, <1>u, <1>c DEF RecoverFromBundle, RelistInv, TypeInv
<1>9. ASSUME NEW r \in Repos, RecoverSkips(r) PROVE Goal
  <2>1. r \notin Listed
    BY <1>9, <1>p, <1>l DEF RecoverSkips
  <2> QED
    BY <1>9, <2>1, <1>u DEF RecoverSkips, RelistInv, TypeInv
<1>10. ASSUME NEW r \in Repos, VisitRepo(r) PROVE Goal
  <2>1. ASSUME r \in Listed, Latest(r) < lastUpdate[r] PROVE lastUpdate[r] # 0
    <3>1. Latest(r) = Newest(Passed(r))
      <4>1. stranger[r] # "after" /\ Passed(r) # {}
        BY <2>1, <1>p, <1>l DEF TypeInv, BucketType
      <4> QED
        BY <4>1, Zenon DEF Latest
    <3>2. Latest(r) \in Nat
      BY <3>1, <2>1, <1>p, <1>l, BundleNames, HasNewest, Zeros
    <3> QED
      BY <3>2, <2>1, <1>c
  <2> QED
    BY <1>10, <2>1, <1>u, <1>c DEF VisitRepo, RelistInv, TypeInv
<1>11. ASSUME NEW r \in Repos, VisitFails(r) PROVE Goal
  BY <1>11, <1>u, <1>c DEF VisitFails, RelistInv, TypeInv
<1>12. ASSUME NEW r \in Repos, NameBundle(r) PROVE Goal
  BY <1>12, <1>u, <1>c DEF NameBundle, RelistInv, TypeInv
<1>13. ASSUME NEW r \in Repos, WriteBundle(r) PROVE Goal
  BY <1>13, <1>u, <1>c DEF WriteBundle, BundleDone, RelistInv, TypeInv
<1>14. ASSUME NEW r \in Repos, WriteBundleFails(r) PROVE Goal
  <2>1. local[r] = 0 /\ r \in Repos
    BY <1>14 DEF WriteBundleFails, CountType, TypeInv
  <2>2. r \notin Listed
    BY <1>14, <2>1, <1>l DEF WriteBundleFails, BundleDone, RelistInv, Honest, UpdateInv
  <2> QED
    BY <1>14, <2>2, <1>u, <1>c DEF WriteBundleFails, BundleDone, RelistInv, TypeInv
<1>15. ASSUME NEW r \in Repos, CloseFails(r) PROVE Goal
  BY <1>15, <1>u, <1>c DEF CloseFails, BundleDone, RelistInv, TypeInv
<1>16. CASE Tick
  BY <1>16, <1>u, <1>c DEF Tick, RelistInv, TypeInv
<1>17. CASE Restart
  BY <1>17, <1>u, <1>c DEF Restart, RelistInv, TypeInv
<1>18. ASSUME NEW r \in Repos, Push(r) PROVE Goal
  BY <1>18, <1>u, <1>c DEF Push, RelistInv, TypeInv
<1>19. ASSUME NEW r \in Repos, Fetch(r) PROVE Goal
  <2>1. \A q \in Repos : lastUpdate[q] # 0 => lastUpdate'[q] # 0
    BY <1>19 DEF Fetch, TypeInv, ReposType, EnvType
  <2> QED
    BY <1>19, <2>1, <1>u, <1>c DEF Fetch, RelistInv, TypeInv
<1>20. CASE UNCHANGED vars
  BY <1>20, <1>u DEF vars, RelistInv
<1> QED
  BY <1>1, <1>2, <1>3, <1>4, <1>5, <1>6, <1>7, <1>8, <1>9, <1>10, <1>11, <1>12, <1>13, <1>14, <1>15,
     <1>16, <1>17, <1>18, <1>19, <1>20 DEF Next, Process

\* No repository drops out of the manifests while no call fails, over any number of hours,
\* manifests collected and servers replaced.
THEOREM ListedStaysListed ==
  ASSUME Strangers \subseteq {"none"}
  PROVE  Spec => StaysListed
<1> DEFINE Inv == TypeInv /\ Honest /\ BackedInv /\ (failures = 0 => RelistInv)
<1>0. "after" \notin Strangers
  OBVIOUS
<1>1. Init => Inv
  <2> SUFFICES ASSUME Init PROVE Inv
    OBVIOUS
  <2>1. Listed = {}
    BY DEF Init, Listed
  <2>2. ~lostCommit
    BY Zenon DEF Init
  <2>3. BackedInv
    BY <2>1 DEF Init, BackedInv
  <2>4. RelistInv
    BY <2>1, <2>2 DEF Init, RelistInv
  <2> QED
    BY <2>3, <2>4, InitType, InitHonest
<1>2. Inv /\ [Next]_vars => Inv' /\ [failures' = 0 => Listed \subseteq Listed']_vars
  <2> SUFFICES ASSUME Inv, [Next]_vars
               PROVE  Inv' /\ (failures' = 0 => Listed \subseteq Listed')
    OBVIOUS
  <2>1. TypeInv' /\ Honest' /\ BackedInv'
    BY <1>0, TypeStep, HonestStep, BackedStep
  <2>2. failures' = 0 => failures = 0
    BY FailuresGrow DEF TypeInv, CountType
  <2>3. failures' = 0 => RelistInv' /\ Listed \subseteq Listed'
    BY <2>1, <2>2, RelistStep
  <2> QED
    BY <2>1, <2>3
<1> HIDE DEF Inv
<1> QED
  BY <1>1, <1>2, PTL DEF Spec, StaysListed
=============================================================================
