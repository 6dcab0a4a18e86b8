-------------------------- MODULE RepoRegistryProofs --------------------------
(***************************************************************************)
(* Proofs about RepoRegistry, for any number of callers, of URLs, of       *)
(* failing git commands and of restarts.                                   *)
(*                                                                         *)
(* The argument: while the once of a path runs, exactly one caller is      *)
(* inside the function it runs, and nobody else changes that directory;    *)
(* and whatever is stored for a path has come from a URL that leads there. *)
(***************************************************************************)
EXTENDS RepoRegistry, CanonicalizerProofs

Inside == {"stat", "mkdir", "git"}
Outside == {"idle", "done", "failed", "panicked"}

\* A caller that is on its way has the directory of its URL.
DirInv ==
  \A t \in Callers : pc[t] \notin Outside =>
    /\ url[t] \in Urls[config] /\ Canonical(config, url[t]) # Refused
    /\ dir[t] = Place(config, url[t]) /\ dir[t] \in Paths

\* One caller is inside, and only while the once runs; nobody is past it before it is done.
OnceInv ==
  /\ OneInitializer
  /\ \A t \in Callers : pc[t] \in Inside => once[dir[t]] = "running"
  /\ \A t \in Callers : pc[t] = "use" => once[dir[t]] = "done"

\* What the initialisation has reached on disk.
InGit(p) == \E t \in Callers : pc[t] = "git" /\ dir[t] = p
DiskInv ==
  /\ \A t \in Callers : pc[t] = "mkdir" => ~dirExists[dir[t]]
  /\ \A t \in Callers : pc[t] = "git" =>
       /\ dirExists[dir[t]]
       /\ damaged[dir[t]] \/ \A i \in 1..(next[dir[t]] - 1) : GitSteps[i] \in configured[dir[t]]
  /\ \A p \in Paths : /\ dirExists[p] /\ ~InGit(p) => configured[p] = AllSteps \/ damaged[p]
                      /\ once[p] = "done" => dirExists[p]

\* What is in memory and on disk for a path belongs there.
LeadsTo(u, p) == Canonical(config, u) # Refused /\ Place(config, u) = p
MirrorInv ==
  /\ \A p \in Paths : stored[p] # NoUrl => stored[p] \in Urls[config] /\ LeadsTo(stored[p], p)
  /\ \A p \in Paths : remote[p] # NoUrl => remote[p] \in Urls[config] /\ LeadsTo(remote[p], p)
  /\ \A t \in Callers : pc[t] \notin Outside \cup {"load"} => stored[dir[t]] # NoUrl

RegInv == TypeOK /\ DirInv /\ OnceInv /\ DiskInv /\ MirrorInv

\* The three groups of git commands.
LEMMA Commands ==
  /\ Len(GitSteps) = 3
  /\ GitSteps[1] = "init" /\ GitSteps[2] = "config" /\ GitSteps[3] = "remote"
  /\ AllSteps = {"init", "config", "remote"}
<1>1. Len(GitSteps) = 3 /\ GitSteps[1] = "init" /\ GitSteps[2] = "config" /\ GitSteps[3] = "remote"
  BY DEF GitSteps
<1>2. DOMAIN GitSteps = {1, 2, 3}
  BY DEF GitSteps
<1> QED
  BY <1>1, <1>2 DEF AllSteps

\* The next command is one of them.
LEMMA NextCommand == ASSUME TypeOK, NEW p \in Paths PROVE next[p] \in {1, 2, 3} /\ GitSteps[next[p]] \in AllSteps
<1>1. next[p] \in {1, 2, 3}
  BY Commands DEF TypeOK
<1> QED
  BY <1>1, Commands

\* A URL that is accepted leads to a path.
LEMMA Leads ==
  ASSUME NEW c \in Canonicalizers, NEW u \in Urls[c] PROVE Place(c, u) \in Paths
BY DEF Paths, Place

(***************************************************************************)
(* The types, in parts.                                                    *)
(***************************************************************************)
MemoryType ==
  /\ config \in Canonicalizers
  /\ stored \in [Paths -> Urls[config] \cup {NoUrl}] /\ pools \in [Paths -> SUBSET Pools]
  /\ once \in [Paths -> {"new", "running", "done"}]
CallerType ==
  /\ pc \in [Callers -> PCs] /\ url \in [Callers -> Urls[config] \cup {NoUrl}]
  /\ dir \in [Callers -> Paths \cup {NoPath}]
  /\ \A t \in Callers : url[t] = NoUrl <=> pc[t] \in Outside
DiskType ==
  /\ next \in [Paths -> 1..Len(GitSteps)]
  /\ dirExists \in [Paths -> BOOLEAN] /\ configured \in [Paths -> SUBSET AllSteps]
  /\ remote \in [Paths -> Urls[config] \cup {NoUrl}]
HistoryType ==
  failures \in 0..MaxFailures /\ restarts \in 0..MaxRestarts /\ damaged \in [Paths -> BOOLEAN]

LEMMA TypeParts == TypeOK <=> MemoryType /\ CallerType /\ DiskType /\ HistoryType
BY DEF TypeOK, MemoryType, CallerType, DiskType, HistoryType, Outside

\* A step of a caller along its way.
LEMMA OnItsWay ==
  ASSUME CallerType, NEW t \in Callers, NEW to \in PCs, to \notin Outside, pc[t] \notin Outside,
         pc' = [pc EXCEPT ![t] = to], UNCHANGED <<config, url, dir>>
  PROVE  CallerType'
BY DEF CallerType

\* Every step keeps the types.
LEMMA TypeStep == TypeOK /\ DirInv /\ [Next]_vars => TypeOK'
<1> SUFFICES ASSUME TypeOK, DirInv, [Next]_vars
             PROVE  MemoryType' /\ CallerType' /\ DiskType' /\ HistoryType'
  <2>1. TypeOK' <=> MemoryType' /\ CallerType' /\ DiskType' /\ HistoryType'
    BY DEF TypeOK, MemoryType, CallerType, DiskType, HistoryType, Outside
  <2> QED
    BY <2>1
<1> DEFINE Kept == MemoryType' /\ CallerType' /\ DiskType' /\ HistoryType'
<1>t. MemoryType /\ CallerType /\ DiskType /\ HistoryType
  BY TypeParts
<1>d. \A t \in Callers : pc[t] \notin Outside => dir[t] \in Paths /\ url[t] \in Urls[config]
  BY DEF DirInv
<1>c. Outside = {"idle", "done", "failed", "panicked"}
  BY DEF Outside
<1>u. CASE UNCHANGED vars
  BY <1>t, <1>u DEF vars, objects, disk, history, MemoryType, CallerType, DiskType, HistoryType
<1>r. CASE Restart
  <2>1. MemoryType'
    BY <1>t, <1>r DEF Restart, MemoryType
  <2>2. CallerType'
    BY <1>t, <1>r, UrlAssumption DEF Restart, CallerType, Outside, PCs
  <2>3. DiskType'
    BY <1>t, <1>r, Commands DEF Restart, DiskType, disk
  <2>4. HistoryType'
    <3>1. damaged' \in [Paths -> BOOLEAN]
      BY <1>r, Zenon DEF Restart
    <3>2. failures' \in 0..MaxFailures /\ restarts' \in 0..MaxRestarts
      BY <1>t, <1>r, BoundAssumption DEF Restart, HistoryType
    <3> QED
      BY <3>1, <3>2 DEF HistoryType
  <2> QED
    BY <2>1, <2>2, <2>3, <2>4
<1>1. ASSUME NEW t \in Callers, Canonicalize(t) PROVE Kept
  <2>1. MemoryType' /\ DiskType' /\ HistoryType'
    BY <1>t, <1>1 DEF Canonicalize, objects, disk, history, MemoryType, DiskType, HistoryType
  <2>2. CallerType'
    <3>1. CASE Goto(t, "idle", "failed") /\ UNCHANGED <<url, dir>>
      BY <1>t, <1>1, <3>1 DEF Canonicalize, Goto, CallerType, Outside, PCs
    <3>2. ASSUME NEW u \in Urls[config], Goto(t, "idle", "load"), url' = [url EXCEPT ![t] = u],
                 dir' = [dir EXCEPT ![t] = Join(Canonical(config, u))]
          PROVE  CallerType'
      <4>1. Join(Canonical(config, u)) \in Paths /\ u # NoUrl
        BY <1>t, Leads, UrlAssumption DEF MemoryType, Place
      <4> QED
        BY <1>t, <1>1, <3>2, <4>1 DEF Canonicalize, Goto, CallerType, Outside, PCs
    <3> QED
      BY <1>1, <3>1, <3>2 DEF Canonicalize
  <2> QED
    BY <2>1, <2>2
<1>2. ASSUME NEW t \in Callers, LoadOrStore(t) PROVE Kept
  <2>1. pc[t] = "load" /\ UNCHANGED <<config, url, dir>>
    BY <1>2 DEF LoadOrStore, Goto
  <2>2. CallerType'
    BY <1>t, <1>2, <2>1, OnItsWay DEF LoadOrStore, Goto, Outside, PCs
  <2>3. MemoryType' /\ DiskType' /\ HistoryType'
    BY <1>t, <1>2, <1>d, <1>c, <2>1 DEF LoadOrStore, disk, history, MemoryType, DiskType, HistoryType
  <2> QED
    BY <2>2, <2>3
<1>3. ASSUME NEW t \in Callers, NewPool(t) PROVE Kept
  <2>1. pc[t] \in {"new_fetch", "new_serve"} /\ UNCHANGED <<config, url, dir>>
    BY <1>3 DEF NewPool, Goto
  <2>2. CallerType'
    BY <1>t, <1>3, <2>1, OnItsWay DEF NewPool, Goto, Outside, PCs
  <2>3. MemoryType' /\ DiskType' /\ HistoryType'
    BY <1>t, <1>3, <1>d, <1>c, <2>1 DEF NewPool, Pools, disk, history, MemoryType, DiskType, HistoryType
  <2> QED
    BY <2>2, <2>3
<1>4. ASSUME NEW t \in Callers, DoOnce(t) \/ Stat(t) PROVE Kept
  <2>1. pc[t] \in {"once", "stat"} /\ UNCHANGED <<config, url, dir>>
    BY <1>4 DEF DoOnce, Stat, Goto
  <2>2. CallerType'
    BY <1>t, <1>4, <2>1, OnItsWay DEF DoOnce, Stat, Goto, Outside, PCs
  <2>3. MemoryType' /\ DiskType' /\ HistoryType'
    BY <1>t, <1>4, <1>d, <1>c, <2>1 DEF DoOnce, Stat, SetOnce, objects, disk, history, MemoryType, DiskType, HistoryType
  <2> QED
    BY <2>2, <2>3
<1>6. ASSUME NEW t \in Callers, Mkdir(t) PROVE Kept
  <2>1. pc[t] = "mkdir" /\ UNCHANGED <<config, url, dir>>
    BY <1>6 DEF Mkdir, Goto
  <2>2. CallerType'
    BY <1>t, <1>6, <2>1, OnItsWay DEF Mkdir, Goto, Outside, PCs
  <2>3. MemoryType' /\ HistoryType'
    BY <1>t, <1>6 DEF Mkdir, objects, history, MemoryType, HistoryType
  <2>4. DiskType'
    BY <1>t, <1>6, <1>d, <1>c, <2>1, Commands DEF Mkdir, DiskType
  <2> QED
    BY <2>2, <2>3, <2>4
<1>7. ASSUME NEW t \in Callers, EndStep(t), UNCHANGED <<config, url, dir>> PROVE CallerType' /\ next' \in [Paths -> 1..Len(GitSteps)] /\ once' \in [Paths -> {"new", "running", "done"}]
  <2>1. pc[t] = "git"
    BY <1>7 DEF EndStep, Goto
  <2>2. CallerType'
    BY <1>t, <1>7, <2>1, OnItsWay DEF EndStep, Goto, Outside, PCs
  <2>3. dir[t] \in Paths
    BY <1>d, <1>c, <2>1
  <2>4. next[dir[t]] \in {1, 2, 3}
    BY <2>3, NextCommand
  <2>5. next' \in [Paths -> 1..Len(GitSteps)]
    BY <1>t, <1>7, <2>3, <2>4, Commands DEF EndStep, DiskType
  <2>6. once' \in [Paths -> {"new", "running", "done"}]
    BY <1>t, <1>7 DEF EndStep, SetOnce, MemoryType
  <2> QED
    BY <2>2, <2>5, <2>6
<1>8. ASSUME NEW t \in Callers, RunGit(t) PROVE Kept
  <2>1. pc[t] = "git" /\ EndStep(t) /\ UNCHANGED <<config, url, dir>>
    BY <1>8 DEF RunGit, EndStep, Goto
  <2>2. dir[t] \in Paths /\ url[t] \in Urls[config]
    BY <1>d, <1>c, <2>1
  <2>3. GitSteps[next[dir[t]]] \in AllSteps
    BY <2>2, NextCommand
  <2>4. configured' \in [Paths -> SUBSET AllSteps] /\ AllSteps' = AllSteps
    BY <1>t, <1>8, <2>2, <2>3 DEF RunGit, DiskType, AllSteps
  <2>5. remote' \in [Paths -> Urls[config] \cup {NoUrl}]
    BY <1>t, <1>8, <2>2 DEF RunGit, DiskType
  <2>6. MemoryType' /\ HistoryType' /\ dirExists' \in [Paths -> BOOLEAN]
    BY <1>t, <1>7, <1>8, <2>1 DEF RunGit, objects, history, MemoryType, HistoryType, DiskType
  <2> QED
    BY <1>7, <2>1, <2>4, <2>5, <2>6 DEF DiskType
<1>9. ASSUME NEW t \in Callers, RunGitFails(t) PROVE Kept
  <2>1. pc[t] = "git" /\ EndStep(t) /\ UNCHANGED <<config, url, dir>>
    BY <1>9 DEF RunGitFails, EndStep, Goto
  <2>2. MemoryType' /\ DiskType'
    BY <1>t, <1>7, <1>9, <2>1 DEF RunGitFails, objects, disk, MemoryType, DiskType
  <2>3. HistoryType'
    <3>1. damaged' \in [Paths -> BOOLEAN]
      <4>1. damaged \in [Paths -> BOOLEAN] /\ damaged' = [damaged EXCEPT ![dir[t]] = TRUE]
        BY <1>t, <1>9 DEF RunGitFails, HistoryType
      <4> QED
        BY <4>1
    <3>2. failures' \in 0..MaxFailures /\ restarts' \in 0..MaxRestarts
      BY <1>t, <1>9, BoundAssumption DEF RunGitFails, HistoryType
    <3> QED
      BY <3>1, <3>2 DEF HistoryType
  <2> QED
    BY <1>7, <2>1, <2>2, <2>3
<1>10. ASSUME NEW t \in Callers, NEW pool \in Pools, Use(t, pool) PROVE Kept
  <2>1. MemoryType' /\ DiskType' /\ HistoryType'
    BY <1>t, <1>10 DEF Use, objects, disk, history, MemoryType, DiskType, HistoryType
  <2>2. CallerType'
    BY <1>t, <1>10 DEF Use, Goto, CallerType, Outside, PCs
  <2> QED
    BY <2>1, <2>2
<1> QED
  BY <1>u, <1>r, <1>1, <1>2, <1>3, <1>4, <1>6, <1>8, <1>9, <1>10 DEF Next, Step

(***************************************************************************)
(* The rest of the invariant.                                              *)
(***************************************************************************)
\* The callers, in the invariant's terms: t goes from one place to another, and the others
\* stay where they are.
Moves(t, from, to) ==
  /\ pc[t] \in from /\ pc'[t] \in to
  /\ \A x \in Callers : x # t => pc'[x] = pc[x] /\ dir'[x] = dir[x] /\ url'[x] = url[x]
  /\ pc'[t] \notin Outside /\ pc[t] \notin Outside => dir'[t] = dir[t] /\ url'[t] = url[t]

LEMMA MoveDir ==
  ASSUME DirInv, NEW t \in Callers, config' = config,
         NEW from, NEW to, Moves(t, from, to), pc[t] \notin Outside
  PROVE  DirInv'
<1> SUFFICES ASSUME NEW x \in Callers, pc'[x] \notin Outside
             PROVE  /\ url'[x] \in Urls[config] /\ Canonical(config, url'[x]) # Refused
                    /\ dir'[x] = Place(config, url'[x]) /\ dir'[x] \in Paths
  BY DEF DirInv, Place
<1>1. pc[x] \notin Outside /\ dir'[x] = dir[x] /\ url'[x] = url[x]
  BY DEF Moves
<1> QED
  BY <1>1 DEF DirInv

\* A step outside the initialisation leaves once and disk alone.
LEMMA MoveOutside ==
  ASSUME OnceInv, DiskInv, NEW t \in Callers, NEW from, NEW to, Moves(t, from, to),
         pc[t] \notin Inside, pc'[t] \notin Inside,
         pc'[t] = "use" => once[dir'[t]] = "done",
         UNCHANGED <<once, next, dirExists, configured, damaged>>
  PROVE  OnceInv' /\ DiskInv'
<1>1. \A x \in Callers : pc'[x] \in Inside => x # t /\ pc'[x] = pc[x] /\ dir'[x] = dir[x] /\ pc[x] \in Inside
  BY DEF Moves
<1>2. \A x \in Callers : pc[x] \in Inside => x # t /\ pc'[x] = pc[x] /\ dir'[x] = dir[x]
  BY DEF Moves
<1>3. OnceInv'
  <2>1. OneInitializer'
    BY <1>1 DEF OnceInv, OneInitializer, Inside
  <2>2. \A x \in Callers : pc'[x] \in Inside => once'[dir'[x]] = "running"
    BY <1>1 DEF OnceInv
  <2>3. \A x \in Callers : pc'[x] = "use" => once'[dir'[x]] = "done"
    BY DEF OnceInv, Moves
  <2> QED
    BY <2>1, <2>2, <2>3 DEF OnceInv
<1>4. \A p \in Paths : InGit(p)' <=> InGit(p)
  BY <1>1, <1>2 DEF InGit, Inside
<1>5. \A x \in Callers : /\ pc'[x] = "mkdir" => pc[x] = "mkdir" /\ dir'[x] = dir[x]
                         /\ pc'[x] = "git" => pc[x] = "git" /\ dir'[x] = dir[x]
  BY <1>1 DEF Inside
<1>6. AllSteps' = AllSteps
  BY DEF AllSteps
<1>7. DiskInv'
  <2>1. \A x \in Callers : pc'[x] = "mkdir" => ~dirExists'[dir'[x]]
    BY <1>5 DEF DiskInv
  <2>2. \A x \in Callers : pc'[x] = "git" =>
          /\ dirExists'[dir'[x]]
          /\ damaged'[dir'[x]] \/ \A i \in 1..(next'[dir'[x]] - 1) : GitSteps[i] \in configured'[dir'[x]]
    BY <1>5 DEF DiskInv
  <2>3. \A p \in Paths : /\ dirExists'[p] /\ ~InGit(p)' => configured'[p] = AllSteps \/ damaged'[p]
                         /\ once'[p] = "done" => dirExists'[p]
    BY <1>4 DEF DiskInv
  <2> QED
    BY <1>6, <2>1, <2>2, <2>3 DEF DiskInv
<1> QED
  BY <1>3, <1>7

\* Memory and disk are only copied from the URL of a caller.
LEMMA MoveMirror ==
  ASSUME DirInv, MirrorInv, config \in Canonicalizers, config' = config,
         NEW t \in Callers, NEW from, NEW to, Moves(t, from, to),
         pc'[t] \notin Outside => pc[t] \notin Outside \/ pc'[t] = "load",
         \A p \in Paths : stored'[p] = stored[p] \/ (p = dir[t] /\ pc[t] \notin Outside /\ stored'[p] = url[t]),
         \A p \in Paths : remote'[p] = remote[p] \/ (p = dir[t] /\ pc[t] \notin Outside /\ remote'[p] = url[t]),
         pc'[t] \notin Outside \cup {"load"} => stored'[dir'[t]] # NoUrl
  PROVE  MirrorInv'
<1>1. pc[t] \notin Outside => url[t] \in Urls[config] /\ LeadsTo(url[t], dir[t]) /\ url[t] # NoUrl
                              /\ dir[t] \in Paths
  BY UrlAssumption DEF DirInv, LeadsTo
<1> QED
  BY <1>1 DEF MirrorInv, LeadsTo, Moves, DirInv

\* A step of one caller moves it.
LEMMA Moving ==
  ASSUME TypeOK, NEW t \in Callers, NEW from, NEW to, Goto(t, from, to),
         \A x \in Callers : x # t => dir'[x] = dir[x] /\ url'[x] = url[x],
         to \notin Outside /\ from \notin Outside => dir'[t] = dir[t] /\ url'[t] = url[t]
  PROVE  Moves(t, {from}, {to}) /\ pc[t] = from /\ pc'[t] = to
BY DEF TypeOK, Goto, Moves

\* A step outside the initialisation that neither stores nor configures.
LEMMA Plainly ==
  ASSUME RegInv, NEW t \in Callers, NEW from, NEW to, Goto(t, from, to),
         from \notin Outside, from \notin Inside \cup {"load"}, to \notin Inside \cup {"load"},
         \A x \in Callers : x # t => dir'[x] = dir[x] /\ url'[x] = url[x],
         to \notin Outside => dir'[t] = dir[t] /\ url'[t] = url[t],
         to = "use" => once[dir[t]] = "done",
         UNCHANGED <<config, stored, once, next, dirExists, configured, remote, damaged>>
  PROVE  DirInv' /\ OnceInv' /\ DiskInv' /\ MirrorInv'
<1>1. Moves(t, {from}, {to}) /\ pc[t] = from /\ pc'[t] = to
  BY Moving DEF RegInv
<1>2. to = "use" => to \notin Outside
  BY DEF Outside
<1>3. DirInv' /\ OnceInv' /\ DiskInv'
  BY <1>1, <1>2, MoveDir, MoveOutside DEF RegInv
<1>4. pc'[t] \notin Outside \cup {"load"} => stored'[dir'[t]] # NoUrl
  BY <1>1 DEF RegInv, MirrorInv
<1>5. MirrorInv'
  <2>1. config \in Canonicalizers
    BY DEF RegInv, TypeOK
  <2> QED
    BY <1>1, <1>4, <2>1, MoveMirror DEF RegInv
<1> QED
  BY <1>3, <1>5

\* The caller that is inside is the only one at its path.
LEMMA AloneInside ==
  ASSUME OnceInv, NEW t \in Callers, pc[t] \in Inside
  PROVE  /\ \A x \in Callers : x # t /\ pc[x] \in Inside => dir[x] # dir[t]
         /\ once[dir[t]] = "running"
         /\ \A x \in Callers : pc[x] = "use" => dir[x] # dir[t]
BY DEF OnceInv, OneInitializer, Inside

LEMMA CanonicalizeStep ==
  ASSUME RegInv, NEW t \in Callers, Canonicalize(t)
  PROVE  DirInv' /\ OnceInv' /\ DiskInv' /\ MirrorInv'
<1>t. TypeOK /\ DirInv /\ OnceInv /\ DiskInv /\ MirrorInv /\ config \in Canonicalizers
  BY DEF RegInv, TypeOK
<1>1. PICK u \in Urls[config] :
        \/ /\ Goto(t, "idle", "load") /\ Canonical(config, u) # Refused
           /\ url' = [url EXCEPT ![t] = u] /\ dir' = [dir EXCEPT ![t] = Place(config, u)]
        \/ Goto(t, "idle", "failed") /\ UNCHANGED <<url, dir>>
  BY DEF Canonicalize, Place
<1>2. PICK to \in {"load", "failed"} :
        /\ Goto(t, "idle", to)
        /\ \A x \in Callers : x # t => dir'[x] = dir[x] /\ url'[x] = url[x]
        /\ to = "load" => /\ Canonical(config, u) # Refused
                          /\ url'[t] = u /\ dir'[t] = Place(config, u)
  BY <1>t, <1>1 DEF TypeOK
<1>3. Moves(t, {"idle"}, {to}) /\ pc[t] = "idle" /\ pc'[t] = to
  BY <1>t, <1>2, Moving DEF Outside
<1>4. config' = config /\ UNCHANGED <<stored, once, next, dirExists, configured, remote, damaged>>
  BY DEF Canonicalize, objects, disk, history
<1>5. DirInv'
  <2> SUFFICES ASSUME NEW x \in Callers, pc'[x] \notin Outside
               PROVE  /\ url'[x] \in Urls[config] /\ Canonical(config, url'[x]) # Refused
                      /\ dir'[x] = Place(config, url'[x]) /\ dir'[x] \in Paths
    BY <1>4 DEF DirInv, Place
  <2>1. CASE x = t
    BY <1>t, <1>2, <1>3, <2>1, Leads DEF Outside
  <2>2. CASE x # t
    BY <1>t, <1>3, <2>2 DEF DirInv, Moves
  <2> QED
    BY <2>1, <2>2
<1>6. OnceInv' /\ DiskInv'
  BY <1>t, <1>3, <1>4, MoveOutside DEF Inside
<1>7. MirrorInv'
  BY <1>t, <1>3, <1>4, MoveMirror DEF Outside
<1> QED
  BY <1>5, <1>6, <1>7

LEMMA LoadOrStoreStep ==
  ASSUME RegInv, NEW t \in Callers, LoadOrStore(t)
  PROVE  DirInv' /\ OnceInv' /\ DiskInv' /\ MirrorInv'
<1>t. TypeOK /\ DirInv /\ OnceInv /\ DiskInv /\ MirrorInv /\ config \in Canonicalizers
  BY DEF RegInv, TypeOK
<1>1. PICK to \in {"new_fetch", "once"} :
        /\ Goto(t, "load", to)
        /\ \/ stored[dir[t]] = NoUrl /\ stored' = [stored EXCEPT ![dir[t]] = url[t]]
           \/ stored[dir[t]] # NoUrl /\ stored' = stored
  BY DEF LoadOrStore
<1>2. UNCHANGED <<config, url, dir, once, next, dirExists, configured, remote, damaged>>
  BY DEF LoadOrStore, disk, history
<1>3. Moves(t, {"load"}, {to}) /\ pc[t] = "load" /\ pc'[t] = to
  BY <1>t, <1>1, <1>2, Moving
<1>4. pc[t] \notin Outside /\ pc[t] \notin Inside /\ pc'[t] \notin Inside /\ pc'[t] # "use"
  BY <1>3 DEF Outside, Inside
<1>5. DirInv' /\ OnceInv' /\ DiskInv'
  BY <1>t, <1>2, <1>3, <1>4, MoveDir, MoveOutside
<1>6. dir[t] \in Paths /\ url[t] # NoUrl
  BY <1>t, <1>4, UrlAssumption DEF DirInv
<1>7. stored'[dir[t]] # NoUrl /\ \A p \in Paths : stored'[p] = stored[p] \/ (p = dir[t] /\ stored'[p] = url[t])
  BY <1>t, <1>1, <1>6 DEF TypeOK
<1>8. MirrorInv'
  BY <1>t, <1>2, <1>3, <1>4, <1>7, MoveMirror
<1> QED
  BY <1>5, <1>8

LEMMA DoOnceStep ==
  ASSUME RegInv, NEW t \in Callers, DoOnce(t)
  PROVE  DirInv' /\ OnceInv' /\ DiskInv' /\ MirrorInv'
<1>t. TypeOK /\ DirInv /\ OnceInv /\ DiskInv /\ MirrorInv /\ config \in Canonicalizers
  BY DEF RegInv, TypeOK
<1>u. UNCHANGED <<config, stored, url, dir, next, dirExists, configured, remote, damaged>>
  BY DEF DoOnce, objects, disk, history
<1>1. CASE Goto(t, "once", "stat") /\ once[dir[t]] = "new" /\ once' = [once EXCEPT ![dir[t]] = "running"]
  <2> DEFINE p == dir[t]
  <2>1. Moves(t, {"once"}, {"stat"}) /\ pc[t] = "once" /\ pc'[t] = "stat"
    BY <1>t, <1>u, <1>1, Moving
  <2>2. pc[t] \notin Outside
    BY <2>1 DEF Outside
  <2>3. p \in Paths /\ once[p] = "new" /\ once'[p] = "running" /\ \A q \in Paths : q # p => once'[q] = once[q]
    BY <1>t, <1>1, <2>2 DEF DirInv, TypeOK
  <2>4. \A x \in Callers : pc[x] \notin Outside => dir[x] \in Paths
    BY <1>t DEF DirInv
  <2>5. \A x \in Callers : x # t => pc'[x] = pc[x]
    BY <2>1 DEF Moves
  <2>6. \A x \in Callers : pc[x] \in Inside \cup {"use"} => dir[x] # p /\ x # t /\ dir[x] \in Paths
    BY <1>t, <2>1, <2>3, <2>4 DEF OnceInv, Inside, Outside
  <2>7. OnceInv'
    <3>1. OneInitializer'
      BY <1>t, <1>u, <2>1, <2>5, <2>6 DEF OnceInv, OneInitializer, Inside
    <3>2. \A x \in Callers : pc'[x] \in Inside => once'[dir'[x]] = "running"
      BY <1>t, <1>u, <2>3, <2>5, <2>6 DEF OnceInv
    <3>3. \A x \in Callers : pc'[x] = "use" => once'[dir'[x]] = "done"
      BY <1>t, <1>u, <2>1, <2>3, <2>5, <2>6 DEF OnceInv
    <3> QED
      BY <3>1, <3>2, <3>3 DEF OnceInv
  <2>8. DiskInv'
    <3>1. \A q \in Paths : InGit(q)' <=> InGit(q)
      BY <1>u, <2>1, <2>5 DEF InGit
    <3>2. \A q \in Paths : once'[q] = "done" => once[q] = "done"
      BY <2>3
    <3>3. \A x \in Callers : /\ pc'[x] = "mkdir" => pc[x] = "mkdir"
                             /\ pc'[x] = "git" => pc[x] = "git"
      BY <2>1, <2>5
    <3> QED
      BY <1>t, <1>u, <3>1, <3>2, <3>3 DEF DiskInv, AllSteps
  <2>9. stored'[dir'[t]] # NoUrl
    BY <1>t, <1>u, <2>1 DEF MirrorInv, Outside
  <2> QED
    BY <1>t, <1>u, <2>1, <2>2, <2>7, <2>8, <2>9, MoveDir, MoveMirror
<1>2. CASE Goto(t, "once", "use") /\ once[dir[t]] = "done" /\ UNCHANGED once
  <2>1. {"once", "use"} \cap (Outside \cup Inside \cup {"load"}) = {}
    BY DEF Outside, Inside
  <2> QED
    BY <1>u, <1>2, <2>1, Plainly
<1> QED
  BY <1>1, <1>2 DEF DoOnce, SetOnce

\* A step of the caller that is inside changes its path alone; when it leaves, the
\* directory is configured and the once is done.
LEMMA InsideStep ==
  ASSUME RegInv, NEW t \in Callers, NEW from \in Inside, NEW to \in {"mkdir", "git", "use"}, Goto(t, from, to),
         UNCHANGED <<config, stored, url, dir>>,
         \A q \in Paths : q # dir[t] =>
           /\ once'[q] = once[q] /\ next'[q] = next[q] /\ dirExists'[q] = dirExists[q]
           /\ configured'[q] = configured[q] /\ damaged'[q] = damaged[q] /\ remote'[q] = remote[q],
         remote'[dir[t]] \in {remote[dir[t]], url[t]},
         to # "use" => once'[dir[t]] = once[dir[t]],
         to = "mkdir" => ~dirExists'[dir[t]],
         to = "git" =>
           /\ dirExists'[dir[t]]
           /\ damaged'[dir[t]] \/ \A i \in 1..(next'[dir[t]] - 1) : GitSteps[i] \in configured'[dir[t]],
         to = "use" => /\ once'[dir[t]] = "done" /\ dirExists'[dir[t]]
                       /\ configured'[dir[t]] = AllSteps \/ damaged'[dir[t]]
  PROVE  DirInv' /\ OnceInv' /\ DiskInv' /\ MirrorInv'
<1> DEFINE p == dir[t]
<1>t. TypeOK /\ DirInv /\ OnceInv /\ DiskInv /\ MirrorInv /\ config \in Canonicalizers
  BY DEF RegInv, TypeOK
<1>1. Moves(t, {from}, {to}) /\ pc[t] = from /\ pc'[t] = to
  BY <1>t, Moving
<1>2. from \notin Outside /\ to \notin Outside /\ from # "load" /\ to # "load"
  BY DEF Outside, Inside
<1>3. p \in Paths /\ \A x \in Callers : pc[x] \notin Outside => dir[x] \in Paths
  BY <1>t, <1>1, <1>2 DEF DirInv
<1>4. \A x \in Callers : x # t => pc'[x] = pc[x]
  BY <1>1 DEF Moves
<1>5. \A x \in Callers : x # t /\ pc[x] \in Inside \cup {"use"} => dir[x] # p /\ dir[x] \in Paths
  BY <1>t, <1>1, <1>3, AloneInside DEF Inside, Outside
<1>6. once[p] = "running"
  BY <1>t, <1>1, AloneInside
<1>7. OnceInv'
  <2>1. OneInitializer'
    BY <1>t, <1>1, <1>4, <1>5 DEF OnceInv, OneInitializer, Inside
  <2>2. ASSUME NEW x \in Callers, pc'[x] \in Inside PROVE once'[dir'[x]] = "running"
    <3>1. CASE x = t
      BY <1>1, <1>6, <2>2, <3>1 DEF Inside
    <3>2. CASE x # t
      BY <1>t, <1>4, <1>5, <2>2, <3>2 DEF OnceInv
    <3> QED
      BY <3>1, <3>2
  <2>3. ASSUME NEW x \in Callers, pc'[x] = "use" PROVE once'[dir'[x]] = "done"
    <3>1. CASE x = t
      BY <1>1, <2>3, <3>1
    <3>2. CASE x # t
      BY <1>t, <1>4, <1>5, <2>3, <3>2 DEF OnceInv
    <3> QED
      BY <3>1, <3>2
  <2> QED
    BY <2>1, <2>2, <2>3 DEF OnceInv
<1>8. DiskInv'
  <2>1. ASSUME NEW x \in Callers, pc'[x] = "mkdir" PROVE ~dirExists'[dir'[x]]
    BY <1>t, <1>1, <1>4, <1>5, <2>1 DEF DiskInv, Inside
  <2>2. ASSUME NEW x \in Callers, pc'[x] = "git"
        PROVE  /\ dirExists'[dir'[x]]
               /\ damaged'[dir'[x]] \/ \A i \in 1..(next'[dir'[x]] - 1) : GitSteps[i] \in configured'[dir'[x]]
    <3>1. CASE x = t
      BY <1>1, <2>2, <3>1
    <3>2. CASE x # t
      <4>1. pc[x] = "git" /\ dir[x] # p /\ dir[x] \in Paths
        BY <1>4, <1>5, <2>2, <3>2 DEF Inside
      <4> QED
        BY <1>t, <4>1 DEF DiskInv
    <3> QED
      BY <3>1, <3>2
  <2>3. ASSUME NEW q \in Paths
        PROVE  /\ dirExists'[q] /\ ~InGit(q)' => configured'[q] = AllSteps \/ damaged'[q]
               /\ once'[q] = "done" => dirExists'[q]
    <3>1. CASE q # p
      <4>1. InGit(q)' <=> InGit(q)
        BY <1>1, <1>4, <3>1 DEF InGit
      <4> QED
        BY <1>t, <3>1, <4>1 DEF DiskInv
    <3>2. CASE q = p /\ to = "use"
      BY <3>2
    <3>3. CASE q = p /\ to = "git"
      BY <1>1, <1>6, <3>3 DEF InGit, Inside
    <3>4. CASE q = p /\ to = "mkdir"
      BY <1>6, <3>4 DEF Inside
    <3> QED
      BY <3>1, <3>2, <3>3, <3>4 DEF Inside
  <2>4. AllSteps' = AllSteps
    BY DEF AllSteps
  <2> QED
    BY <2>1, <2>2, <2>3, <2>4 DEF DiskInv
<1>9. stored'[dir'[t]] # NoUrl
  BY <1>t, <1>1, <1>2 DEF MirrorInv
<1>10. \A q \in Paths : remote'[q] = remote[q] \/ (q = dir[t] /\ pc[t] \notin Outside /\ remote'[q] = url[t])
  BY <1>1, <1>2
<1>11. DirInv' /\ MirrorInv'
  BY <1>t, <1>1, <1>2, <1>9, <1>10, MoveDir, MoveMirror
<1> QED
  BY <1>7, <1>8, <1>11

LEMMA StatStep ==
  ASSUME RegInv, NEW t \in Callers, Stat(t)
  PROVE  DirInv' /\ OnceInv' /\ DiskInv' /\ MirrorInv'
<1> DEFINE p == dir[t]
<1>t. TypeOK /\ DirInv /\ OnceInv /\ DiskInv
  BY DEF RegInv
<1>1. pc[t] = "stat" /\ UNCHANGED <<config, stored, url, dir, next, dirExists, configured, remote, damaged>>
  BY DEF Stat, Goto, objects, disk, history
<1>2. p \in Paths
  BY <1>t, <1>1 DEF DirInv, Outside
<1>3. CASE Goto(t, "stat", "mkdir") /\ ~dirExists[p] /\ UNCHANGED once
  BY <1>1, <1>3, InsideStep DEF Inside
<1>4. CASE Goto(t, "stat", "use") /\ dirExists[p] /\ once' = [once EXCEPT ![p] = "done"]
  <2>1. \A x \in Callers : x # t /\ pc[x] = "git" => dir[x] # p
    BY <1>t, <1>1, AloneInside DEF Inside
  <2>2. configured[p] = AllSteps \/ damaged[p]
    BY <1>t, <1>1, <1>2, <1>4, <2>1 DEF DiskInv, InGit
  <2>3. once'[p] = "done" /\ \A q \in Paths : q # p => once'[q] = once[q]
    BY <1>t, <1>2, <1>4 DEF TypeOK
  <2> QED
    BY <1>1, <1>4, <2>2, <2>3, InsideStep DEF Inside
<1> QED
  BY <1>3, <1>4 DEF Stat, SetOnce

LEMMA MkdirStep ==
  ASSUME RegInv, NEW t \in Callers, Mkdir(t)
  PROVE  DirInv' /\ OnceInv' /\ DiskInv' /\ MirrorInv'
<1> DEFINE p == dir[t]
<1>t. TypeOK /\ DirInv
  BY DEF RegInv
<1>1. /\ Goto(t, "mkdir", "git") /\ pc[t] = "mkdir"
      /\ UNCHANGED <<config, stored, url, dir, once, configured, remote, damaged>>
      /\ dirExists' = [dirExists EXCEPT ![p] = TRUE] /\ next' = [next EXCEPT ![p] = 1]
  BY DEF Mkdir, Goto, objects, history
<1>2. p \in Paths
  BY <1>t, <1>1 DEF DirInv, Outside
<1>3. dirExists'[p] /\ \A q \in Paths : q # p => dirExists'[q] = dirExists[q]
  BY <1>t, <1>1, <1>2, Zenon DEF TypeOK
<1>4. next'[p] = 1 /\ \A q \in Paths : q # p => next'[q] = next[q]
  BY <1>t, <1>1, <1>2 DEF TypeOK
<1>5. \A i \in 1..(next'[p] - 1) : GitSteps[i] \in configured'[p]
  BY <1>4
<1>6. \A q \in Paths : q # p =>
        /\ once'[q] = once[q] /\ next'[q] = next[q] /\ dirExists'[q] = dirExists[q]
        /\ configured'[q] = configured[q] /\ damaged'[q] = damaged[q] /\ remote'[q] = remote[q]
  BY <1>1, <1>3, <1>4
<1>7. "mkdir" \in Inside
  BY DEF Inside
<1> QED
  BY <1>1, <1>3, <1>5, <1>6, <1>7, InsideStep

\* One command succeeds or fails; after the last one the once is done.
LEMMA GitStep ==
  ASSUME RegInv, NEW t \in Callers, RunGit(t) \/ RunGitFails(t)
  PROVE  DirInv' /\ OnceInv' /\ DiskInv' /\ MirrorInv'
<1> DEFINE p == dir[t]
<1>t. TypeOK /\ DirInv /\ DiskInv
  BY DEF RegInv
<1>1. pc[t] = "git" /\ EndStep(t) /\ UNCHANGED <<config, stored, url, dir, dirExists>>
  BY DEF RunGit, RunGitFails, EndStep, Goto, objects, disk
<1>2. p \in Paths
  BY <1>t, <1>1 DEF DirInv, Outside
<1>3. dirExists[p] /\ (damaged[p] \/ \A i \in 1..(next[p] - 1) : GitSteps[i] \in configured[p])
  BY <1>t, <1>1 DEF DiskInv
<1>4. next[p] \in {1, 2, 3} /\ GitSteps[next[p]] \in AllSteps /\ configured[p] \subseteq AllSteps
  BY <1>t, <1>2, NextCommand DEF TypeOK
<1>5. /\ \A q \in Paths : q # p => configured'[q] = configured[q] /\ remote'[q] = remote[q] /\ damaged'[q] = damaged[q]
      /\ remote'[p] \in {remote[p], url[t]}
      /\ configured'[p] \subseteq AllSteps
      /\ damaged'[p] \/ \A i \in 1..next[p] : GitSteps[i] \in configured'[p]
  <2>1. CASE RunGit(t)
    <3>1. /\ configured' = [configured EXCEPT ![p] = @ \cup {GitSteps[next[p]]}] /\ damaged' = damaged
          /\ remote' = remote \/ remote' = [remote EXCEPT ![p] = url[t]]
      BY <2>1 DEF RunGit, history
    <3>2. /\ configured'[p] = configured[p] \cup {GitSteps[next[p]]}
          /\ \A q \in Paths : q # p => configured'[q] = configured[q] /\ remote'[q] = remote[q]
          /\ remote'[p] \in {remote[p], url[t]}
      BY <1>t, <1>2, <3>1 DEF TypeOK
    <3>3. \A i \in 1..next[p] : i \in 1..(next[p] - 1) \/ i = next[p]
      BY <1>4
    <3> QED
      BY <1>3, <1>4, <3>1, <3>2, <3>3
  <2>2. CASE RunGitFails(t)
    <3>1. UNCHANGED <<configured, remote>> /\ damaged' = [damaged EXCEPT ![p] = TRUE]
      BY <2>2 DEF RunGitFails, disk
    <3>2. damaged'[p] /\ \A q \in Paths : q # p => damaged'[q] = damaged[q]
      BY <1>t, <1>2, <3>1, Zenon DEF TypeOK
    <3> QED
      BY <1>4, <3>1, <3>2
  <2> QED
    BY <2>1, <2>2
<1>6. CASE next[p] < Len(GitSteps) /\ next' = [next EXCEPT ![p] = @ + 1] /\ Goto(t, "git", "git") /\ UNCHANGED once
  <2>1. next'[p] - 1 = next[p] /\ \A q \in Paths : q # p => next'[q] = next[q]
    BY <1>t, <1>2, <1>4, <1>6 DEF TypeOK
  <2>2. damaged'[p] \/ \A i \in 1..(next'[p] - 1) : GitSteps[i] \in configured'[p]
    BY <1>5, <2>1
  <2> QED
    BY <1>1, <1>3, <1>5, <1>6, <2>1, <2>2, InsideStep DEF Inside
<1>7. CASE next[p] = Len(GitSteps) /\ next' = [next EXCEPT ![p] = 1] /\ Goto(t, "git", "use")
           /\ once' = [once EXCEPT ![p] = "done"]
  <2>1. \A q \in Paths : q # p => next'[q] = next[q] /\ once'[q] = once[q]
    BY <1>t, <1>2, <1>7 DEF TypeOK
  <2>2. once'[p] = "done"
    BY <1>t, <1>2, <1>7 DEF TypeOK
  <2>3. configured'[p] = AllSteps \/ damaged'[p]
    <3>1. 1 \in 1..next[p] /\ 2 \in 1..next[p] /\ 3 \in 1..next[p]
      BY <1>7, Commands
    <3> QED
      BY <1>5, <3>1, Commands
  <2> QED
    BY <1>1, <1>3, <1>5, <1>7, <2>1, <2>2, <2>3, InsideStep DEF Inside
<1> QED
  BY <1>1, <1>6, <1>7 DEF EndStep, SetOnce

\* A new start: nobody is anywhere, and the disk keeps what it has.
LEMMA RestartStep ==
  ASSUME RegInv, Restart
  PROVE  DirInv' /\ OnceInv' /\ DiskInv' /\ MirrorInv'
<1>t. TypeOK /\ DiskInv /\ MirrorInv
  BY DEF RegInv
<1>1. \A t \in Callers : pc'[t] = "idle"
  BY DEF Restart
<1>2. DirInv' /\ OnceInv'
  BY <1>1 DEF DirInv, OnceInv, OneInitializer, Inside, Outside
<1>3. DiskInv'
  <2>1. ASSUME NEW p \in Paths
        PROVE  /\ dirExists'[p] => configured'[p] = AllSteps \/ damaged'[p]
               /\ once'[p] # "done"
    <3>1. once'[p] = "new" /\ dirExists' = dirExists /\ configured' = configured
      BY DEF Restart, disk
    <3>2. damaged[p] \/ InGit(p) => damaged'[p]
      BY Zenon DEF Restart, InGit
    <3> QED
      BY <1>t, <3>1, <3>2 DEF DiskInv
  <2>2. AllSteps' = AllSteps
    BY DEF AllSteps
  <2> QED
    BY <1>1, <2>1, <2>2 DEF DiskInv
<1>4. MirrorInv'
  <2>1. config' = config /\ remote' = remote /\ \A p \in Paths : stored'[p] = NoUrl
    BY DEF Restart, disk
  <2> QED
    BY <1>t, <1>1, <2>1 DEF MirrorInv, LeadsTo, Outside
<1> QED
  BY <1>2, <1>3, <1>4

\* Every step keeps the invariant.
LEMMA RegStep == RegInv /\ [Next]_vars => RegInv'
<1> SUFFICES ASSUME RegInv, [Next]_vars PROVE DirInv' /\ OnceInv' /\ DiskInv' /\ MirrorInv'
  BY TypeStep DEF RegInv
<1> DEFINE Kept == DirInv' /\ OnceInv' /\ DiskInv' /\ MirrorInv'
<1>t. TypeOK /\ DirInv /\ OnceInv /\ DiskInv /\ MirrorInv
  BY DEF RegInv
<1>s. {"new_fetch", "new_serve", "once", "use"} \cap (Outside \cup Inside \cup {"load"}) = {}
      /\ {"done", "panicked"} \subseteq Outside /\ Outside \cap (Inside \cup {"load"}) = {}
  BY DEF Outside, Inside
<1>u. CASE UNCHANGED vars
  <2>1. DirInv' /\ OnceInv'
    BY <1>t, <1>u DEF vars, DirInv, OnceInv, OneInitializer
  <2>2. DiskInv'
    <3>1. \A p \in Paths : InGit(p)' <=> InGit(p)
      BY <1>u DEF vars, InGit
    <3> QED
      BY <1>t, <1>u, <3>1 DEF vars, disk, history, DiskInv, AllSteps
  <2>3. MirrorInv'
    BY <1>t, <1>u DEF vars, objects, disk, MirrorInv, LeadsTo
  <2> QED
    BY <2>1, <2>2, <2>3
<1>1. ASSUME NEW t \in Callers, NewPool(t) PROVE Kept
  <2>1. UNCHANGED <<config, stored, url, dir, once, next, dirExists, configured, remote, damaged>>
    BY <1>1 DEF NewPool, disk, history
  <2>2. Goto(t, "new_fetch", "new_serve") \/ Goto(t, "new_serve", "once")
    BY <1>1 DEF NewPool
  <2> QED
    BY <1>s, <2>1, <2>2, Plainly
<1>2. ASSUME NEW t \in Callers, NEW pool \in Pools, Use(t, pool) PROVE Kept
  <2>1. UNCHANGED <<config, stored, once, next, dirExists, configured, remote, damaged>>
    BY <1>2 DEF Use, objects, disk, history
  <2>2. \A x \in Callers : x # t => dir'[x] = dir[x] /\ url'[x] = url[x]
    BY <1>t, <1>2 DEF Use, TypeOK
  <2>3. Goto(t, "use", "done") \/ Goto(t, "use", "panicked")
    BY <1>2 DEF Use
  <2> QED
    BY <1>s, <2>1, <2>2, <2>3, Plainly
<1> QED
  BY <1>u, <1>1, <1>2, RestartStep, CanonicalizeStep, LoadOrStoreStep, DoOnceStep, StatStep, MkdirStep,
     GitStep DEF Next, Step

\* The invariant holds in every state of every behaviour.
LEMMA Invariance == Spec => []RegInv
<1>1. ASSUME Init PROVE TypeOK
  <2>1. MemoryType
    BY <1>1 DEF Init, MemoryType
  <2>2. CallerType
    BY <1>1, UrlAssumption DEF Init, CallerType, Outside, PCs
  <2>3. DiskType
    <3>1. dirExists \in [Paths -> BOOLEAN]
      BY <1>1, Zenon DEF Init
    <3> QED
      BY <1>1, <3>1, Commands DEF Init, DiskType
  <2>4. HistoryType
    <3>1. damaged \in [Paths -> BOOLEAN]
      BY <1>1, Zenon DEF Init
    <3> QED
      BY <1>1, <3>1, BoundAssumption DEF Init, HistoryType
  <2> QED
    BY <2>1, <2>2, <2>3, <2>4, TypeParts
<1>2. Init => DirInv /\ OnceInv
  BY DEF Init, DirInv, OnceInv, OneInitializer, Inside, Outside
<1>3. Init => DiskInv
  BY Zenon DEF Init, DiskInv
<1>4. Init => MirrorInv
  BY DEF Init, MirrorInv, Outside
<1>5. RegInv /\ [Next]_vars => RegInv'
  BY RegStep
<1> QED
  BY <1>1, <1>2, <1>3, <1>4, <1>5, PTL DEF Spec, RegInv

(***************************************************************************)
(* The results.                                                            *)
(***************************************************************************)
\* The registry, the callers and the directories keep their types.
THEOREM Typing == Spec => []TypeOK
BY Invariance, PTL DEF RegInv

\* once.Do lets one caller at a time create and configure a repository.
THEOREM OneConfigures == Spec => []OneInitializer
BY Invariance, PTL DEF RegInv, OnceInv

\* What a caller gets from openManagedRepository is configured, unless a git command
\* failed in it or the program died while it configured.
THEOREM UsedWhenConfigured == Spec => []ConfiguredBeforeUse
<1>1. ASSUME RegInv PROVE ConfiguredBeforeUse
  <2> SUFFICES ASSUME NEW t \in Callers, pc[t] = "use"
               PROVE  once[dir[t]] = "done" /\ dirExists[dir[t]] /\ (configured[dir[t]] = AllSteps \/ damaged[dir[t]])
    BY DEF ConfiguredBeforeUse
  <2>1. dir[t] \in Paths /\ once[dir[t]] = "done"
    BY <1>1 DEF RegInv, DirInv, OnceInv, Outside
  <2>2. ~InGit(dir[t])
    BY <1>1, <2>1 DEF RegInv, OnceInv, InGit, Inside
  <2> QED
    BY <1>1, <2>1, <2>2 DEF RegInv, DiskInv
<1> QED
  BY <1>1, Invariance, PTL

\* The URLs that are accepted keep what they mean.
LEMMA Kept ==
  ASSUME NEW c \in Canonicalizers, NEW u \in Urls[c], Canonical(c, u) # Refused
  PROVE  KeepsMeaning(c, u) /\ (Usual(u) => Plain(c, u))
<1>1. Names(c, u) /\ \E S : u.path \in Seq(S)
  BY NameAssumption
<1> QED
  BY <1>1, GitHubKeeps, GoogleKeeps DEF Canonicalizers

\* What a caller is given mirrors the repository that its URL means, for any URLs, in any
\* spelling, and any callers.
THEOREM MirrorIsRight == Spec => []RightMirror
<1>1. ASSUME RegInv PROVE RightMirror
  <2> SUFFICES ASSUME NEW t \in Callers, pc[t] = "use"
               PROVE  /\ Fetched(stored[dir[t]]) = Meant(url[t])
                      /\ remote[dir[t]] # NoUrl => Fetched(remote[dir[t]]) = Meant(url[t])
    BY DEF RightMirror
  <2> DEFINE p == dir[t]
  <2>1. /\ config \in Canonicalizers /\ url[t] \in Urls[config] /\ LeadsTo(url[t], p) /\ p \in Paths
        /\ stored[p] # NoUrl
    BY <1>1 DEF RegInv, TypeOK, DirInv, MirrorInv, LeadsTo, Outside
  <2>2. RepositoryOf(config, p) = Meant(url[t])
    BY <2>1, Kept DEF KeepsMeaning, LeadsTo, Meant
  <2>3. ASSUME NEW u \in Urls[config], LeadsTo(u, p) PROVE Fetched(u) = RepositoryOf(config, p)
    BY <2>1, <2>3, Kept DEF KeepsMeaning, LeadsTo, Fetched
  <2> QED
    BY <1>1, <2>1, <2>2, <2>3 DEF RegInv, MirrorInv
<1> QED
  BY <1>1, Invariance, PTL

\* No repository is mirrored twice on disk, through all starts, by URLs that are written in
\* the usual ways.
THEOREM MirrorIsOne == Spec => []OneMirror
<1>1. ASSUME RegInv PROVE OneMirror
  <2> SUFFICES ASSUME NEW p \in Paths, NEW q \in Paths, remote[p] # NoUrl, remote[q] # NoUrl,
                      Usual(remote[p]), Usual(remote[q]), Meant(remote[p]) = Meant(remote[q])
               PROVE  p = q
    BY DEF OneMirror
  <2>1. /\ config \in Canonicalizers
        /\ remote[p] \in Urls[config] /\ LeadsTo(remote[p], p)
        /\ remote[q] \in Urls[config] /\ LeadsTo(remote[q], q)
    BY <1>1 DEF RegInv, TypeOK, MirrorInv
  <2>2. Plain(config, remote[p]) /\ Plain(config, remote[q])
    BY <2>1, Kept DEF LeadsTo
  <2> QED
    BY <2>1, <2>2 DEF LeadsTo, Plain, Meant
<1> QED
  BY <1>1, Invariance, PTL
=============================================================================
