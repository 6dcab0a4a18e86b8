---------------------- MODULE PackObjectsHookRefinement ----------------------
(***************************************************************************)
(* What PackObjectsHook does over time, for any number of processes: the   *)
(* published entry and the abandoned lock stay as they are, and the steps  *)
(* on the files implement the entry of PackCacheEntry.                     *)
(*                                                                         *)
(* Both rest on the invariant of PackObjectsHookProofs.  The refinement    *)
(* also needs to know which way a process took to its answer: its exit     *)
(* code and its descriptor tell a hit from a run of the command.           *)
(***************************************************************************)
EXTENDS PackObjectsHookProofs

(***************************************************************************)
(* Action properties.                                                      *)
(***************************************************************************)
\* No step touches a published entry: only an owner removes or replaces files, and the
\* owner of a published entry has finished.
LEMMA PublishedStep ==
  ASSUME TypeInv, Undisturbed, Undisturbed', Safe, [Next]_vars
  PROVE  end # {} => end' = end /\ stdout' = stdout
<1> USE ProcsAssumption DEF Goto, files, BeforeRun, Purging
<1>u. CASE UNCHANGED vars
  BY <1>u DEF vars, procs
<1>n. ASSUME NEW p \in Procs, Step(p) \/ Kill(p) PROVE end # {} => end' = end /\ stdout' = stdout
  <2> USE DEF TypeInv, TypeOK, PCs, FileNames
  <2>1. CASE StartHook(p)
    BY <2>1 DEF StartHook, Safe, LockInv, FilesInv, OwnerInv
  <2>2. CASE FatalSetup(p)
    BY <2>2 DEF FatalSetup, Safe, LockInv, FilesInv, OwnerInv
  <2>3. CASE Lookup(p)
    BY <2>3 DEF Lookup, Safe, LockInv, FilesInv, OwnerInv
  <2>4. CASE OpenStdout(p)
    BY <2>4 DEF OpenStdout, Safe, LockInv, FilesInv, OwnerInv
  <2>5. CASE OpenStdoutGone(p)
    BY <2>5 DEF OpenStdoutGone, Safe, FilesInv, ReaderInv
  <2>6. CASE OpenStdoutFails(p)
    BY <2>6 DEF OpenStdoutFails, Undisturbed
  <2>7. CASE CopyOut(p)
    BY <2>7 DEF CopyOut, Safe, LockInv, FilesInv, OwnerInv
  <2>8. CASE AppendServed(p)
    BY <2>8 DEF AppendServed, Safe, LockInv, FilesInv, OwnerInv
  <2>9. CASE RmEnd(p)
    BY <2>9 DEF RmEnd, Safe, LockInv, FilesInv, OwnerInv
  <2>10. CASE RmStdout(p)
    BY <2>10 DEF RmStdout, Safe, LockInv, FilesInv, OwnerInv
  <2>11. CASE RmList(p)
    BY <2>11 DEF RmList, Entries, Safe, LockInv, FilesInv, OwnerInv
  <2>12. CASE RmDir(p)
    BY <2>12 DEF RmDir, Entries, Safe, LockInv, FilesInv, OwnerInv
  <2>13. ASSUME NEW n \in FileNames, RmEntry(p, n) PROVE end # {} => end' = end /\ stdout' = stdout
    BY <2>13 DEF RmEntry, Safe, LockInv, FilesInv, OwnerInv
  <2>14. CASE CheckSize(p)
    BY <2>14 DEF CheckSize, Safe, LockInv, FilesInv, OwnerInv
  <2>15. CASE CheckStart(p)
    BY <2>15 DEF CheckStart, Safe, LockInv, FilesInv, OwnerInv
  <2>16. CASE MkdirAll(p)
    BY <2>16 DEF MkdirAll, Safe, LockInv, FilesInv, OwnerInv
  <2>17. CASE CreateStart(p)
    BY <2>17 DEF CreateStart, Safe, LockInv, FilesInv, OwnerInv
  <2>18. CASE CreateStartFails(p)
    BY <2>18 DEF CreateStartFails, Safe, LockInv, FilesInv, OwnerInv
  <2>19. CASE CreateStdout(p)
    BY <2>19 DEF CreateStdout, Safe, LockInv, FilesInv, OwnerInv
  <2>20. CASE CreateStdoutFails(p)
    BY <2>20 DEF CreateStdoutFails, Safe, LockInv, FilesInv, OwnerInv
  <2>21. CASE RunOk(p)
    BY <2>21 DEF RunOk, Safe, LockInv, FilesInv, OwnerInv
  <2>22. CASE RunFails(p)
    BY <2>22 DEF RunFails, Safe, LockInv, FilesInv, OwnerInv
  <2>23. CASE Publish(p)
    BY <2>23 DEF Publish, Safe, LockInv, FilesInv, OwnerInv
  <2>24. CASE Kill(p)
    BY <2>24 DEF Kill, Finished, Safe, LockInv, FilesInv, OwnerInv
  <2> QED
    BY <1>n, <2>1, <2>2, <2>3, <2>4, <2>5, <2>6, <2>7, <2>8, <2>9, <2>10, <2>11, <2>12, <2>13,
       <2>14, <2>15, <2>16, <2>17, <2>18, <2>19, <2>20, <2>21, <2>22, <2>23, <2>24 DEF Step
<1> QED
  BY <1>u, <1>n DEF Next

\* No step takes over an abandoned lock: who does not own it can neither unlink "start"
\* nor write "end", and the owner takes no more steps.
LEMMA AbandonedStep ==
  ASSUME TypeInv, Undisturbed, Undisturbed', Safe, [Next]_vars
  PROVE  Abandoned => Abandoned'
<1> USE ProcsAssumption DEF Goto, files, BeforeRun, Purging, Abandoned, Finished
<1>u. CASE UNCHANGED vars
  BY <1>u DEF vars, procs
<1>n. ASSUME NEW p \in Procs, Step(p) \/ Kill(p) PROVE Abandoned => Abandoned'
  <2> USE DEF TypeInv, TypeOK, PCs, FileNames
  <2>1. CASE StartHook(p)
    BY <2>1 DEF StartHook, Safe, LockInv, OwnerInv
  <2>2. CASE FatalSetup(p)
    BY <2>2 DEF FatalSetup, Safe, LockInv, OwnerInv
  <2>3. CASE Lookup(p)
    BY <2>3 DEF Lookup, Safe, LockInv, OwnerInv
  <2>4. CASE OpenStdout(p)
    BY <2>4 DEF OpenStdout, Safe, LockInv, OwnerInv
  <2>5. CASE OpenStdoutGone(p)
    BY <2>5 DEF OpenStdoutGone, Safe, FilesInv, ReaderInv
  <2>6. CASE OpenStdoutFails(p)
    BY <2>6 DEF OpenStdoutFails, Undisturbed
  <2>7. CASE CopyOut(p)
    BY <2>7 DEF CopyOut, Safe, LockInv, OwnerInv
  <2>8. CASE AppendServed(p)
    BY <2>8 DEF AppendServed, Safe, LockInv, OwnerInv
  <2>9. CASE RmEnd(p)
    BY <2>9 DEF RmEnd, Safe, LockInv, OwnerInv
  <2>10. CASE RmStdout(p)
    BY <2>10 DEF RmStdout, Safe, LockInv, OwnerInv
  <2>11. CASE RmList(p)
    BY <2>11 DEF RmList, Entries, Safe, LockInv, OwnerInv
  <2>12. CASE RmDir(p)
    BY <2>12 DEF RmDir, Entries, Safe, LockInv, OwnerInv
  <2>13. ASSUME NEW n \in FileNames, RmEntry(p, n) PROVE Abandoned => Abandoned'
    BY <2>13 DEF RmEntry, Safe, LockInv, OwnerInv
  <2>14. CASE CheckSize(p)
    BY <2>14 DEF CheckSize, Safe, LockInv, OwnerInv
  <2>15. CASE CheckStart(p)
    BY <2>15 DEF CheckStart, Safe, LockInv, OwnerInv
  <2>16. CASE MkdirAll(p)
    BY <2>16 DEF MkdirAll, Safe, LockInv, OwnerInv
  <2>17. CASE CreateStart(p)
    BY <2>17 DEF CreateStart, Safe, LockInv, OwnerInv
  <2>18. CASE CreateStartFails(p)
    BY <2>18 DEF CreateStartFails, Safe, LockInv, OwnerInv
  <2>19. CASE CreateStdout(p)
    BY <2>19 DEF CreateStdout, Safe, LockInv, OwnerInv
  <2>20. CASE CreateStdoutFails(p)
    BY <2>20 DEF CreateStdoutFails, Safe, LockInv, OwnerInv
  <2>21. CASE RunOk(p)
    BY <2>21 DEF RunOk, Safe, LockInv, OwnerInv
  <2>22. CASE RunFails(p)
    BY <2>22 DEF RunFails, Safe, LockInv, OwnerInv
  <2>23. CASE Publish(p)
    BY <2>23 DEF Publish, Safe, LockInv, OwnerInv
  <2>24. CASE Kill(p)
    BY <2>24 DEF Kill, Finished, Safe, LockInv, OwnerInv
  <2> QED
    BY <1>n, <2>1, <2>2, <2>3, <2>4, <2>5, <2>6, <2>7, <2>8, <2>9, <2>10, <2>11, <2>12, <2>13,
       <2>14, <2>15, <2>16, <2>17, <2>18, <2>19, <2>20, <2>21, <2>22, <2>23, <2>24 DEF Step
<1> QED
  BY <1>u, <1>n DEF Next

\* Publication is final, whatever purges, kills and failures come after it.
THEOREM PublicationIsFinal == Spec => PublishedForever
<1>1. TypeInv /\ IInv /\ [Next]_vars
        => [openFailed' = 0 /\ end # {} => end' = end /\ stdout' = stdout]_vars
  <2> SUFFICES ASSUME TypeInv, IInv, [Next]_vars, openFailed' = 0
               PROVE  end # {} => end' = end /\ stdout' = stdout
    OBVIOUS
  <2>1. Undisturbed' /\ Undisturbed
    BY OpenFailedGrows DEF TypeInv, TypeOK, Undisturbed
  <2> QED
    BY <2>1, PublishedStep DEF IInv
<1> QED
  BY <1>1, Invariance, PTL DEF Spec, PublishedForever

\* A lock whose owner has ended without publishing is never taken over.
THEOREM AbandonmentIsFinal == Spec => AbandonedForever
<1>1. TypeInv /\ IInv /\ [Next]_vars => [openFailed' = 0 /\ Abandoned => Abandoned']_vars
  <2> SUFFICES ASSUME TypeInv, IInv, [Next]_vars, openFailed' = 0
               PROVE  Abandoned => Abandoned'
    OBVIOUS
  <2>1. Undisturbed' /\ Undisturbed
    BY OpenFailedGrows DEF TypeInv, TypeOK, Undisturbed
  <2> QED
    BY <2>1, AbandonedStep DEF IInv
<1> QED
  BY <1>1, Invariance, PTL DEF Spec, AbandonedForever

(***************************************************************************)
(* Refinement.                                                             *)
(***************************************************************************)
\* How a process gets to its answer: only a failure sets its exit code, only a hit
\* leaves it with the descriptor of another process.
RouteInv ==
  \A p \in Procs :
    /\ pc[p] \in (BeforeRun \ {"log"}) \cup {"run", "close"} => exitCode[p] = 0
    /\ pc[p] \in BeforeRun \ {"copy", "log"} => fd[p] = NoFile
    /\ pc[p] = "run" => fd[p] = IF writeCache[p] THEN p ELSE NoFile
    /\ pc[p] = "close" => fd[p] = p

\* The way to the answer is kept by every step.
LEMMA RouteStep ==
  ASSUME TypeInv, TypeInv', Undisturbed, Undisturbed', Safe, RouteInv, [Next]_vars
  PROVE  RouteInv'
<1> USE ProcsAssumption DEF Goto, files, BeforeRun, Purging, RouteInv
<1>u. CASE UNCHANGED vars
  BY <1>u DEF vars, procs
<1>n. ASSUME NEW p \in Procs, Step(p) \/ Kill(p) PROVE RouteInv'
  <2> USE DEF TypeInv, TypeOK, PCs, FileNames
  <2>1. CASE StartHook(p)
    BY <2>1 DEF StartHook, Safe, OwnerInv
  <2>2. CASE FatalSetup(p)
    BY <2>2 DEF FatalSetup, Safe, OwnerInv
  <2>3. CASE Lookup(p)
    BY <2>3 DEF Lookup, Safe, OwnerInv
  <2>4. CASE OpenStdout(p)
    BY <2>4 DEF OpenStdout, Safe, OwnerInv
  <2>5. CASE OpenStdoutGone(p)
    BY <2>5 DEF OpenStdoutGone, Safe, FilesInv, ReaderInv
  <2>6. CASE OpenStdoutFails(p)
    BY <2>6 DEF OpenStdoutFails, Undisturbed
  <2>7. CASE CopyOut(p)
    BY <2>7 DEF CopyOut, Safe, OwnerInv
  <2>8. CASE AppendServed(p)
    BY <2>8 DEF AppendServed, Safe, OwnerInv
  <2>9. CASE RmEnd(p)
    BY <2>9 DEF RmEnd, Safe, OwnerInv
  <2>10. CASE RmStdout(p)
    BY <2>10 DEF RmStdout, Safe, OwnerInv
  <2>11. CASE RmList(p)
    BY <2>11 DEF RmList, Entries, Safe, OwnerInv
  <2>12. CASE RmDir(p)
    BY <2>12 DEF RmDir, Entries, Safe, OwnerInv
  <2>13. ASSUME NEW n \in FileNames, RmEntry(p, n) PROVE RouteInv'
    BY <2>13 DEF RmEntry, Safe, OwnerInv
  <2>14. CASE CheckSize(p)
    BY <2>14 DEF CheckSize, Safe, OwnerInv
  <2>15. CASE CheckStart(p)
    BY <2>15 DEF CheckStart, Safe, OwnerInv
  <2>16. CASE MkdirAll(p)
    BY <2>16 DEF MkdirAll, Safe, OwnerInv
  <2>17. CASE CreateStart(p)
    BY <2>17 DEF CreateStart, Safe, OwnerInv
  <2>18. CASE CreateStartFails(p)
    BY <2>18 DEF CreateStartFails, Safe, OwnerInv
  <2>19. CASE CreateStdout(p)
    BY <2>19 DEF CreateStdout, Safe, OwnerInv
  <2>20. CASE CreateStdoutFails(p)
    BY <2>20 DEF CreateStdoutFails, Safe, OwnerInv
  <2>21. CASE RunOk(p)
    BY <2>21 DEF RunOk, Safe, OwnerInv
  <2>22. CASE RunFails(p)
    BY <2>22 DEF RunFails, Safe, OwnerInv
  <2>23. CASE Publish(p)
    BY <2>23 DEF Publish, Safe, OwnerInv
  <2>24. CASE Kill(p)
    BY <2>24 DEF Kill, Finished, Safe, OwnerInv
  <2> QED
    BY <1>n, <2>1, <2>2, <2>3, <2>4, <2>5, <2>6, <2>7, <2>8, <2>9, <2>10, <2>11, <2>12, <2>13,
       <2>14, <2>15, <2>16, <2>17, <2>18, <2>19, <2>20, <2>21, <2>22, <2>23, <2>24 DEF Step
<1> QED
  BY <1>u, <1>n DEF Next

\* The invariant of the refinement holds in every reachable state.
LEMMA RouteInvariance == Spec => [](Undisturbed => RouteInv)
<1>1. Init => (Undisturbed => RouteInv)
  BY DEF Init, RouteInv, BeforeRun
<1>2. TypeInv /\ TypeInv' /\ IInv /\ (Undisturbed => RouteInv) /\ [Next]_vars
        => (Undisturbed => RouteInv)'
  <2> SUFFICES ASSUME TypeInv, TypeInv', IInv, Undisturbed => RouteInv, [Next]_vars, Undisturbed'
               PROVE  RouteInv'
    OBVIOUS
  <2>1. Undisturbed
    BY OpenFailedGrows DEF TypeInv, TypeOK, Undisturbed
  <2> QED
    BY <2>1, RouteStep DEF IInv
<1> QED
  BY <1>1, <1>2, Invariance, PTL DEF Spec

Answers == [p \in Procs |-> AnswerOf(p)]

\* A step that leaves the marker files and the answer of its process alone is a stutter
\* of the entry.
LEMMA Quiet ==
  ASSUME NEW p \in Procs, start' = start, end' = end, AnswerOf(p)' = AnswerOf(p),
         \A q \in Procs \ {p} : AnswerOf(q)' = AnswerOf(q)
  PROVE  UNCHANGED <<EntryState, Answers>>
BY DEF EntryState, Answers

\* A step answers at most the request of its own process.
LEMMA OthersKeepAnswers ==
  ASSUME TypeInv, NEW p \in Procs, Step(p) \/ Kill(p), NEW q \in Procs \ {p}
  PROVE  AnswerOf(q)' = AnswerOf(q)
<1>1. pc'[q] = pc[q] /\ exitCode'[q] = exitCode[q] /\ fd'[q] = fd[q]
  BY DEF TypeInv, TypeOK, Step, Goto, StartHook, FatalSetup, Lookup, OpenStdout, OpenStdoutGone,
     OpenStdoutFails, CopyOut, AppendServed, RmEnd, RmStdout, RmList, RmDir, RmEntry, CheckSize,
     CheckStart, MkdirAll, CreateStart, CreateStartFails, CreateStdout, CreateStdoutFails, RunOk,
     RunFails, Publish, Kill
<1> QED
  BY <1>1 DEF AnswerOf

\* EntryState, case by case, before and after a step.
LEMMA EntryCases ==
  /\ end # {} => EntryState = "ready"
  /\ end = {} /\ start => EntryState = "building"
  /\ end = {} /\ ~start => EntryState = "absent"
  /\ end' # {} => EntryState' = "ready"
  /\ end' = {} /\ start' => EntryState' = "building"
  /\ end' = {} /\ ~start' => EntryState' = "absent"
BY Zenon DEF EntryState

\* AnswerOf, case by case, before and after a step.
LEMMA AnswerCases ==
  ASSUME NEW p \in Procs
  PROVE  /\ pc[p] \notin {"done", "killed"} => AnswerOf(p) = "none"
         /\ pc'[p] \notin {"done", "killed"} => AnswerOf(p)' = "none"
         /\ pc'[p] = "killed" => AnswerOf(p)' = "failed"
         /\ pc'[p] = "done" /\ exitCode'[p] = 1 => AnswerOf(p)' = "failed"
         /\ pc'[p] = "done" /\ exitCode'[p] = 0 /\ fd'[p] \in {NoFile, p} => AnswerOf(p)' = "ran"
         /\ pc'[p] = "done" /\ exitCode'[p] = 0 /\ fd'[p] \notin {NoFile, p}
              => AnswerOf(p)' = "cached"
<1>1. 0 # 1 /\ "done" # "killed"
  OBVIOUS
<1> QED
  BY <1>1, Zenon DEF AnswerOf

\* A process that gets from an open request to an answer answers the entry's request.
LEMMA AnswerStep ==
  ASSUME TypeInv, NEW p \in Procs, Step(p) \/ Kill(p), AnswerOf(p) = "none",
         NEW how, AnswerOf(p)' = how
  PROVE  Abstract!Answer(p, how)
<1>1. \A q \in Procs \ {p} : AnswerOf(q)' = AnswerOf(q)
  BY OthersKeepAnswers
<1>2. Answers' = [Answers EXCEPT ![p] = how]
  BY <1>1 DEF Answers
<1>3. Answers[p] = "none"
  BY DEF Answers
<1> QED
  BY <1>2, <1>3 DEF Answers, Abstract!Answer

\* A step that does not finish its process and leaves "start" and "end" as they are.
LEMMA QuietStep ==
  ASSUME TypeInv, NEW p \in Procs, Step(p) \/ Kill(p), start' = start, end' = end,
         pc[p] \notin {"done", "killed"}, pc'[p] \notin {"done", "killed"}
  PROVE  UNCHANGED <<EntryState, Answers>>
<1>1. AnswerOf(p)' = AnswerOf(p)
  BY AnswerCases
<1>2. \A q \in Procs \ {p} : AnswerOf(q)' = AnswerOf(q)
  BY OthersKeepAnswers
<1> QED
  BY <1>1, <1>2, Quiet

\* Every step on the files is a step of the entry, or none.
LEMMA RefineStep ==
  ASSUME TypeInv, TypeInv', Undisturbed, Undisturbed', Safe, RouteInv,
         NEW p \in Procs, Step(p) \/ Kill(p)
  PROVE  Abstract!Serve \/ UNCHANGED <<EntryState, Answers>>
<1> DEFINE Goal == Abstract!Serve \/ UNCHANGED <<EntryState, Answers>>
<1>q. ASSUME start' = start, end' = end,
             pc[p] \notin {"done", "killed"}, pc'[p] \notin {"done", "killed"}
      PROVE  Goal
  BY <1>q, QuietStep
<1>f. ASSUME start' = start, end' = end, pc[p] \notin {"done", "killed"}, AnswerOf(p)' = "failed"
      PROVE  Goal
  <2>1. EntryState' = EntryState
    BY <1>f DEF EntryState
  <2>2. Abstract!Answer(p, "failed")
    BY <1>f, AnswerCases, AnswerStep
  <2> QED
    BY <2>1, <2>2 DEF Abstract!Serve, Abstract!Fail
<1>r. ASSUME start' = start, end' = end, pc[p] \notin {"done", "killed"}, AnswerOf(p)' = "ran"
      PROVE  Goal
  <2>1. EntryState' = EntryState
    BY <1>r DEF EntryState
  <2>2. Abstract!Answer(p, "ran")
    BY <1>r, AnswerCases, AnswerStep
  <2> QED
    BY <2>1, <2>2 DEF Abstract!Serve, Abstract!Run
<1> SUFFICES Goal
  OBVIOUS
<1> HIDE DEF Goal
<1> USE ProcsAssumption DEF TypeInv, TypeOK, PCs, FileNames, Goto, files
<1>1. CASE StartHook(p)
  BY <1>1, <1>q DEF StartHook
<1>2. CASE FatalSetup(p)
  BY <1>2, <1>f, AnswerCases DEF FatalSetup
<1>3. CASE Lookup(p)
  BY <1>3, <1>q DEF Lookup
<1>4. CASE OpenStdout(p)
  BY <1>4, <1>q DEF OpenStdout
<1>5. CASE OpenStdoutGone(p)
  BY <1>5 DEF OpenStdoutGone, Safe, FilesInv, ReaderInv
<1>6. CASE OpenStdoutFails(p)
  BY <1>6 DEF OpenStdoutFails, Undisturbed
<1>7. CASE CopyOut(p)
  BY <1>7, <1>q DEF CopyOut
<1>8. CASE AppendServed(p)
  <2>1. CASE exitCode[p] = 1
    BY <1>8, <2>1, <1>f, AnswerCases DEF AppendServed
  <2>2. CASE exitCode[p] = 0
    <3>1. fd[p] \notin {NoFile, p} /\ end # {} /\ end' = end
      BY <1>8 DEF AppendServed, Safe, ReaderInv
    <3>2. AnswerOf(p) = "none" /\ AnswerOf(p)' = "cached"
      BY <1>8, <2>2, <3>1, AnswerCases DEF AppendServed
    <3>3. Abstract!Answer(p, "cached")
      BY <3>2, AnswerStep
    <3>4. EntryState = "ready" /\ EntryState' = "ready"
      BY <3>1, EntryCases
    <3> QED
      BY <3>3, <3>4 DEF Goal, Abstract!Serve, Abstract!Hit
  <2> QED
    BY <2>1, <2>2
<1>9. CASE RmEnd(p)
  <2>1. end = {}
    BY <1>9 DEF RmEnd, Safe, LockInv, FilesInv, OwnerInv
  <2> QED
    BY <1>9, <2>1, <1>q DEF RmEnd
<1>10. CASE RmStdout(p)
  BY <1>10, <1>q DEF RmStdout
<1>11. CASE RmList(p)
  BY <1>11, <1>q DEF RmList
<1>12. CASE RmDir(p)
  <2>1. pc'[p] = "done" /\ exitCode'[p] = 1
    BY <1>12 DEF RmDir, Safe, OwnerInv, Purging
  <2> QED
    BY <1>12, <2>1, <1>f, AnswerCases DEF RmDir
<1>13. ASSUME NEW n \in FileNames, RmEntry(p, n) PROVE Goal
  <2>1. end' = end /\ pc[p] = "rm_entry" /\ pc' = pc
    BY <1>13 DEF RmEntry, Safe, OwnerInv
  <2>2. CASE n = "start"
    <3>1. end = {} /\ start /\ ~start'
      <4>1. holds[p] /\ ~start'
        BY <1>13, <2>2 DEF RmEntry, Safe, OwnerInv
      <4> QED
        BY <2>1, <4>1 DEF Safe, LockInv, FilesInv
    <3>2. EntryState = "building" /\ EntryState' = "absent"
      BY <2>1, <3>1, EntryCases
    <3>3. UNCHANGED Answers
      BY <2>1, OthersKeepAnswers, AnswerCases DEF Answers
    <3> QED
      BY <3>2, <3>3 DEF Goal, Answers, Abstract!Serve, Abstract!GiveUp
  <2>3. CASE n # "start"
    BY <1>13, <2>1, <2>3, <1>q DEF RmEntry
  <2> QED
    BY <2>2, <2>3
<1>14. CASE CheckSize(p)
  BY <1>14, <1>q DEF CheckSize
<1>15. CASE CheckStart(p)
  BY <1>15, <1>q DEF CheckStart
<1>16. CASE MkdirAll(p)
  BY <1>16, <1>q DEF MkdirAll
<1>17. CASE CreateStart(p)
  <2>1. end = {} /\ end' = {} /\ ~start /\ start'
    BY <1>17 DEF CreateStart, Safe, LockInv, FilesInv
  <2>2. EntryState = "absent" /\ EntryState' = "building"
    BY <2>1, EntryCases
  <2>3. pc[p] = "create_start" /\ pc'[p] = "create_stdout"
    BY <1>17 DEF CreateStart
  <2>4. UNCHANGED Answers
    BY <2>3, OthersKeepAnswers, AnswerCases DEF Answers
  <2> QED
    BY <2>2, <2>4 DEF Goal, Answers, Abstract!Serve, Abstract!Begin
<1>18. CASE CreateStartFails(p)
  BY <1>18, <1>q DEF CreateStartFails
<1>19. CASE CreateStdout(p)
  BY <1>19, <1>q DEF CreateStdout
<1>20. CASE CreateStdoutFails(p)
  BY <1>20, <1>q DEF CreateStdoutFails
<1>21. CASE RunOk(p)
  <2>1. CASE writeCache[p]
    BY <1>21, <2>1, <1>q DEF RunOk
  <2>2. CASE ~writeCache[p]
    <3>1. pc'[p] = "done" /\ exitCode'[p] = 0 /\ fd'[p] = NoFile
      BY <1>21, <2>2 DEF RunOk, RouteInv
    <3> QED
      BY <1>21, <3>1, <1>r, AnswerCases DEF RunOk
  <2> QED
    BY <2>1, <2>2
<1>22. CASE RunFails(p)
  <2>1. CASE writeCache[p]
    BY <1>22, <2>1, <1>q DEF RunFails
  <2>2. CASE ~writeCache[p]
    BY <1>22, <2>2, <1>f, AnswerCases DEF RunFails
  <2> QED
    BY <2>1, <2>2
<1>23. CASE Publish(p)
  <2>1. pc'[p] = "done" /\ exitCode'[p] = 0 /\ fd'[p] = p /\ start' = start /\ pc[p] = "close"
    BY <1>23 DEF Publish, RouteInv
  <2>2. AnswerOf(p) = "none" /\ AnswerOf(p)' = "ran"
    BY <2>1, AnswerCases
  <2>3. CASE end' = end
    BY <2>1, <2>2, <2>3, <1>r
  <2>4. CASE end' = end \cup {p}
    <3>1. end = {} /\ start
      BY <2>1 DEF Safe, LockInv, FilesInv, OwnerInv
    <3>2. EntryState = "building" /\ EntryState' = "ready"
      BY <2>4, <3>1, EntryCases
    <3>3. Abstract!Answer(p, "ran")
      BY <2>2, AnswerStep
    <3> QED
      BY <3>2, <3>3 DEF Goal, Abstract!Serve, Abstract!Publish
  <2> QED
    BY <1>23, <2>3, <2>4 DEF Publish
<1>24. CASE Kill(p)
  BY <1>24, <1>f, AnswerCases DEF Kill, Finished
<1> QED
  BY <1>1, <1>2, <1>3, <1>4, <1>5, <1>6, <1>7, <1>8, <1>9, <1>10, <1>11, <1>12, <1>13, <1>14, <1>15,
     <1>16, <1>17, <1>18, <1>19, <1>20, <1>21, <1>22, <1>23, <1>24 DEF Step

\* The hook processes implement the entry: built under the lock, final once it is ready,
\* and a request answered from it only then.
THEOREM Refinement == Spec => ImplementsEntry
<1>1. Init => Abstract!Init
  <2> SUFFICES ASSUME Init PROVE Abstract!Init
    OBVIOUS
  <2>1. EntryState = "absent"
    BY EntryCases DEF Init
  <2>2. \A p \in Procs : pc[p] = "init"
    BY DEF Init
  <2>3. \A p \in Procs : AnswerOf(p) = "none"
    BY <2>2, AnswerCases
  <2>4. Undisturbed
    BY DEF Init, Undisturbed
  <2> QED
    BY <2>1, <2>3, <2>4 DEF Abstract!Init
<1>2. /\ TypeInv /\ IInv /\ (Undisturbed => RouteInv)
      /\ TypeInv' /\ [Next]_vars
      => [Abstract!Next]_<<EntryState, Answers, ~Undisturbed>>
  <2> SUFFICES ASSUME TypeInv, IInv, Undisturbed => RouteInv, TypeInv', [Next]_vars
               PROVE  [Abstract!Next]_<<EntryState, Answers, ~Undisturbed>>
    OBVIOUS
  <2>1. CASE ~Undisturbed'
    BY <2>1 DEF Abstract!Next, Abstract!Break
  <2>2. CASE Undisturbed' /\ UNCHANGED vars
    <3>1. UNCHANGED <<start, end, pc, exitCode, fd, openFailed>>
      BY <2>2 DEF vars, files, procs
    <3>2. UNCHANGED EntryState
      BY <3>1 DEF EntryState
    <3>3. \A p \in Procs : AnswerOf(p)' = AnswerOf(p)
      BY <3>1 DEF AnswerOf
    <3> QED
      BY <3>1, <3>2, <3>3 DEF Answers, Undisturbed
  <2>3. CASE Undisturbed' /\ ~UNCHANGED vars
    <3>1. Undisturbed
      BY <2>3, OpenFailedGrows DEF TypeInv, TypeOK, Undisturbed
    <3>2. PICK p \in Procs : Step(p) \/ Kill(p)
      BY <2>3 DEF Next
    <3>3. Abstract!Serve \/ UNCHANGED <<EntryState, Answers>>
      BY <2>3, <3>1, <3>2, RefineStep DEF IInv
    <3> QED
      BY <2>3, <3>1, <3>3 DEF Abstract!Next
  <2> QED
    BY <2>1, <2>2, <2>3
<1> QED
  BY <1>1, <1>2, Invariance, RouteInvariance, PTL DEF Spec, ImplementsEntry, Abstract!Spec, Answers
=============================================================================
