------------------------ MODULE PackObjectsHookProofs ------------------------
(***************************************************************************)
(* Proofs about PackObjectsHook, for any number of processes, any sizes of *)
(* stdin and any bound on the failures of os.Open.                         *)
(*                                                                         *)
(* The argument: while os.Open has not failed on a published entry, the    *)
(* only process that purges is a generator that failed, and it still owns  *)
(* the lock.  Everything below "start" therefore belongs to the one owner. *)
(***************************************************************************)
EXTENDS PackObjectsHook, TLAPS

(***************************************************************************)
(* The inductive invariant.                                                *)
(***************************************************************************)
\* The lock has at most one owner, and "start" exists exactly while it has one.
LockInv ==
  /\ \A p, q \in Procs : holds[p] /\ holds[q] => p = q
  /\ start <=> \E p \in Procs : holds[p]

\* "stdout" was created by the owner; "end" by an owner that has finished.
FilesInv ==
  /\ stdout # NoFile => holds[stdout] /\ writeCache[stdout]
  /\ \A p \in end : /\ holds[p]
                    /\ pc[p] = "done"
                    /\ stdout = p
                    /\ content[p] = "full"

BeforeRun == {"init", "lookup", "open", "copy", "log", "size", "check_start", "mkdir",
              "create_start", "create_stdout"}
Purging == {"rm_end", "rm_stdout", "rm_list", "rm_entry"}

\* Where the owner can be: it generates, or it purges what it generated.
OwnerInv ==
  \A p \in Procs :
    /\ pc[p] \in BeforeRun => ~writeCache[p]
    /\ pc[p] = "create_stdout" => holds[p]
    /\ pc[p] = "run" /\ writeCache[p] => holds[p] /\ stdout = p
    /\ pc[p] = "close" => writeCache[p] /\ holds[p] /\ stdout = p /\ content[p] = "full"
    /\ pc[p] \in Purging => writeCache[p] /\ exitCode[p] = 1
    /\ pc[p] \in {"rm_end", "rm_stdout", "rm_list"} => holds[p]
    /\ pc[p] = "rm_list" => stdout = NoFile
    /\ pc[p] = "rm_entry" => /\ names[p] \subseteq {"start", "served"}
                             /\ holds[p] => stdout = NoFile
                             /\ "start" \in names[p] => holds[p]

\* A reader has a published entry before it; what it copies is complete.
ReaderInv ==
  \A p \in Procs :
    /\ pc[p] \in {"open", "copy", "log"} => end # {}
    /\ pc[p] \in {"copy", "log"} => fd[p] \in Procs \ {p}
    /\ pc[p] = "copy" => content[fd[p]] = "full"
    /\ pc[p] \in {"log", "close", "done"} /\ exitCode[p] = 0 => delivered[p] = "full"

Safe == LockInv /\ FilesInv /\ OwnerInv /\ ReaderInv

IInv == TypeOK /\ (Undisturbed => Safe)

(***************************************************************************)
(* Typing.                                                                 *)
(***************************************************************************)
\* TypeOK alone is not inductive: io.Copy reads the inode that os.Open returned.
TypeInv == TypeOK /\ \A p \in Procs : pc[p] = "copy" => fd[p] \in Procs

\* Every step of every action keeps the types of the files, of the processes and of
\* the history.
LEMMA TypeStep == TypeInv /\ [Next]_vars => TypeInv'
<1> SUFFICES ASSUME TypeInv, [Next]_vars PROVE TypeInv'
  OBVIOUS
<1> USE ProcsAssumption, SizesAssumption, BoundAssumption
       DEF TypeInv, TypeOK, Goto, files, PCs, FileNames
<1>u. CASE UNCHANGED vars
  BY <1>u DEF vars, procs
<1>n. ASSUME NEW p \in Procs, Step(p) \/ Kill(p) PROVE TypeInv'
  <2>1. CASE StartHook(p)
    BY <2>1 DEF StartHook
  <2>2. CASE FatalSetup(p)
    BY <2>2 DEF FatalSetup
  <2>3. CASE Lookup(p)
    BY <2>3 DEF Lookup
  <2>4. CASE OpenStdout(p)
    BY <2>4 DEF OpenStdout
  <2>5. CASE OpenStdoutGone(p)
    BY <2>5 DEF OpenStdoutGone
  <2>6. CASE OpenStdoutFails(p)
    BY <2>6 DEF OpenStdoutFails
  <2>7. CASE CopyOut(p)
    BY <2>7 DEF CopyOut
  <2>8. CASE AppendServed(p)
    BY <2>8 DEF AppendServed
  <2>9. CASE RmEnd(p)
    BY <2>9 DEF RmEnd
  <2>10. CASE RmStdout(p)
    BY <2>10 DEF RmStdout
  <2>11. CASE RmList(p)
    BY <2>11 DEF RmList, Entries
  <2>12. CASE RmDir(p)
    BY <2>12 DEF RmDir, Entries
  <2>13. CASE \E n \in FileNames : RmEntry(p, n)
    BY <2>13 DEF RmEntry
  <2>14. CASE CheckSize(p)
    BY <2>14 DEF CheckSize
  <2>15. CASE CheckStart(p)
    BY <2>15 DEF CheckStart
  <2>16. CASE MkdirAll(p)
    BY <2>16 DEF MkdirAll
  <2>17. CASE CreateStart(p)
    BY <2>17 DEF CreateStart
  <2>18. CASE CreateStartFails(p)
    BY <2>18 DEF CreateStartFails
  <2>19. CASE CreateStdout(p)
    BY <2>19 DEF CreateStdout
  <2>20. CASE CreateStdoutFails(p)
    BY <2>20 DEF CreateStdoutFails
  <2>21. CASE RunOk(p)
    BY <2>21 DEF RunOk
  <2>22. CASE RunFails(p)
    BY <2>22 DEF RunFails
  <2>23. CASE Publish(p)
    BY <2>23 DEF Publish
  <2>24. CASE Kill(p)
    BY <2>24 DEF Kill, Finished
  <2> QED
    BY <1>n, <2>1, <2>2, <2>3, <2>4, <2>5, <2>6, <2>7, <2>8, <2>9, <2>10, <2>11, <2>12, <2>13,
       <2>14, <2>15, <2>16, <2>17, <2>18, <2>19, <2>20, <2>21, <2>22, <2>23, <2>24 DEF Step
<1> QED
  BY <1>u, <1>n DEF Next

\* The initial state has the types.
LEMMA InitType == Init => TypeInv
<1>1. Init => TypeOK
  <2> SUFFICES ASSUME Init PROVE TypeOK
    OBVIOUS
  <2>1. writeCache \in [Procs -> BOOLEAN] /\ holds \in [Procs -> BOOLEAN]
    BY Zenon DEF Init
  <2>2. names \in [Procs -> SUBSET FileNames]
    BY DEF Init
  <2>3. pc \in [Procs -> PCs] /\ fd \in [Procs -> Procs \cup {NoFile}]
    BY DEF Init, PCs
  <2>4. /\ content \in [Procs -> {"partial", "full"}]
        /\ delivered \in [Procs -> {"partial", "full"}]
        /\ exitCode \in [Procs -> {0, 1}]
    BY DEF Init
  <2>5. openFailed \in 0..MaxOpenFailures
    BY BoundAssumption DEF Init
  <2> QED
    BY <2>1, <2>2, <2>3, <2>4, <2>5 DEF Init, TypeOK
<1>2. Init => \A p \in Procs : pc[p] # "copy"
  BY DEF Init
<1> QED
  BY <1>1, <1>2 DEF TypeInv

\* Type correctness, whatever the processes do and wherever they are killed.
THEOREM Typing == Spec => []TypeOK
<1>1. TypeInv => TypeOK
  BY DEF TypeInv
<1> QED
  BY <1>1, InitType, TypeStep, PTL DEF Spec

(***************************************************************************)
(* Safety.                                                                 *)
(***************************************************************************)
\* Every action keeps the four parts of the invariant as long as no process purges
\* an entry that is not its own.
LEMMA SafeStep ==
  ASSUME TypeInv, TypeInv', Undisturbed, Undisturbed', Safe, [Next]_vars
  PROVE  Safe'
<1> USE ProcsAssumption DEF Goto, files, BeforeRun, Purging
<1>u. CASE UNCHANGED vars
  BY <1>u DEF vars, procs, Safe, LockInv, FilesInv, OwnerInv, ReaderInv
<1>n. ASSUME NEW p \in Procs, Step(p) \/ Kill(p) PROVE Safe'
  <2> USE DEF TypeInv, TypeOK, PCs, FileNames
  <2>1. CASE StartHook(p)
    <3>1. LockInv'
      BY <2>1 DEF StartHook, Safe, LockInv, FilesInv, OwnerInv, ReaderInv
    <3>2. FilesInv'
      BY <2>1 DEF StartHook, Safe, LockInv, FilesInv, OwnerInv, ReaderInv
    <3>3. OwnerInv'
      BY <2>1 DEF StartHook, Safe, LockInv, FilesInv, OwnerInv, ReaderInv
    <3>4. ReaderInv'
      BY <2>1 DEF StartHook, Safe, LockInv, FilesInv, OwnerInv, ReaderInv
    <3> QED
      BY <3>1, <3>2, <3>3, <3>4 DEF Safe
  <2>2. CASE FatalSetup(p)
    <3>1. LockInv'
      BY <2>2 DEF FatalSetup, Safe, LockInv, FilesInv, OwnerInv, ReaderInv
    <3>2. FilesInv'
      BY <2>2 DEF FatalSetup, Safe, LockInv, FilesInv, OwnerInv, ReaderInv
    <3>3. OwnerInv'
      BY <2>2 DEF FatalSetup, Safe, LockInv, FilesInv, OwnerInv, ReaderInv
    <3>4. ReaderInv'
      BY <2>2 DEF FatalSetup, Safe, LockInv, FilesInv, OwnerInv, ReaderInv
    <3> QED
      BY <3>1, <3>2, <3>3, <3>4 DEF Safe
  <2>3. CASE Lookup(p)
    <3>1. LockInv'
      BY <2>3 DEF Lookup, Safe, LockInv, FilesInv, OwnerInv, ReaderInv
    <3>2. FilesInv'
      BY <2>3 DEF Lookup, Safe, LockInv, FilesInv, OwnerInv, ReaderInv
    <3>3. OwnerInv'
      BY <2>3 DEF Lookup, Safe, LockInv, FilesInv, OwnerInv, ReaderInv
    <3>4. ReaderInv'
      BY <2>3 DEF Lookup, Safe, LockInv, FilesInv, OwnerInv, ReaderInv
    <3> QED
      BY <3>1, <3>2, <3>3, <3>4 DEF Safe
  <2>4. CASE OpenStdout(p)
    <3>1. LockInv'
      BY <2>4 DEF OpenStdout, Safe, LockInv, FilesInv, OwnerInv, ReaderInv
    <3>2. FilesInv'
      BY <2>4 DEF OpenStdout, Safe, LockInv, FilesInv, OwnerInv, ReaderInv
    <3>3. OwnerInv'
      BY <2>4 DEF OpenStdout, Safe, LockInv, FilesInv, OwnerInv, ReaderInv
    <3>4. ReaderInv'
      BY <2>4 DEF OpenStdout, Safe, LockInv, FilesInv, OwnerInv, ReaderInv
    <3> QED
      BY <3>1, <3>2, <3>3, <3>4 DEF Safe
  <2>5. CASE OpenStdoutGone(p)
    BY <2>5 DEF OpenStdoutGone, Safe, FilesInv, ReaderInv
  <2>6. CASE OpenStdoutFails(p)
    BY <2>6 DEF OpenStdoutFails, Undisturbed
  <2>7. CASE CopyOut(p)
    <3>1. LockInv'
      BY <2>7 DEF CopyOut, Safe, LockInv, FilesInv, OwnerInv, ReaderInv
    <3>2. FilesInv'
      BY <2>7 DEF CopyOut, Safe, LockInv, FilesInv, OwnerInv, ReaderInv
    <3>3. OwnerInv'
      BY <2>7 DEF CopyOut, Safe, LockInv, FilesInv, OwnerInv, ReaderInv
    <3>4. ReaderInv'
      BY <2>7 DEF CopyOut, Safe, LockInv, FilesInv, OwnerInv, ReaderInv
    <3> QED
      BY <3>1, <3>2, <3>3, <3>4 DEF Safe
  <2>8. CASE AppendServed(p)
    <3>1. LockInv'
      BY <2>8 DEF AppendServed, Safe, LockInv, FilesInv, OwnerInv, ReaderInv
    <3>2. FilesInv'
      BY <2>8 DEF AppendServed, Safe, LockInv, FilesInv, OwnerInv, ReaderInv
    <3>3. OwnerInv'
      BY <2>8 DEF AppendServed, Safe, LockInv, FilesInv, OwnerInv, ReaderInv
    <3>4. ReaderInv'
      BY <2>8 DEF AppendServed, Safe, LockInv, FilesInv, OwnerInv, ReaderInv
    <3> QED
      BY <3>1, <3>2, <3>3, <3>4 DEF Safe
  <2>9. CASE RmEnd(p)
    <3>1. LockInv'
      BY <2>9 DEF RmEnd, Safe, LockInv, FilesInv, OwnerInv, ReaderInv
    <3>2. FilesInv'
      BY <2>9 DEF RmEnd, Safe, LockInv, FilesInv, OwnerInv, ReaderInv
    <3>3. OwnerInv'
      BY <2>9 DEF RmEnd, Safe, LockInv, FilesInv, OwnerInv, ReaderInv
    <3>4. ReaderInv'
      BY <2>9 DEF RmEnd, Safe, LockInv, FilesInv, OwnerInv, ReaderInv
    <3> QED
      BY <3>1, <3>2, <3>3, <3>4 DEF Safe
  <2>10. CASE RmStdout(p)
    <3>1. LockInv'
      BY <2>10 DEF RmStdout, Safe, LockInv, FilesInv, OwnerInv, ReaderInv
    <3>2. FilesInv'
      BY <2>10 DEF RmStdout, Safe, LockInv, FilesInv, OwnerInv, ReaderInv
    <3>3. OwnerInv'
      BY <2>10 DEF RmStdout, Safe, LockInv, FilesInv, OwnerInv, ReaderInv
    <3>4. ReaderInv'
      BY <2>10 DEF RmStdout, Safe, LockInv, FilesInv, OwnerInv, ReaderInv
    <3> QED
      BY <3>1, <3>2, <3>3, <3>4 DEF Safe
  <2>11. CASE RmList(p)
    <3>1. LockInv'
      BY <2>11 DEF RmList, Entries, Safe, LockInv, FilesInv, OwnerInv, ReaderInv
    <3>2. FilesInv'
      BY <2>11 DEF RmList, Entries, Safe, LockInv, FilesInv, OwnerInv, ReaderInv
    <3>3. OwnerInv'
      BY <2>11 DEF RmList, Entries, Safe, LockInv, FilesInv, OwnerInv, ReaderInv
    <3>4. ReaderInv'
      BY <2>11 DEF RmList, Entries, Safe, LockInv, FilesInv, OwnerInv, ReaderInv
    <3> QED
      BY <3>1, <3>2, <3>3, <3>4 DEF Safe
  <2>12. CASE RmDir(p)
    <3>1. LockInv'
      BY <2>12 DEF RmDir, Entries, Safe, LockInv, FilesInv, OwnerInv, ReaderInv
    <3>2. FilesInv'
      BY <2>12 DEF RmDir, Entries, Safe, LockInv, FilesInv, OwnerInv, ReaderInv
    <3>3. OwnerInv'
      BY <2>12 DEF RmDir, Entries, Safe, LockInv, FilesInv, OwnerInv, ReaderInv
    <3>4. ReaderInv'
      BY <2>12 DEF RmDir, Entries, Safe, LockInv, FilesInv, OwnerInv, ReaderInv
    <3> QED
      BY <3>1, <3>2, <3>3, <3>4 DEF Safe
  <2>13. ASSUME NEW n \in FileNames, RmEntry(p, n) PROVE Safe'
    <3>1. LockInv'
      <4>1. CASE n = "start"
        <5>1. holds[p] /\ ~start'
          BY <4>1, <2>13 DEF RmEntry, Safe, OwnerInv
        <5>2. \A q \in Procs : ~holds'[q]
          BY <4>1, <5>1, <2>13 DEF RmEntry, Safe, LockInv
        <5> QED
          BY <5>1, <5>2 DEF LockInv
      <4>2. CASE n # "start"
        BY <4>2, <2>13 DEF RmEntry, Safe, LockInv
      <4> QED
        BY <4>1, <4>2
    <3>2. FilesInv'
      BY <2>13 DEF RmEntry, Safe, LockInv, FilesInv, OwnerInv, ReaderInv
    <3>3. OwnerInv'
      BY <2>13 DEF RmEntry, Safe, LockInv, FilesInv, OwnerInv, ReaderInv
    <3>4. ReaderInv'
      BY <2>13 DEF RmEntry, Safe, LockInv, FilesInv, OwnerInv, ReaderInv
    <3> QED
      BY <3>1, <3>2, <3>3, <3>4 DEF Safe
  <2>14. CASE CheckSize(p)
    <3>1. LockInv'
      BY <2>14 DEF CheckSize, Safe, LockInv, FilesInv, OwnerInv, ReaderInv
    <3>2. FilesInv'
      BY <2>14 DEF CheckSize, Safe, LockInv, FilesInv, OwnerInv, ReaderInv
    <3>3. OwnerInv'
      BY <2>14 DEF CheckSize, Safe, LockInv, FilesInv, OwnerInv, ReaderInv
    <3>4. ReaderInv'
      BY <2>14 DEF CheckSize, Safe, LockInv, FilesInv, OwnerInv, ReaderInv
    <3> QED
      BY <3>1, <3>2, <3>3, <3>4 DEF Safe
  <2>15. CASE CheckStart(p)
    <3>1. LockInv'
      BY <2>15 DEF CheckStart, Safe, LockInv, FilesInv, OwnerInv, ReaderInv
    <3>2. FilesInv'
      BY <2>15 DEF CheckStart, Safe, LockInv, FilesInv, OwnerInv, ReaderInv
    <3>3. OwnerInv'
      BY <2>15 DEF CheckStart, Safe, LockInv, FilesInv, OwnerInv, ReaderInv
    <3>4. ReaderInv'
      BY <2>15 DEF CheckStart, Safe, LockInv, FilesInv, OwnerInv, ReaderInv
    <3> QED
      BY <3>1, <3>2, <3>3, <3>4 DEF Safe
  <2>16. CASE MkdirAll(p)
    <3>1. LockInv'
      BY <2>16 DEF MkdirAll, Safe, LockInv, FilesInv, OwnerInv, ReaderInv
    <3>2. FilesInv'
      BY <2>16 DEF MkdirAll, Safe, LockInv, FilesInv, OwnerInv, ReaderInv
    <3>3. OwnerInv'
      BY <2>16 DEF MkdirAll, Safe, LockInv, FilesInv, OwnerInv, ReaderInv
    <3>4. ReaderInv'
      BY <2>16 DEF MkdirAll, Safe, LockInv, FilesInv, OwnerInv, ReaderInv
    <3> QED
      BY <3>1, <3>2, <3>3, <3>4 DEF Safe
  <2>17. CASE CreateStart(p)
    <3>1. LockInv'
      BY <2>17 DEF CreateStart, Safe, LockInv, FilesInv, OwnerInv, ReaderInv
    <3>2. FilesInv'
      BY <2>17 DEF CreateStart, Safe, LockInv, FilesInv, OwnerInv, ReaderInv
    <3>3. OwnerInv'
      BY <2>17 DEF CreateStart, Safe, LockInv, FilesInv, OwnerInv, ReaderInv
    <3>4. ReaderInv'
      BY <2>17 DEF CreateStart, Safe, LockInv, FilesInv, OwnerInv, ReaderInv
    <3> QED
      BY <3>1, <3>2, <3>3, <3>4 DEF Safe
  <2>18. CASE CreateStartFails(p)
    <3>1. LockInv'
      BY <2>18 DEF CreateStartFails, Safe, LockInv, FilesInv, OwnerInv, ReaderInv
    <3>2. FilesInv'
      BY <2>18 DEF CreateStartFails, Safe, LockInv, FilesInv, OwnerInv, ReaderInv
    <3>3. OwnerInv'
      BY <2>18 DEF CreateStartFails, Safe, LockInv, FilesInv, OwnerInv, ReaderInv
    <3>4. ReaderInv'
      BY <2>18 DEF CreateStartFails, Safe, LockInv, FilesInv, OwnerInv, ReaderInv
    <3> QED
      BY <3>1, <3>2, <3>3, <3>4 DEF Safe
  <2>19. CASE CreateStdout(p)
    <3>1. LockInv'
      BY <2>19 DEF CreateStdout, Safe, LockInv, FilesInv, OwnerInv, ReaderInv
    <3>2. FilesInv'
      BY <2>19 DEF CreateStdout, Safe, LockInv, FilesInv, OwnerInv, ReaderInv
    <3>3. OwnerInv'
      BY <2>19 DEF CreateStdout, Safe, LockInv, FilesInv, OwnerInv, ReaderInv
    <3>4. ReaderInv'
      BY <2>19 DEF CreateStdout, Safe, LockInv, FilesInv, OwnerInv, ReaderInv
    <3> QED
      BY <3>1, <3>2, <3>3, <3>4 DEF Safe
  <2>20. CASE CreateStdoutFails(p)
    <3>1. LockInv'
      BY <2>20 DEF CreateStdoutFails, Safe, LockInv, FilesInv, OwnerInv, ReaderInv
    <3>2. FilesInv'
      BY <2>20 DEF CreateStdoutFails, Safe, LockInv, FilesInv, OwnerInv, ReaderInv
    <3>3. OwnerInv'
      BY <2>20 DEF CreateStdoutFails, Safe, LockInv, FilesInv, OwnerInv, ReaderInv
    <3>4. ReaderInv'
      BY <2>20 DEF CreateStdoutFails, Safe, LockInv, FilesInv, OwnerInv, ReaderInv
    <3> QED
      BY <3>1, <3>2, <3>3, <3>4 DEF Safe
  <2>21. CASE RunOk(p)
    <3>1. LockInv'
      BY <2>21 DEF RunOk, Safe, LockInv, FilesInv, OwnerInv, ReaderInv
    <3>2. FilesInv'
      BY <2>21 DEF RunOk, Safe, LockInv, FilesInv, OwnerInv, ReaderInv
    <3>3. OwnerInv'
      BY <2>21 DEF RunOk, Safe, LockInv, FilesInv, OwnerInv, ReaderInv
    <3>4. ReaderInv'
      BY <2>21 DEF RunOk, Safe, LockInv, FilesInv, OwnerInv, ReaderInv
    <3> QED
      BY <3>1, <3>2, <3>3, <3>4 DEF Safe
  <2>22. CASE RunFails(p)
    <3>1. LockInv'
      BY <2>22 DEF RunFails, Safe, LockInv, FilesInv, OwnerInv, ReaderInv
    <3>2. FilesInv'
      BY <2>22 DEF RunFails, Safe, LockInv, FilesInv, OwnerInv, ReaderInv
    <3>3. OwnerInv'
      BY <2>22 DEF RunFails, Safe, LockInv, FilesInv, OwnerInv, ReaderInv
    <3>4. ReaderInv'
      BY <2>22 DEF RunFails, Safe, LockInv, FilesInv, OwnerInv, ReaderInv
    <3> QED
      BY <3>1, <3>2, <3>3, <3>4 DEF Safe
  <2>23. CASE Publish(p)
    <3>1. LockInv'
      BY <2>23 DEF Publish, Safe, LockInv, FilesInv, OwnerInv, ReaderInv
    <3>2. FilesInv'
      BY <2>23 DEF Publish, Safe, LockInv, FilesInv, OwnerInv, ReaderInv
    <3>3. OwnerInv'
      BY <2>23 DEF Publish, Safe, LockInv, FilesInv, OwnerInv, ReaderInv
    <3>4. ReaderInv'
      BY <2>23 DEF Publish, Safe, LockInv, FilesInv, OwnerInv, ReaderInv
    <3> QED
      BY <3>1, <3>2, <3>3, <3>4 DEF Safe
  <2>24. CASE Kill(p)
    <3>1. LockInv'
      BY <2>24 DEF Kill, Finished, Safe, LockInv, FilesInv, OwnerInv, ReaderInv
    <3>2. FilesInv'
      BY <2>24 DEF Kill, Finished, Safe, LockInv, FilesInv, OwnerInv, ReaderInv
    <3>3. OwnerInv'
      BY <2>24 DEF Kill, Finished, Safe, LockInv, FilesInv, OwnerInv, ReaderInv
    <3>4. ReaderInv'
      BY <2>24 DEF Kill, Finished, Safe, LockInv, FilesInv, OwnerInv, ReaderInv
    <3> QED
      BY <3>1, <3>2, <3>3, <3>4 DEF Safe
  <2> QED
    BY <1>n, <2>1, <2>2, <2>3, <2>4, <2>5, <2>6, <2>7, <2>8, <2>9, <2>10, <2>11, <2>12, <2>13,
       <2>14, <2>15, <2>16, <2>17, <2>18, <2>19, <2>20, <2>21, <2>22, <2>23, <2>24 DEF Step
<1> QED
  BY <1>u, <1>n DEF Next

\* openFailed only grows: once an os.Open has failed it stays so.
LEMMA OpenFailedGrows ==
  ASSUME TypeInv, [Next]_vars PROVE openFailed' = openFailed \/ openFailed' = openFailed + 1
BY DEF Next, Step, vars, StartHook, FatalSetup, Lookup, OpenStdout, OpenStdoutGone, OpenStdoutFails,
   CopyOut, AppendServed, RmEnd, RmStdout, RmList, RmDir, RmEntry, CheckSize, CheckStart, MkdirAll,
   CreateStart, CreateStartFails, CreateStdout, CreateStdoutFails, RunOk, RunFails, Publish, Kill

\* The inductive invariant holds in every reachable state.
LEMMA Invariance == Spec => [](TypeInv /\ IInv)
<1>1. Init => TypeInv /\ IInv
  <2> SUFFICES ASSUME Init PROVE TypeInv /\ IInv
    OBVIOUS
  <2>1. TypeInv
    BY InitType
  <2>2. \A p \in Procs : ~holds[p]
    BY Zenon DEF Init
  <2>3. \A p \in Procs : pc[p] = "init" /\ ~writeCache[p]
    BY Zenon DEF Init
  <2>4. LockInv /\ FilesInv
    BY <2>2 DEF Init, LockInv, FilesInv
  <2>5. OwnerInv /\ ReaderInv
    BY <2>3 DEF OwnerInv, ReaderInv, BeforeRun, Purging
  <2> QED
    BY <2>1, <2>4, <2>5 DEF TypeInv, IInv, Safe
<1>2. TypeInv /\ IInv /\ [Next]_vars => (TypeInv /\ IInv)'
  <2> SUFFICES ASSUME TypeInv, IInv, [Next]_vars PROVE (TypeInv /\ IInv)'
    OBVIOUS
  <2>1. TypeInv'
    BY TypeStep
  <2>2. Undisturbed' => Undisturbed
    BY OpenFailedGrows DEF TypeInv, TypeOK, Undisturbed
  <2>3. Undisturbed' => Safe'
    BY <2>1, <2>2, SafeStep DEF IInv
  <2> QED
    BY <2>1, <2>3 DEF TypeInv, IInv
<1> QED
  BY <1>1, <1>2, PTL DEF Spec

\* The O_EXCL creation of "start" is a lock for any number of hook processes: a
\* second owner would have to meet a "start" that someone else unlinked, and only
\* the owner unlinks it.
THEOREM LockIsExclusive == Spec => []LockExclusive
<1>1. IInv => LockExclusive
  BY DEF IInv, Safe, LockInv, LockExclusive
<1> QED
  BY <1>1, Invariance, PTL

\* "end" is only ever seen beside a complete "stdout".
THEOREM PublishedIsComplete == Spec => []PublishedComplete
<1>1. IInv => PublishedComplete
  BY ProcsAssumption DEF IInv, TypeOK, Safe, FilesInv, PublishedComplete
<1> QED
  BY <1>1, Invariance, PTL

\* Exit code 0 means that the client got the whole output.
THEOREM ServedIsComplete == Spec => []ServedComplete
<1>1. IInv => ServedComplete
  BY DEF IInv, Safe, ReaderInv, ServedComplete
<1> QED
  BY <1>1, Invariance, PTL
=============================================================================
