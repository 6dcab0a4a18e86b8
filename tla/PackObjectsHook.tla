--------------------------- MODULE PackObjectsHook ---------------------------
(***************************************************************************)
(* The pack-objects hook (hooks/packobjects/main.go).  git upload-pack     *)
(* runs one hook process per request in place of git pack-objects.  Hook   *)
(* processes share nothing but a directory of the file system: the cache   *)
(* entry cachePath(dir, key), key = sha256(args + stdin).                  *)
(*                                                                         *)
(* The module models one entry and every process that computes its key;    *)
(* processes with another key work in another directory.  Every system     *)
(* call on the entry is a step of its own, because any number of other     *)
(* processes run between two of them, and a process can be killed between  *)
(* two of them (the client hangs up and SIGPIPE ends the hook).            *)
(***************************************************************************)
EXTENDS Naturals, FiniteSets

CONSTANTS
  Procs,            \* the hook processes that compute this key
  NoFile,           \* "no such file" (not a process)
  StdinSizes,       \* the possible sizes of the request on stdin
  StdinMax,         \* POH_STDIN_MAX; 0 when unset or not a number
  MaxOpenFailures   \* bound: how often os.Open(stdout) fails on a published entry

ASSUME ProcsAssumption == NoFile \notin Procs
ASSUME SizesAssumption == StdinSizes \subseteq Nat /\ StdinMax \in Nat
ASSUME BoundAssumption == MaxOpenFailures \in Nat

VARIABLES
  \* The file system below cachePath(dir, key).
  entryDir,     \* the directory of the entry exists
  start,        \* file "start", the lock, exists
  stdout,       \* file "stdout": the process that created the inode, or NoFile
  end,          \* file "end": the processes that appended a line; {} = no file
  served,       \* file "served" exists
  content,      \* content[p]: how much of the output is in the inode p created
  \* The processes.
  stdinSize,    \* size of stdin: part of the key, so equal for all of Procs
  pc,           \* the next step of main
  fd,           \* fd[p]: the inode that p opened on "stdout", or NoFile
  names,        \* names[p]: directory entries that p's os.RemoveAll has still to unlink
  writeCache,   \* writeCache[p]: p copies its output into the entry
  exitCode,     \* exitCode[p]; 1 stands for every code but 0
  delivered,    \* delivered[p]: how much of the output p wrote to its own stdout
  \* History.
  holds,        \* holds[p]: p created the lock "start" and has not unlinked it
  openFailed    \* how many times os.Open(stdout) failed on a published entry

files == <<entryDir, start, stdout, end, served, content>>
procs == <<pc, fd, names, writeCache, exitCode, delivered>>
vars == <<files, procs, stdinSize, holds, openFailed>>

FileNames == {"start", "stdout", "end", "served"}

PCs == {"init", "lookup", "open", "copy", "log",                     \* serving
        "rm_end", "rm_stdout", "rm_list", "rm_entry",                \* purgeCacheDir
        "size", "check_start", "mkdir", "create_start", "create_stdout",
        "run", "close", "done", "killed"}

TypeOK ==
  /\ entryDir \in BOOLEAN
  /\ start \in BOOLEAN
  /\ stdout \in Procs \cup {NoFile}
  /\ end \in SUBSET Procs
  /\ served \in BOOLEAN
  /\ content \in [Procs -> {"partial", "full"}]
  /\ stdinSize \in StdinSizes
  /\ pc \in [Procs -> PCs]
  /\ fd \in [Procs -> Procs \cup {NoFile}]
  /\ names \in [Procs -> SUBSET FileNames]
  /\ writeCache \in [Procs -> BOOLEAN]
  /\ exitCode \in [Procs -> {0, 1}]
  /\ delivered \in [Procs -> {"partial", "full"}]
  /\ holds \in [Procs -> BOOLEAN]
  /\ openFailed \in 0..MaxOpenFailures

Init ==
  /\ entryDir = FALSE /\ start = FALSE /\ stdout = NoFile
  /\ end = {} /\ served = FALSE
  /\ content = [p \in Procs |-> "partial"]
  /\ stdinSize \in StdinSizes
  /\ pc = [p \in Procs |-> "init"]
  /\ fd = [p \in Procs |-> NoFile]
  /\ names = [p \in Procs |-> {}]
  /\ writeCache = [p \in Procs |-> FALSE]
  /\ exitCode = [p \in Procs |-> 0]
  /\ delivered = [p \in Procs |-> "partial"]
  /\ holds = [p \in Procs |-> FALSE]
  /\ openFailed = 0

(***************************************************************************)
(* Helpers.                                                                *)
(***************************************************************************)
Goto(p, from, to) ==
  /\ pc[p] = from
  /\ pc' = [pc EXCEPT ![p] = to]

\* The entries of the directory, as a directory listing returns them.
Entries ==
  {n \in FileNames : \/ n = "start" /\ start
                     \/ n = "stdout" /\ stdout # NoFile
                     \/ n = "end" /\ end # {}
                     \/ n = "served" /\ served}

TooLarge == StdinMax # 0 /\ stdinSize > StdinMax

Finished(p) == pc[p] \in {"done", "killed"}

(***************************************************************************)
(* main, up to the key: without arguments, without POH_CACHE_DIR or        *)
(* without a cache directory the process exits with log.Fatal.             *)
(***************************************************************************)
StartHook(p) ==
  /\ Goto(p, "init", "lookup")
  /\ UNCHANGED <<files, fd, names, writeCache, exitCode, delivered, stdinSize, holds, openFailed>>

FatalSetup(p) ==
  /\ Goto(p, "init", "done")
  /\ exitCode' = [exitCode EXCEPT ![p] = 1]
  /\ UNCHANGED <<files, fd, names, writeCache, delivered, stdinSize, holds, openFailed>>

(***************************************************************************)
(* Serving: fileExists("end"), os.Open("stdout"), io.Copy, append a line   *)
(* to "served".                                                            *)
(***************************************************************************)
\* Mutant: the lookup asks for "stdout" and not for "end".
LookupStdout(p) ==
  /\ Goto(p, "lookup", IF stdout # NoFile THEN "open" ELSE "size")
  /\ UNCHANGED <<files, fd, names, writeCache, exitCode, delivered, stdinSize, holds, openFailed>>

Lookup(p) ==
  /\ Goto(p, "lookup", IF end # {} THEN "open" ELSE "size")
  /\ UNCHANGED <<files, fd, names, writeCache, exitCode, delivered, stdinSize, holds, openFailed>>

OpenStdout(p) ==
  /\ stdout # NoFile
  /\ Goto(p, "open", "copy")
  /\ fd' = [fd EXCEPT ![p] = stdout]
  /\ UNCHANGED <<files, names, writeCache, exitCode, delivered, stdinSize, holds, openFailed>>

\* "stdout is broken, purge it": the file has gone since the lookup ...
OpenStdoutGone(p) ==
  /\ stdout = NoFile
  /\ Goto(p, "open", "rm_end")
  /\ UNCHANGED <<files, fd, names, writeCache, exitCode, delivered, stdinSize, holds, openFailed>>

\* ... or it is there and os.Open fails all the same (no descriptors, I/O error).
OpenStdoutFails(p) ==
  /\ stdout # NoFile
  /\ openFailed < MaxOpenFailures
  /\ Goto(p, "open", "rm_end")
  /\ openFailed' = openFailed + 1
  /\ UNCHANGED <<files, fd, names, writeCache, exitCode, delivered, stdinSize, holds>>

\* io.Copy reads to the end of what the inode holds at this moment; an error of
\* the copy leaves the exit code 1.
CopyOut(p) ==
  /\ Goto(p, "copy", "log")
  /\ \/ /\ delivered' = [delivered EXCEPT ![p] = content[fd[p]]]
        /\ UNCHANGED exitCode
     \/ /\ exitCode' = [exitCode EXCEPT ![p] = 1]
        /\ UNCHANGED delivered
  /\ UNCHANGED <<files, fd, names, writeCache, stdinSize, holds, openFailed>>

\* The line in "served" is lost when the directory is gone or the file does not open.
AppendServed(p) ==
  /\ Goto(p, "log", "done")
  /\ served' \in {served, served \/ entryDir}
  /\ UNCHANGED <<entryDir, start, stdout, end, content>>
  /\ UNCHANGED <<fd, names, writeCache, exitCode, delivered, stdinSize, holds, openFailed>>

(***************************************************************************)
(* purgeCacheDir: "end" first, then "stdout", then os.RemoveAll of the     *)
(* directory, which lists the entries, unlinks the listed names one by one *)
(* and removes the directory if it is empty by then.                       *)
(***************************************************************************)
RmEnd(p) ==
  /\ Goto(p, "rm_end", "rm_stdout")
  /\ end' = {}
  /\ UNCHANGED <<entryDir, start, stdout, served, content>>
  /\ UNCHANGED <<fd, names, writeCache, exitCode, delivered, stdinSize, holds, openFailed>>

RmStdout(p) ==
  /\ Goto(p, "rm_stdout", "rm_list")
  /\ stdout' = NoFile
  /\ UNCHANGED <<entryDir, start, end, served, content>>
  /\ UNCHANGED <<fd, names, writeCache, exitCode, delivered, stdinSize, holds, openFailed>>

\* Mutant: the listing names the directory itself as well.
RmListSelf(p) ==
  /\ Goto(p, "rm_list", "rm_entry")
  /\ names' = [names EXCEPT ![p] = Entries \cup {"."}]
  /\ UNCHANGED <<files, fd, writeCache, exitCode, delivered, stdinSize, holds, openFailed>>

RmList(p) ==
  /\ Goto(p, "rm_list", "rm_entry")
  /\ names' = [names EXCEPT ![p] = Entries]
  /\ UNCHANGED <<files, fd, writeCache, exitCode, delivered, stdinSize, holds, openFailed>>

RmEntry(p, n) ==
  /\ pc[p] = "rm_entry"
  /\ n \in names[p]
  /\ names' = [names EXCEPT ![p] = @ \ {n}]
  /\ start' = (start /\ n # "start")
  /\ stdout' = IF n = "stdout" THEN NoFile ELSE stdout
  /\ end' = IF n = "end" THEN {} ELSE end
  /\ served' = (served /\ n # "served")
  /\ holds' = IF n = "start" THEN [holds EXCEPT ![p] = FALSE] ELSE holds
  /\ UNCHANGED <<entryDir, content, pc, fd, writeCache, exitCode, delivered, stdinSize, openFailed>>

\* The failed generator (writeCache) is finished; a reader goes on to prepareCacheDir.
RmDir(p) ==
  /\ names[p] = {}
  /\ Goto(p, "rm_entry", IF writeCache[p] THEN "done" ELSE "size")
  /\ entryDir' = (entryDir /\ Entries # {})
  /\ UNCHANGED <<start, stdout, end, served, content>>
  /\ UNCHANGED <<fd, names, writeCache, exitCode, delivered, stdinSize, holds, openFailed>>

(***************************************************************************)
(* prepareCacheDir: the size limit, the quick look for "start", MkdirAll,  *)
(* the exclusive creation of "start" (the lock) and of "stdout".           *)
(***************************************************************************)
CheckSize(p) ==
  /\ Goto(p, "size", IF TooLarge THEN "run" ELSE "check_start")
  /\ UNCHANGED <<files, fd, names, writeCache, exitCode, delivered, stdinSize, holds, openFailed>>

\* Mutant: a process that finds the lock taken removes it as stale.
CheckStartBreaksLock(p) ==
  /\ Goto(p, "check_start", IF start THEN "rm_end" ELSE "mkdir")
  /\ UNCHANGED <<files, fd, names, writeCache, exitCode, delivered, stdinSize, holds, openFailed>>

\* Mutant: a process that finds the lock taken waits for "end".
CheckStartWaits(p) ==
  /\ Goto(p, "check_start", IF start THEN "lookup" ELSE "mkdir")
  /\ UNCHANGED <<files, fd, names, writeCache, exitCode, delivered, stdinSize, holds, openFailed>>

CheckStart(p) ==
  /\ Goto(p, "check_start", IF start THEN "run" ELSE "mkdir")
  /\ UNCHANGED <<files, fd, names, writeCache, exitCode, delivered, stdinSize, holds, openFailed>>

\* An error of MkdirAll other than "exists" is ignored: the next step meets it.
MkdirAll(p) ==
  /\ Goto(p, "mkdir", "create_start")
  /\ entryDir' \in {entryDir, TRUE}
  /\ UNCHANGED <<start, stdout, end, served, content>>
  /\ UNCHANGED <<fd, names, writeCache, exitCode, delivered, stdinSize, holds, openFailed>>

\* Mutant: "start" is opened without O_EXCL.
CreateStartShared(p) ==
  /\ entryDir
  /\ Goto(p, "create_start", "create_stdout")
  /\ start' = TRUE
  /\ holds' = [holds EXCEPT ![p] = TRUE]
  /\ UNCHANGED <<entryDir, stdout, end, served, content>>
  /\ UNCHANGED <<fd, names, writeCache, exitCode, delivered, stdinSize, openFailed>>

CreateStart(p) ==
  /\ entryDir /\ ~start
  /\ Goto(p, "create_start", "create_stdout")
  /\ start' = TRUE
  /\ holds' = [holds EXCEPT ![p] = TRUE]
  /\ UNCHANGED <<entryDir, stdout, end, served, content>>
  /\ UNCHANGED <<fd, names, writeCache, exitCode, delivered, stdinSize, openFailed>>

\* Mutant: a process that loses the race for "start" purges the entry.
CreateStartFailsPurges(p) ==
  /\ Goto(p, "create_start", "rm_end")
  /\ UNCHANGED <<files, fd, names, writeCache, exitCode, delivered, stdinSize, holds, openFailed>>

\* O_EXCL found the file, the directory is gone, or the system call failed.
CreateStartFails(p) ==
  /\ Goto(p, "create_start", "run")
  /\ UNCHANGED <<files, fd, names, writeCache, exitCode, delivered, stdinSize, holds, openFailed>>

CreateStdout(p) ==
  /\ entryDir /\ stdout = NoFile
  /\ Goto(p, "create_stdout", "run")
  /\ stdout' = p
  /\ fd' = [fd EXCEPT ![p] = p]
  /\ writeCache' = [writeCache EXCEPT ![p] = TRUE]
  /\ UNCHANGED <<entryDir, start, end, served, content>>
  /\ UNCHANGED <<names, exitCode, delivered, stdinSize, holds, openFailed>>

\* "start" stays behind.
CreateStdoutFails(p) ==
  /\ Goto(p, "create_stdout", "run")
  /\ UNCHANGED <<files, fd, names, writeCache, exitCode, delivered, stdinSize, holds, openFailed>>

(***************************************************************************)
(* cmd.Run, with the output going to stdout or, through io.MultiWriter, to *)
(* stdout and the entry; then fstdout.Close and "end", or the purge.       *)
(***************************************************************************)
RunOk(p) ==
  /\ Goto(p, "run", IF writeCache[p] THEN "close" ELSE "done")
  /\ delivered' = [delivered EXCEPT ![p] = "full"]
  /\ content' = IF writeCache[p] THEN [content EXCEPT ![p] = "full"] ELSE content
  /\ UNCHANGED <<entryDir, start, stdout, end, served>>
  /\ UNCHANGED <<fd, names, writeCache, exitCode, stdinSize, holds, openFailed>>

\* Mutant: the entry is published whatever the exit code is.
RunFailsPublishes(p) ==
  /\ Goto(p, "run", IF writeCache[p] THEN "close" ELSE "done")
  /\ exitCode' = [exitCode EXCEPT ![p] = 1]
  /\ UNCHANGED <<files, fd, names, writeCache, delivered, stdinSize, holds, openFailed>>

\* The command fails, or one of the two writers does: the output is cut short.
RunFails(p) ==
  /\ Goto(p, "run", IF writeCache[p] THEN "rm_end" ELSE "done")
  /\ exitCode' = [exitCode EXCEPT ![p] = 1]
  /\ UNCHANGED <<files, fd, names, writeCache, delivered, stdinSize, holds, openFailed>>

\* Opening "end" with O_CREATE fails without the directory or for want of resources.
Publish(p) ==
  /\ Goto(p, "close", "done")
  /\ \/ /\ entryDir
        /\ end' = end \cup {p}
     \/ UNCHANGED end
  /\ UNCHANGED <<entryDir, start, stdout, served, content>>
  /\ UNCHANGED <<fd, names, writeCache, exitCode, delivered, stdinSize, holds, openFailed>>

\* The process is killed: the file system keeps what it did.
Kill(p) ==
  /\ ~Finished(p)
  /\ pc' = [pc EXCEPT ![p] = "killed"]
  /\ UNCHANGED <<files, fd, names, writeCache, exitCode, delivered, stdinSize, holds, openFailed>>

Step(p) ==
  \/ StartHook(p) \/ FatalSetup(p)
  \/ Lookup(p) \/ OpenStdout(p) \/ OpenStdoutGone(p) \/ OpenStdoutFails(p)
  \/ CopyOut(p) \/ AppendServed(p)
  \/ RmEnd(p) \/ RmStdout(p) \/ RmList(p) \/ RmDir(p)
  \/ \E n \in FileNames : RmEntry(p, n)
  \/ CheckSize(p) \/ CheckStart(p) \/ MkdirAll(p)
  \/ CreateStart(p) \/ CreateStartFails(p)
  \/ CreateStdout(p) \/ CreateStdoutFails(p)
  \/ RunOk(p) \/ RunFails(p) \/ Publish(p)

Next == \E p \in Procs : Step(p) \/ Kill(p)

Spec == Init /\ [][Next]_vars

\* A process that is not killed runs on: the kernel schedules it, and the
\* command it runs ends.
FairSpec == Spec /\ \A p \in Procs : WF_vars(Step(p))

(***************************************************************************)
(* Properties.  The first five hold as long as os.Open has not failed on a *)
(* published entry: no process purges an entry that another one may use.   *)
(***************************************************************************)
Undisturbed == openFailed = 0

\* "start" is a lock: no two processes ever own it together, whatever the order of
\* O_EXCL creations, purges of failed generators, and kills.
LockExclusive ==
  Undisturbed => \A p, q \in Procs : holds[p] /\ holds[q] => p = q

\* The "end" marker is there only next to a complete "stdout", although the two
\* files are created, written and removed by separate system calls.
PublishedComplete ==
  Undisturbed /\ end # {} => stdout # NoFile /\ content[stdout] = "full"

\* A process that exits with code 0 has delivered the whole output, from the entry
\* or from its own run of the command.
ServedComplete ==
  Undisturbed => \A p \in Procs : pc[p] = "done" /\ exitCode[p] = 0 => delivered[p] = "full"

\* Publication is final: no step removes or replaces a published output, not even
\* the purge of a generator that failed before.
PublishedForever ==
  [][openFailed' = 0 /\ end # {} => end' = end /\ stdout' = stdout]_vars

\* The lock of a generator that was killed, or that could not create "stdout" or
\* "end", is never taken over: the entry is neither published nor removed.
Abandoned == start /\ end = {} /\ \A p \in Procs : holds[p] => Finished(p)
AbandonedForever == [][openFailed' = 0 /\ Abandoned => Abandoned']_vars

\* The entry and its users as PackCacheEntry sees them: what the three files and
\* the processes stand for.
EntryState ==
  CASE end # {} -> "ready"
    [] end = {} /\ start -> "building"
    [] OTHER -> "absent"

AnswerOf(p) ==
  CASE pc[p] = "killed" \/ (pc[p] = "done" /\ exitCode[p] = 1) -> "failed"
    [] pc[p] = "done" /\ exitCode[p] = 0 /\ fd[p] \in {NoFile, p} -> "ran"
    [] pc[p] = "done" /\ exitCode[p] = 0 /\ fd[p] \notin {NoFile, p} -> "cached"
    [] OTHER -> "none"

Abstract ==
  INSTANCE PackCacheEntry WITH entry <- EntryState,
                               answer <- [p \in Procs |-> AnswerOf(p)],
                               broken <- ~Undisturbed

\* The steps on "start", "stdout" and "end" implement the entry of PackCacheEntry:
\* built under the lock, final once ready, and no answer from an entry that is not.
ImplementsEntry == Abstract!Spec

\* No process waits for another one: each ends, also when the owner of the lock
\* was killed and will never publish.
EveryHookFinishes == \A p \in Procs : <>Finished(p)

(***************************************************************************)
(* What hooks/packobjects/README.md says without that restriction.         *)
(***************************************************************************)
\* "Won't serve cache if cache is not complete".
WontServeIncomplete ==
  \A p \in Procs : pc[p] = "done" /\ exitCode[p] = 0 => delivered[p] = "full"
=============================================================================
