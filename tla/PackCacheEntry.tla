---------------------------- MODULE PackCacheEntry ----------------------------
(***************************************************************************)
(* What the pack-objects hook promises about one cache entry: it is built  *)
(* by one process at a time, it may be given up while it is being built,   *)
(* it is final once it is ready, and only a ready entry answers a request. *)
(* A request that finds no ready entry is answered by running the command. *)
(* All this holds until a ready entry cannot be opened.                    *)
(***************************************************************************)
CONSTANT Procs

VARIABLES
  entry,    \* "absent", "building" or "ready"
  answer,   \* answer[p]: how the request of p was answered, "none" until then
  broken    \* a ready entry could not be opened

Init ==
  /\ entry = "absent"
  /\ answer = [p \in Procs |-> "none"]
  /\ ~broken

Answer(p, how) ==
  /\ answer[p] = "none"
  /\ answer' = [answer EXCEPT ![p] = how]

\* The lock is taken.
Begin == entry = "absent" /\ entry' = "building" /\ UNCHANGED answer

\* The builder failed and releases the lock.
GiveUp == entry = "building" /\ entry' = "absent" /\ UNCHANGED answer

\* The builder publishes what it has also sent to its own client.
Publish(p) == entry = "building" /\ entry' = "ready" /\ Answer(p, "ran")

Hit(p) == entry = "ready" /\ Answer(p, "cached") /\ UNCHANGED entry

Run(p) == Answer(p, "ran") /\ UNCHANGED entry

Fail(p) == Answer(p, "failed") /\ UNCHANGED entry

Serve ==
  /\ ~broken /\ ~broken'
  /\ \/ Begin
     \/ GiveUp
     \/ \E p \in Procs : Publish(p) \/ Hit(p) \/ Run(p) \/ Fail(p)

\* From here on nothing is promised, and nothing repairs it.
Break == broken'

Next == Serve \/ Break

Spec == Init /\ [][Next]_<<entry, answer, broken>>
=============================================================================
