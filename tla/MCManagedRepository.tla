------------------------- MODULE MCManagedRepository -------------------------
(***************************************************************************)
(* Instances of ManagedRepository for TLC.                                 *)
(***************************************************************************)
EXTENDS ManagedRepository, TLC

CONSTANTS c1, c2, c3, trunk, tag

Symmetry == Permutations(Requests)

\* c2 and c3 follow c1: moving a ref from c2 to c3 is a push by force.
MCReach == (c1 :> {c1}) @@ (c2 :> {c1, c2}) @@ (c3 :> {c1, c3})

\* c3 follows c2, c2 follows c1.
MCChain == (c1 :> {c1}) @@ (c2 :> {c1, c2}) @@ (c3 :> {c1, c2, c3})

MCPair == (c1 :> {c1}) @@ (c2 :> {c1, c2})

\* Only a head, at the first commit or at the second.
MCTrunk == trunk :> c1
MCTrunk2 == trunk :> c2

MCUpstream == (trunk :> c2) @@ (tag :> c1)

TipOnly == {<< <<trunk>>, {} >>}   \* the tip of a head
NameOnly == {<< <<>>, {trunk} >>}  \* a want-ref line
=============================================================================
