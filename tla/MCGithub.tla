------------------------------- MODULE MCGithub -------------------------------
(***************************************************************************)
(* The github package for TLC.  Authorizer and TokenSource do not          *)
(* interact, so a behaviour exercises one of them.                         *)
(***************************************************************************)
EXTENDS Authorizer, TokenSource

VARIABLE part

vars == <<part, authVars, tokenVars>>

TypeOK == part \in {"authorizer", "token source"} /\ AuthTypeOK /\ TokenTypeOK

Init ==
  /\ part \in {"authorizer", "token source"}
  /\ AuthInit /\ TokenInit

Next ==
  /\ UNCHANGED part
  /\ \/ part = "authorizer" /\ AuthNext /\ UNCHANGED tokenVars
     \/ part = "token source" /\ TokenNext /\ UNCHANGED authVars

Spec == Init /\ [][Next]_vars /\ TokenFairness
=============================================================================
