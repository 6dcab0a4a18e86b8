----------------------------- MODULE TokenSource -----------------------------
(***************************************************************************)
(* The source of the server's own access token, github/token.go and        *)
(* github/app.go: Token() returns the current token, or asks GitHub for a  *)
(* new one when it has expired or will do so soon.  Callers share the      *)
(* source; the lock is held while GitHub is asked.                         *)
(***************************************************************************)
EXTENDS Naturals

CONSTANTS
  Callers, NoCaller,  \* the goroutines that need a token
  Life,               \* how long a new token lives
  ExpiryDelta,        \* tokenExpiryDelta
  OauthDelta,         \* the margin of oauth2's Valid, 10 seconds
  MaxAnswer,          \* how long an answer of GitHub with a new token takes
  MaxUse              \* how long a caller uses a token

ASSUME CallerAssumption == NoCaller \notin Callers
ASSUME LifeAssumption ==
  /\ Life \in Nat /\ ExpiryDelta \in Nat /\ OauthDelta \in Nat
  /\ MaxAnswer \in Nat /\ MaxUse \in Nat
  /\ MaxUse < ExpiryDelta /\ ExpiryDelta + MaxAnswer <= Life

VARIABLES
  mu,        \* who holds the lock
  token,     \* ts.token: "nil", "empty" (no access token, no expiry) or "good"
  left,      \* what is left of its life
  tp,        \* tp[c]: where a caller is
  got,       \* got[c]: the token that Token() returned to it; the error is always nil
  gotLeft,   \* what is left of the life of that one
  used       \* used[c]: how long it has been in use

tokenVars == <<mu, token, left, tp, got, gotLeft, used>>

Tokens == {"nil", "empty", "good"}

TokenTypeOK ==
  /\ mu \in Callers \cup {NoCaller}
  /\ token \in Tokens /\ left \in 0..Life
  /\ tp \in [Callers -> {"idle", "wait", "check", "generate", "use"}]
  /\ \A c \in Callers : mu = c <=> tp[c] \in {"check", "generate"}
  /\ got \in [Callers -> Tokens] /\ gotLeft \in [Callers -> 0..Life]
  /\ used \in [Callers -> 0..MaxUse]

TokenInit ==
  /\ mu = NoCaller /\ token = "nil" /\ left = 0
  /\ tp = [c \in Callers |-> "idle"]
  /\ got = [c \in Callers |-> "nil"] /\ gotLeft = [c \in Callers |-> 0]
  /\ used = [c \in Callers |-> 0]

GoToken(c, from, to) == tp[c] = from /\ tp' = [tp EXCEPT ![c] = to]

Less(t) == IF t > 0 THEN t - 1 ELSE 0

\* No caller uses a token longer than MaxUse; asking GitHub may take any time.
TokenTick ==
  /\ \A c \in Callers : tp[c] = "use" => used[c] < MaxUse
  /\ left' = Less(left) /\ gotLeft' = [c \in Callers |-> Less(gotLeft[c])]
  /\ used' = [c \in Callers |-> IF tp[c] = "use" THEN used[c] + 1 ELSE 0]
  /\ UNCHANGED <<mu, token, tp, got>>

CallToken(c) == GoToken(c, "idle", "wait") /\ UNCHANGED <<mu, token, left, got, gotLeft, used>>

Lock(c) ==
  /\ mu = NoCaller
  /\ GoToken(c, "wait", "check")
  /\ mu' = c
  /\ UNCHANGED <<token, left, got, gotLeft, used>>

\* The deferred Unlock, and what the caller gets.
ReturnToken(c, from, what, life) ==
  /\ GoToken(c, from, "use")
  /\ mu' = NoCaller
  /\ got' = [got EXCEPT ![c] = what] /\ gotLeft' = [gotLeft EXCEPT ![c] = life]
  /\ UNCHANGED used

Valid == token = "good" /\ left >= OauthDelta

\* Mutant: a token that is valid is good enough.
ReuseTokenLate(c) ==
  /\ Valid
  /\ ReturnToken(c, "check", token, left)
  /\ UNCHANGED <<token, left>>

ReuseToken(c) ==
  /\ Valid /\ left >= ExpiryDelta
  /\ ReturnToken(c, "check", token, left)
  /\ UNCHANGED <<token, left>>

\* The old token is given up before there is a new one.
DiscardToken(c) ==
  /\ ~(Valid /\ left >= ExpiryDelta)
  /\ GoToken(c, "check", "generate")
  /\ token' = "nil" /\ left' = 0
  /\ UNCHANGED <<mu, got, gotLeft, used>>

\* The life of the token begins at GitHub, before the answer arrives.  What is left of it
\* is not looked at: a slower answer than MaxAnswer would be returned all the same.
Generated(c) ==
  \E life \in (Life - MaxAnswer)..Life :
    /\ ReturnToken(c, "generate", "good", life)
    /\ token' = "good" /\ left' = life

\* An expiry that cannot be parsed: an empty token and no error.
GeneratedEmpty(c) ==
  /\ ReturnToken(c, "generate", "empty", 0)
  /\ token' = "empty" /\ left' = 0

\* Mutant: an early return that leaves the lock.
GenerateFailsLocked(c) ==
  /\ GoToken(c, "generate", "use")
  /\ got' = [got EXCEPT ![c] = "nil"] /\ gotLeft' = [gotLeft EXCEPT ![c] = 0]
  /\ UNCHANGED <<mu, token, left, used>>

\* The signature, the call, the status or the body fails: nil, and no error either.
GenerateFails(c) ==
  /\ ReturnToken(c, "generate", "nil", 0)
  /\ UNCHANGED <<token, left>>

\* The caller is through with the token.
EndUse(c) ==
  /\ GoToken(c, "use", "idle")
  /\ got' = [got EXCEPT ![c] = "nil"] /\ gotLeft' = [gotLeft EXCEPT ![c] = 0]
  /\ used' = [used EXCEPT ![c] = 0]
  /\ UNCHANGED <<mu, token, left>>

GetToken(c) ==
  \/ ReuseToken(c) \/ DiscardToken(c)
  \/ Generated(c) \/ GeneratedEmpty(c) \/ GenerateFails(c)

TokenNext == TokenTick \/ \E c \in Callers : CallToken(c) \/ Lock(c) \/ GetToken(c) \/ EndUse(c)

\* Calls of GitHub come back, and a sync.Mutex does not starve who waits for it.
TokenFairness == \A c \in Callers : WF_tokenVars(GetToken(c)) /\ SF_tokenVars(Lock(c))

TokenSpec == TokenInit /\ [][TokenNext]_tokenVars /\ TokenFairness

(***************************************************************************)
(* Properties.                                                             *)
(***************************************************************************)
\* A token lasts as long as whoever got it needs it, also when it was generated for
\* another caller long before and has been shared since.
TokenOutlivesUse == \A c \in Callers : tp[c] = "use" /\ got[c] = "good" => gotLeft[c] > 0

\* Every call of Token() returns, also those that wait while GitHub fails another one.
EveryCallReturns == \A c \in Callers : tp[c] = "wait" ~> tp[c] = "use"
=============================================================================
