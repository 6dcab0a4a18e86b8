----------------------------- MODULE GithubProofs -----------------------------
(***************************************************************************)
(* Proofs about the github package: what the cache of the authorizer and   *)
(* the token source guarantee for any number of requests and callers, any  *)
(* time to live and any margin before the expiry of a token.               *)
(***************************************************************************)
EXTENDS MCGithub, TLAPS

-----------------------------------------------------------------------------
(***************************************************************************)
(* The authorizer.  An answer is as old as its flight, an entry at most a  *)
(* flight older than its age, and what GitHub says now is true now.        *)
(***************************************************************************)
NowInv == (access => lost = 0) /\ (~access => refused = 0)

AnswerInv ==
  \A r \in Requests :
    /\ answer[r] = "allow" => lost <= flight[r]
    /\ answer[r] = "deny" => refused <= flight[r] \/ broken <= flight[r]

CacheInv ==
  /\ cache = "allow" => lost <= age + MaxFlight
  /\ cache = "deny" => refused <= age + MaxFlight \/ broken <= age + MaxFlight

AuthInv == AuthTypeOK /\ NowInv /\ AnswerInv /\ CacheInv

\* The counters of history never pass the horizon, and grow by at most one.
LEMMA LaterBounded ==
  ASSUME NEW t \in 0..Horizon
  PROVE  Later(t) \in 0..Horizon /\ Later(t) <= t + 1
BY TTLAssumption DEF Later, Horizon

\* Each step of the authorizer, of GitHub and of the clock keeps the types.
LEMMA AuthTypeStep ==
  ASSUME AuthTypeOK, [AuthNext]_authVars
  PROVE  AuthTypeOK'
<1> USE TTLAssumption DEF AuthTypeOK, Answers, Horizon
<1>1. CASE UNCHANGED authVars
  BY <1>1 DEF authVars
<1>2. CASE ChangeAccess
  BY <1>2 DEF ChangeAccess
<1>3. CASE AuthTick
  <2>1. lost' \in 0..Horizon /\ refused' \in 0..Horizon /\ broken' \in 0..Horizon
    BY <1>3, LaterBounded DEF AuthTick
  <2>2. flight' \in [Requests -> 0..MaxFlight]
    BY <1>3 DEF AuthTick
  <2>3. cache' \in {"none", "allow", "deny"} /\ age' \in 0..(TTL - 1) /\ (cache' # "none" => caching')
    BY <1>3 DEF AuthTick
  <2> QED
    BY <1>3, <2>1, <2>2, <2>3 DEF AuthTick
<1>4. CASE Evict
  BY <1>4 DEF Evict
<1>5. ASSUME NEW r \in Requests, Malformed(r) \/ CacheHit(r) \/ CacheMiss(r) \/ NextRequest(r)
      PROVE  AuthTypeOK'
  BY <1>5 DEF Malformed, CacheHit, CacheMiss, NextRequest, GoAuth
<1>6. ASSUME NEW r \in Requests, Validate(r) \/ Refuses(r) \/ BreaksOff(r) \/ Unavailable(r)
      PROVE  AuthTypeOK'
  BY <1>6 DEF Validate, Refuses, BreaksOff, Unavailable, Answered, GoAuth
<1>7. ASSUME NEW r \in Requests, StoreAnswer(r)
      PROVE  AuthTypeOK'
  BY <1>7 DEF StoreAnswer, GoAuth
<1> QED
  BY <1>1, <1>2, <1>3, <1>4, <1>5, <1>6, <1>7 DEF AuthNext

\* No step makes an answer or an entry of the cache older than its own time says.
LEMMA AuthStep ==
  ASSUME AuthInv, [AuthNext]_authVars
  PROVE  AuthInv'
<1> USE TTLAssumption DEF AuthInv, NowInv, AnswerInv, CacheInv
<1>0. AuthTypeOK'
  BY AuthTypeStep
<1>1. CASE UNCHANGED authVars
  BY <1>0, <1>1 DEF authVars
<1>2. CASE ChangeAccess
  BY <1>0, <1>2 DEF ChangeAccess, AuthTypeOK
<1>3. CASE AuthTick
  <2>1. lost' <= lost + 1 /\ refused' <= refused + 1 /\ broken' <= broken + 1
    BY <1>3, LaterBounded DEF AuthTick, AuthTypeOK
  <2>2. NowInv'
    BY <1>3 DEF AuthTick, AuthTypeOK
  <2>3. AnswerInv'
    BY <1>0, <1>3, <2>1 DEF AuthTick, AuthTypeOK, Horizon
  <2>4. CacheInv'
    BY <1>0, <1>3, <2>1 DEF AuthTick, AuthTypeOK, Horizon
  <2> QED
    BY <1>0, <2>2, <2>3, <2>4
<1>4. CASE Evict
  BY <1>0, <1>4 DEF Evict
<1>5. ASSUME NEW r \in Requests, Malformed(r) \/ CacheHit(r) \/ CacheMiss(r) \/ NextRequest(r)
      PROVE  AuthInv'
  BY <1>0, <1>5 DEF Malformed, CacheHit, CacheMiss, NextRequest, GoAuth
<1>6. ASSUME NEW r \in Requests, Validate(r) \/ Refuses(r) \/ BreaksOff(r) \/ Unavailable(r)
      PROVE  AuthInv'
  <2>1. CASE Validate(r) /\ access
    BY <1>0, <2>1 DEF Validate, Answered, GoAuth, AuthTypeOK
  <2>2. CASE Validate(r) /\ ~access
    BY <1>0, <2>2 DEF Validate, Answered, GoAuth, AuthTypeOK
  <2>3. CASE Refuses(r)
    BY <1>0, <2>3 DEF Refuses, Answered, GoAuth, AuthTypeOK
  <2>4. CASE BreaksOff(r)
    BY <1>0, <2>4 DEF BreaksOff, Answered, GoAuth, AuthTypeOK
  <2>5. CASE Unavailable(r)
    BY <1>0, <2>5 DEF Unavailable, Answered, GoAuth, AuthTypeOK
  <2> QED
    BY <1>6, <2>1, <2>2, <2>3, <2>4, <2>5
<1>7. ASSUME NEW r \in Requests, StoreAnswer(r)
      PROVE  AuthInv'
  <2>1. NowInv'
    BY <1>7 DEF StoreAnswer
  <2>2. AnswerInv'
    BY <1>7 DEF StoreAnswer, AuthTypeOK
  <2>3. CASE caching /\ answer[r] # "unavailable"
    <3>1. cache' = answer[r] /\ age' = 0 /\ UNCHANGED <<lost, refused, broken>>
      BY <1>7, <2>3 DEF StoreAnswer
    <3>2. flight[r] \in 0..MaxFlight /\ lost \in Nat /\ refused \in Nat /\ broken \in Nat
      BY DEF AuthTypeOK, Horizon
    <3> QED
      BY <1>0, <2>1, <2>2, <3>1, <3>2
  <2>4. CASE ~(caching /\ answer[r] # "unavailable")
    <3>1. UNCHANGED <<cache, age, lost, refused, broken>>
      BY <1>7, <2>4 DEF StoreAnswer
    <3> QED
      BY <1>0, <2>1, <2>2, <3>1
  <2> QED
    BY <2>3, <2>4
<1> QED
  BY <1>1, <1>2, <1>3, <1>4, <1>5, <1>6, <1>7 DEF AuthNext

\* The invariant holds of every behaviour of the authorizer.
LEMMA AuthInvariance == AuthSpec => []AuthInv
<1>1. AuthInit => AuthInv
  BY TTLAssumption DEF AuthInit, AuthInv, AuthTypeOK, NowInv, AnswerInv, CacheInv, Answers, Horizon
<1> QED
  BY <1>1, AuthStep, PTL DEF AuthSpec

\* The requests, the cache and the clocks of the authorizer keep their types, a nil cache
\* holds nothing, and an answer is there exactly between GitHub's call and the Set.
THEOREM AuthTyping == AuthSpec => []AuthTypeOK
<1>1. AuthInv => AuthTypeOK
  BY DEF AuthInv
<1> QED
  BY <1>1, AuthInvariance, PTL

\* However many requests share the token and in whatever order their answers are stored, a
\* denial in the cache goes back to an answer that refused the token or to a call that broke
\* off, less than a time to live and a flight ago; a 5xx answer leaves none.
THEOREM DenialsAreRecent == AuthSpec => []DenyIsRecent
<1>1. AuthInv => DenyIsRecent
  BY TTLAssumption DEF AuthInv, AuthTypeOK, CacheInv, DenyIsRecent, Horizon
<1> QED
  BY <1>1, AuthInvariance, PTL

\* A revocation takes effect for every request after a time to live and a flight, also if
\* RequestAuthorizer is called all the time.
THEOREM AllowancesAreRecent == AuthSpec => AllowIsRecent
<1>1. ASSUME AuthInv, [AuthNext]_authVars
      PROVE  [\A r \in Requests : at[r] # "allowed" /\ at'[r] = "allowed" => lost < Horizon]_authVars
  <2> SUFFICES ASSUME AuthNext, NEW r \in Requests, at[r] # "allowed", at'[r] = "allowed"
               PROVE  lost < Horizon
    BY <1>1
  <2>1. CacheHit(r) \/ StoreAnswer(r)
    BY <1>1 DEF AuthNext, ChangeAccess, AuthTick, Evict, Malformed, CacheHit, CacheMiss, Validate,
      Refuses, BreaksOff, Unavailable, Answered, StoreAnswer, NextRequest, GoAuth, AuthInv, AuthTypeOK
  <2>2. CASE CacheHit(r)
    BY <1>1, <2>2, TTLAssumption DEF CacheHit, GoAuth, AuthInv, AuthTypeOK, CacheInv, Horizon
  <2>3. CASE StoreAnswer(r)
    BY <1>1, <2>3, TTLAssumption DEF StoreAnswer, GoAuth, AuthInv, AuthTypeOK, AnswerInv, Horizon
  <2> QED
    BY <2>1, <2>2, <2>3
<1> QED
  BY <1>1, AuthInvariance, PTL DEF AuthSpec, AllowIsRecent

-----------------------------------------------------------------------------
(***************************************************************************)
(* The token source.  A good token in use started with ExpiryDelta or more *)
(* and has lost no more than the time it was used.                         *)
(***************************************************************************)
UseInv ==
  \A c \in Callers :
    /\ tp[c] # "use" => used[c] = 0
    /\ tp[c] = "use" /\ got[c] = "good" => gotLeft[c] + used[c] >= ExpiryDelta

TokenInv == TokenTypeOK /\ UseInv

\* Each step of a caller and of the clock keeps the types; in particular Token() gives the
\* lock back on every path, and only the caller that holds it is between its two ends.
LEMMA TokenTypeStep ==
  ASSUME TokenTypeOK, [TokenNext]_tokenVars
  PROVE  TokenTypeOK'
<1> USE CallerAssumption, LifeAssumption DEF TokenTypeOK, Tokens
<1>1. CASE UNCHANGED tokenVars
  BY <1>1 DEF tokenVars
<1>2. CASE TokenTick
  BY <1>2 DEF TokenTick, Less
<1>3. ASSUME NEW c \in Callers, CallToken(c)
      PROVE  TokenTypeOK'
  BY <1>3 DEF CallToken, GoToken
<1>4. ASSUME NEW c \in Callers, Lock(c)
      PROVE  TokenTypeOK'
  BY <1>4 DEF Lock, GoToken
<1>5. ASSUME NEW c \in Callers, GetToken(c)
      PROVE  TokenTypeOK'
  <2>1. CASE ReuseToken(c)
    BY <2>1 DEF ReuseToken, ReturnToken, GoToken
  <2>2. CASE DiscardToken(c)
    BY <2>2 DEF DiscardToken, GoToken
  <2>3. CASE Generated(c)
    BY <2>3 DEF Generated, ReturnToken, GoToken
  <2>4. CASE GeneratedEmpty(c)
    BY <2>4 DEF GeneratedEmpty, ReturnToken, GoToken
  <2>5. CASE GenerateFails(c)
    BY <2>5 DEF GenerateFails, ReturnToken, GoToken
  <2> QED
    BY <1>5, <2>1, <2>2, <2>3, <2>4, <2>5 DEF GetToken
<1>6. ASSUME NEW c \in Callers, EndUse(c)
      PROVE  TokenTypeOK'
  BY <1>6 DEF EndUse, GoToken
<1> QED
  BY <1>1, <1>2, <1>3, <1>4, <1>5, <1>6 DEF TokenNext

\* No step makes a token in use older than the time it has been in use.
LEMMA TokenStep ==
  ASSUME TokenInv, [TokenNext]_tokenVars
  PROVE  TokenInv'
<1> USE LifeAssumption DEF TokenInv, UseInv
<1>0. TokenTypeOK'
  BY TokenTypeStep
<1>1. CASE UNCHANGED tokenVars
  BY <1>0, <1>1 DEF tokenVars
<1>2. CASE TokenTick
  BY <1>0, <1>2 DEF TokenTick, Less, TokenTypeOK
<1>3. ASSUME NEW c \in Callers, CallToken(c) \/ Lock(c)
      PROVE  TokenInv'
  BY <1>0, <1>3 DEF CallToken, Lock, GoToken, TokenTypeOK
<1>4. ASSUME NEW c \in Callers, GetToken(c)
      PROVE  TokenInv'
  <2>1. CASE ReuseToken(c)
    BY <1>0, <2>1 DEF ReuseToken, ReturnToken, GoToken, TokenTypeOK
  <2>2. CASE DiscardToken(c)
    BY <1>0, <2>2 DEF DiscardToken, GoToken, TokenTypeOK
  <2>3. CASE Generated(c)
    BY <1>0, <2>3 DEF Generated, ReturnToken, GoToken, TokenTypeOK
  <2>4. CASE GeneratedEmpty(c) \/ GenerateFails(c)
    BY <1>0, <2>4 DEF GeneratedEmpty, GenerateFails, ReturnToken, GoToken, TokenTypeOK
  <2> QED
    BY <1>4, <2>1, <2>2, <2>3, <2>4 DEF GetToken
<1>5. ASSUME NEW c \in Callers, EndUse(c)
      PROVE  TokenInv'
  BY <1>0, <1>5 DEF EndUse, GoToken, TokenTypeOK
<1> QED
  BY <1>1, <1>2, <1>3, <1>4, <1>5 DEF TokenNext

\* The invariant holds of every behaviour of the token source.
LEMMA TokenInvariance == TokenSpec => []TokenInv
<1>1. TokenInit => TokenInv
  BY CallerAssumption, LifeAssumption DEF TokenInit, TokenInv, TokenTypeOK, UseInv, Tokens
<1> QED
  BY <1>1, TokenStep, PTL DEF TokenSpec

\* The lock, the token and the callers keep their types; the lock is held by exactly the
\* caller that is inside Token(), whatever way it leaves.
THEOREM TokenTyping == TokenSpec => []TokenTypeOK
<1>1. TokenInv => TokenTypeOK
  BY DEF TokenInv
<1> QED
  BY <1>1, TokenInvariance, PTL

\* A token that Token() has returned lasts as long as its caller uses it, for every number
\* of callers, every life of a token and every margin longer than the use.
THEOREM TokensOutliveUse == TokenSpec => []TokenOutlivesUse
<1>1. TokenInv => TokenOutlivesUse
  BY LifeAssumption DEF TokenInv, TokenTypeOK, UseInv, TokenOutlivesUse
<1> QED
  BY <1>1, TokenInvariance, PTL

-----------------------------------------------------------------------------
(***************************************************************************)
(* The package: the composition that the run checks has the behaviours of  *)
(* both parts, so that what is proved of a part holds of it.               *)
(***************************************************************************)
\* The composition implements the authorizer and the token source.
LEMMA Composition == Spec => AuthSpec /\ TokenSpec
<1>1. Init => AuthInit /\ TokenInit
  BY DEF Init
<1>2. [Next]_vars => [AuthNext]_authVars /\ [TokenNext]_tokenVars
  BY DEF Next, vars
<1> QED
  BY <1>1, <1>2, PTL DEF Spec, AuthSpec, TokenSpec

\* Type correctness of the package as a whole.
THEOREM Typing == Spec => []TypeOK
<1>1. Spec => [](part \in {"authorizer", "token source"})
  <2>1. Init => part \in {"authorizer", "token source"}
    BY DEF Init
  <2>2. part \in {"authorizer", "token source"} /\ [Next]_vars
          => (part \in {"authorizer", "token source"})'
    BY DEF Next, vars
  <2> QED
    BY <2>1, <2>2, PTL DEF Spec
<1> QED
  BY <1>1, Composition, AuthTyping, TokenTyping, PTL DEF TypeOK
=============================================================================
