------------------------------ MODULE Authorizer ------------------------------
(***************************************************************************)
(* The request authorizer of github/authorizer.go: whether a token may     *)
(* read a repository is asked of GitHub and remembered for 15 minutes.     *)
(*                                                                         *)
(* The module follows one key of the cache (a token and a repository) and  *)
(* the requests that present it at the same time.  GitHub grants and       *)
(* revokes access at any time; its answers fail, and an answer can lie a   *)
(* while before it is stored.  ttlcache is external: it drops an entry     *)
(* when its time is up, or earlier when the cache is full.                 *)
(***************************************************************************)
EXTENDS Naturals

CONSTANTS
  Requests,    \* the requests that present the token
  TTL,         \* the time to live of an entry, 15 minutes in the code
  MaxFlight    \* the longest time between an answer of GitHub and its Set

ASSUME TTLAssumption == TTL \in Nat \ {0} /\ MaxFlight \in Nat

VARIABLES
  access,      \* GitHub lets the token read the repository
  caching,     \* authorizer.cache is not nil
  cache,       \* what it holds for the key: "none", "allow", "deny"
  age,         \* time since that was set
  at,          \* at[r]: where RequestAuthorizer is
  answer,      \* answer[r]: what isTokenValid returns
  flight,      \* flight[r]: time since GitHub gave that answer
  \* History.
  lost,        \* time since the token had access
  refused,     \* time since GitHub last refused the token, or would have
  broken       \* time since a call of GitHub last broke off

authVars == <<access, caching, cache, age, at, answer, flight, lost, refused, broken>>

\* Times beyond the horizon are all alike.
Horizon == TTL + MaxFlight
Later(t) == IF t < Horizon THEN t + 1 ELSE t

Answers == {"none", "allow", "deny", "unavailable"}

AuthTypeOK ==
  /\ access \in BOOLEAN /\ caching \in BOOLEAN
  /\ cache \in {"none", "allow", "deny"} /\ age \in 0..(TTL - 1)
  /\ cache # "none" => caching
  /\ at \in [Requests -> {"idle", "ask", "answered", "allowed", "denied"}]
  /\ answer \in [Requests -> Answers] /\ flight \in [Requests -> 0..MaxFlight]
  /\ \A r \in Requests : answer[r] # "none" <=> at[r] = "answered"
  /\ lost \in 0..Horizon /\ refused \in 0..Horizon /\ broken \in 0..Horizon

AuthInit ==
  /\ access \in BOOLEAN /\ caching \in BOOLEAN
  /\ cache = "none" /\ age = 0
  /\ at = [r \in Requests |-> "idle"]
  /\ answer = [r \in Requests |-> "none"] /\ flight = [r \in Requests |-> 0]
  /\ lost = (IF access THEN 0 ELSE Horizon) /\ refused = (IF access THEN Horizon ELSE 0)
  /\ broken = Horizon

GoAuth(r, from, to) == at[r] = from /\ at' = [at EXCEPT ![r] = to]

(***************************************************************************)
(* The environment: GitHub's settings, the clock, the cache's own steps.   *)
(***************************************************************************)
ChangeAccess ==
  /\ access' = ~access
  /\ lost' = 0 /\ refused' = 0
  /\ UNCHANGED <<caching, cache, age, at, answer, flight, broken>>

AuthTick ==
  /\ \A r \in Requests : at[r] = "answered" => flight[r] < MaxFlight
  /\ lost' = IF access THEN 0 ELSE Later(lost)
  /\ refused' = IF access THEN Later(refused) ELSE 0
  /\ broken' = Later(broken)
  /\ flight' = [r \in Requests |-> IF at[r] = "answered" THEN flight[r] + 1 ELSE 0]
  /\ \/ cache # "none" /\ age + 1 < TTL /\ age' = age + 1 /\ UNCHANGED cache
     \/ (cache = "none" \/ age + 1 = TTL) /\ age' = 0 /\ cache' = "none"
  /\ UNCHANGED <<access, caching, at, answer>>

Evict ==
  /\ cache # "none"
  /\ cache' = "none" /\ age' = 0
  /\ UNCHANGED <<access, caching, at, answer, flight, lost, refused, broken>>

(***************************************************************************)
(* RequestAuthorizer, isAuthorized and isTokenValid.                       *)
(***************************************************************************)
\* No Authorization header, another user name, or a path without owner and name.
Malformed(r) ==
  /\ GoAuth(r, "idle", "denied")
  /\ UNCHANGED <<access, caching, cache, age, answer, flight, lost, refused, broken>>

\* Mutant: a hit extends the life of the entry.
CacheHitExtends(r) ==
  /\ cache # "none"
  /\ GoAuth(r, "idle", IF cache = "allow" THEN "allowed" ELSE "denied")
  /\ age' = 0
  /\ UNCHANGED <<access, caching, cache, answer, flight, lost, refused, broken>>

\* SkipTTLExtensionOnHit: a hit leaves the age alone.
CacheHit(r) ==
  /\ cache # "none"
  /\ GoAuth(r, "idle", IF cache = "allow" THEN "allowed" ELSE "denied")
  /\ UNCHANGED <<access, caching, cache, age, answer, flight, lost, refused, broken>>

CacheMiss(r) ==
  /\ cache = "none"
  /\ GoAuth(r, "idle", "ask")
  /\ UNCHANGED <<access, caching, cache, age, answer, flight, lost, refused, broken>>

Answered(r, what) ==
  /\ GoAuth(r, "ask", "answered")
  /\ answer' = [answer EXCEPT ![r] = what]
  /\ UNCHANGED <<access, caching, cache, age, flight, lost>>

\* GitHub answers: 200, or a status that refuses the token.
Validate(r) == Answered(r, IF access THEN "allow" ELSE "deny") /\ UNCHANGED <<refused, broken>>

\* An answer other than 200 although the token has access (429, say, or 501).
Refuses(r) == Answered(r, "deny") /\ refused' = 0 /\ UNCHANGED broken

\* The request cannot be made, the connection fails, or the body ends before its time:
\* cached as a denial, although GitHub has said nothing of the token.
BreaksOff(r) == Answered(r, "deny") /\ broken' = 0 /\ UNCHANGED refused

\* 5xx but 501: denied, but not to be cached.
Unavailable(r) == Answered(r, "unavailable") /\ UNCHANGED <<refused, broken>>

\* Mutant: every result is cached.
StoreAnswerAlways(r) ==
  /\ GoAuth(r, "answered", IF answer[r] = "allow" THEN "allowed" ELSE "denied")
  /\ cache' = IF caching THEN (IF answer[r] = "allow" THEN "allow" ELSE "deny") ELSE "none"
  /\ age' = 0
  /\ answer' = [answer EXCEPT ![r] = "none"] /\ flight' = [flight EXCEPT ![r] = 0]
  /\ UNCHANGED <<access, caching, lost, refused, broken>>

\* Set starts a new life for the entry, whatever another request has stored meanwhile.
StoreAnswer(r) ==
  /\ GoAuth(r, "answered", IF answer[r] = "allow" THEN "allowed" ELSE "denied")
  /\ IF caching /\ answer[r] # "unavailable"
     THEN cache' = answer[r] /\ age' = 0
     ELSE UNCHANGED <<cache, age>>
  /\ answer' = [answer EXCEPT ![r] = "none"] /\ flight' = [flight EXCEPT ![r] = 0]
  /\ UNCHANGED <<access, caching, lost, refused, broken>>

\* The request is over, and the token comes with another one.
NextRequest(r) ==
  /\ GoAuth(r, "allowed", "idle") \/ GoAuth(r, "denied", "idle")
  /\ UNCHANGED <<access, caching, cache, age, answer, flight, lost, refused, broken>>

AuthNext ==
  \/ ChangeAccess \/ AuthTick \/ Evict
  \/ \E r \in Requests :
       \/ Malformed(r) \/ CacheHit(r) \/ CacheMiss(r)
       \/ Validate(r) \/ Refuses(r) \/ BreaksOff(r) \/ Unavailable(r)
       \/ StoreAnswer(r) \/ NextRequest(r)

AuthSpec == AuthInit /\ [][AuthNext]_authVars

(***************************************************************************)
(* Properties.                                                             *)
(***************************************************************************)
\* A revocation takes effect: a request is let in only if the token had access less than
\* a time to live (and the flight of an answer) ago, however often the token is used and
\* in whatever order concurrent answers are stored.
AllowIsRecent ==
  [][\A r \in Requests : at[r] # "allowed" /\ at'[r] = "allowed" => lost < Horizon]_authVars

\* What a denial in the cache goes back to, of less than a time to live (and a flight) ago:
\* an answer that refused the token, or a call that broke off.  So an outage is remembered
\* when it breaks the connection, and only for that long; one that GitHub itself reports, by
\* a 5xx status, is never remembered.
DenyIsRecent == cache = "deny" => refused < Horizon \/ broken < Horizon
=============================================================================
