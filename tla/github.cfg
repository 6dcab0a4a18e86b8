\* Three requests with one token; three callers of one token source.
SPECIFICATION Spec
CONSTANTS
  Requests = {r1, r2, r3}
  TTL = 3
  MaxFlight = 1
  Callers = {t1, t2, t3}
  NoCaller = NoCaller
  Life = 4
  ExpiryDelta = 2
  OauthDelta = 1
  MaxAnswer = 1
  MaxUse = 1
INVARIANTS TypeOK DenyIsRecent TokenOutlivesUse
PROPERTIES AllowIsRecent EveryCallReturns
