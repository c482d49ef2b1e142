------------------------------- MODULE Limits -------------------------------
(***************************************************************************)
(* The limits on how often somebody may call: the sliding window of every  *)
(* authenticated request, the one of registrations from an address, both   *)
(* counted in rate_limit_buckets, and the limit on requests for one-time   *)
(* codes, counted in memory.                                               *)
(*                                                                         *)
(* Time is counted in ticks of no particular length; a call takes none.    *)
(* Ratios are kept exact by multiplying with the window.                   *)
(*                                                                         *)
(* The middleware lets a call pass uncounted when its caller asks for it,  *)
(* with the header X-RateLimit-Skip: 1, so no limit binds a caller who     *)
(* does: what is promised below is about the calls without the header.     *)
(* It also does so when the database fails, or when the operator turns the *)
(* limits off: neither happens here.                                       *)
(***************************************************************************)
EXTENDS Integers, FiniteSets, Functions, FiniteSetsExt

CONSTANTS
  UserIds, Ips, Emails,
  Windows,          \* the lengths of the middleware's windows, in ticks
  RATE_LIMIT_BURSTS,  \* window -> the limit when the administrator set none
  LimitInputs,      \* bound: the limits the administrator sets
  RegisterWindow, RegisterLimit,
  IP_WINDOW, IP_LIMIT, EMAIL_WINDOW, EMAIL_LIMIT,
  MaxTime,          \* bound: the last tick
  NULL

ASSUME LimitsAssumption ==
  /\ Windows \subseteq Nat \ {0} /\ IsFiniteSet(Windows) /\ RegisterWindow \in Nat \ {0}
  /\ RATE_LIMIT_BURSTS \in [Windows -> Nat]
  /\ LimitInputs \subseteq Nat /\ RegisterLimit \in Nat
  /\ \E most \in LimitInputs : \A limit \in LimitInputs : limit <= most
  /\ {IP_WINDOW, IP_LIMIT, EMAIL_WINDOW, EMAIL_LIMIT} \subseteq Nat \ {0}
  /\ MaxTime \in Nat
  /\ UserIds \intersect Ips = {} /\ Ips \intersect Emails = {} /\ NULL \notin Nat

VARIABLES
  now,
  rate_limit_buckets,  \* <<key, window, start>> -> [request_count, expires_at]
  config,              \* window -> the limit that was set, or NULL
  ipBuckets, emailBuckets,  \* address -> [count, resetAt]; the process's memory
  passed,   \* key -> tick -> calls that the windows let through until then, the
            \* tick included, since the key's rows were cleared; the ones that
            \* skipped the windows are not among them
  asked     \* likewise the requests for codes counted, of addresses and of e-mails

vars == <<now, rate_limit_buckets, config, ipBuckets, emailBuckets, passed, asked>>

Keys == UserIds \union Ips

Never == [t \in 0..MaxTime |-> 0]

Empty == [x \in {} |-> NULL]

Init ==
  /\ now = 0
  /\ rate_limit_buckets = Empty
  /\ config = [w \in Windows |-> NULL]
  /\ ipBuckets = Empty /\ emailBuckets = Empty
  /\ passed = [k \in Keys |-> Never]
  /\ asked = [x \in Ips \union Emails |-> Never]

(***************************************************************************)
(* The sliding window                                                      *)
(***************************************************************************)
bucketStart(t, window) == (t \div window) * window

readCount(key, window, start) ==
  IF <<key, window, start>> \in DOMAIN rate_limit_buckets
  THEN rate_limit_buckets[<<key, window, start>>].request_count
  ELSE 0

\* Mutant: a fixed window, which forgets the one before.
slidingWindowEstimate_fixed(window, elapsed, previous, current) == current * window

\* window * (previous_count * weight + current_count)
slidingWindowEstimate(window, elapsed, previous, current) ==
  previous * (window - elapsed) + current * window

scaledEstimate(key, window) ==
  slidingWindowEstimate(window, now - bucketStart(now, window),
                        readCount(key, window, bucketStart(now - window, window)),
                        readCount(key, window, bucketStart(now, window)))

\* estimated >= limit rejects.
admits(key, window, limit) == scaledEstimate(key, window) < limit * window

\* Mutant: a row expires as its own window ends.
upsertCount_expiresEarly(key, windows) ==
  LET fresh == {<<key, w, bucketStart(now, w)>> : w \in windows}
  IN  rate_limit_buckets' =
        [b \in DOMAIN rate_limit_buckets \union fresh |->
           CASE b \notin fresh -> rate_limit_buckets[b]
             [] b \in fresh /\ b \in DOMAIN rate_limit_buckets ->
                  [rate_limit_buckets[b] EXCEPT !.request_count = @ + 1]
             [] OTHER -> [request_count |-> 1, expires_at |-> b[3] + b[2]]]

\* INSERT ... ON CONFLICT DO UPDATE, for each of the windows that admit.
upsertCount(key, windows) ==
  LET row(w) == <<key, w, bucketStart(now, w)>>
      fresh == {row(w) : w \in windows}
  IN  rate_limit_buckets' =
        [b \in DOMAIN rate_limit_buckets \union fresh |->
           CASE b \notin fresh -> rate_limit_buckets[b]
             [] b \in fresh /\ b \in DOMAIN rate_limit_buckets ->
                  [rate_limit_buckets[b] EXCEPT !.request_count = @ + 1]
             [] OTHER -> [request_count |-> 1, expires_at |-> b[3] + 2 * b[2]]]

\* One more call, at this moment.
calledNow(calls) == [t \in 0..MaxTime |-> IF t < now THEN calls[t] ELSE calls[t] + 1]

letThrough(key) == passed' = [passed EXCEPT ![key] = calledNow(@)]

\* cache.getOrDefault: the cache lives for no time, each read is fresh.
limitOf(window) == IF config[window] = NULL THEN RATE_LIMIT_BURSTS[window] ELSE config[window]

\* All the windows are asked; the ones that admit count the call, even when
\* another one denies it.
slidingWindowChecks(u) ==
  LET admitting == {w \in Windows : admits(u, w, limitOf(w))}
  IN  /\ upsertCount(u, admitting)
      /\ IF admitting = Windows THEN letThrough(u) ELSE UNCHANGED passed
      /\ UNCHANGED <<now, config, ipBuckets, emailBuckets, asked>>

\* A call that carries the header goes on to its handler, and nothing remembers it.
rateLimitMiddleware(u, skip) ==
  IF skip THEN UNCHANGED vars ELSE slidingWindowChecks(u)

\* Registration: createRateLimit(...).check with a single window.
registerCheckOrThrow(ip) ==
  /\ admits(ip, RegisterWindow, RegisterLimit)
  /\ upsertCount(ip, {RegisterWindow})
  /\ letThrough(ip)
  /\ UNCHANGED <<now, config, ipBuckets, emailBuckets, asked>>

\* The administrator sets a limit.
config_set(window, limit) ==
  /\ config' = [config EXCEPT ![window] = limit]
  /\ UNCHANGED <<now, rate_limit_buckets, ipBuckets, emailBuckets, passed, asked>>

\* The administrator forgives a user.
clearForUser(u) ==
  /\ rate_limit_buckets' =
       RestrictDomain(rate_limit_buckets, LAMBDA b : b[1] # u)
  /\ passed' = [passed EXCEPT ![u] = Never]
  /\ UNCHANGED <<now, config, ipBuckets, emailBuckets, asked>>

\* The hourly job; taken at any moment, the hour included.
cleanupRateLimitBuckets ==
  /\ rate_limit_buckets' =
       RestrictDomain(rate_limit_buckets,
                      LAMBDA b : ~(rate_limit_buckets[b].expires_at < now))
  /\ UNCHANGED <<now, config, ipBuckets, emailBuckets, passed, asked>>

(***************************************************************************)
(* Requests for one-time codes                                             *)
(***************************************************************************)
live(buckets, x) == x \in DOMAIN buckets /\ buckets[x].resetAt > now

\* Mutant: one more than the limit.
exhausted_offByOne(buckets, x, limit) == live(buckets, x) /\ buckets[x].count > limit

exhausted(buckets, x, limit) == live(buckets, x) /\ buckets[x].count >= limit

counted(buckets, x, window) ==
  [y \in DOMAIN buckets \union {x} |->
     CASE y # x -> buckets[y]
       [] y = x /\ live(buckets, x) -> [buckets[x] EXCEPT !.count = @ + 1]
       [] OTHER -> [count |-> 1, resetAt |-> now + window]]

\* The address is counted before the e-mail is looked at.
checkOtpRequestLimit(ip, email) ==
  /\ ~exhausted(ipBuckets, ip, IP_LIMIT)
  /\ ipBuckets' = counted(ipBuckets, ip, IP_WINDOW)
  /\ IF exhausted(emailBuckets, email, EMAIL_LIMIT)
     THEN /\ asked' = [asked EXCEPT ![ip] = calledNow(@)]
          /\ UNCHANGED emailBuckets
     ELSE /\ asked' = [asked EXCEPT ![ip] = calledNow(@), ![email] = calledNow(@)]
          /\ emailBuckets' = counted(emailBuckets, email, EMAIL_WINDOW)
  /\ UNCHANGED <<now, rate_limit_buckets, config, passed>>

\* The memory of the process is lost; the tables are not.
Restart ==
  /\ ipBuckets' = Empty /\ emailBuckets' = Empty
  /\ asked' = [x \in Ips \union Emails |-> Never]
  /\ UNCHANGED <<now, rate_limit_buckets, config, passed>>

Tick ==
  /\ now < MaxTime
  /\ now' = now + 1
  /\ UNCHANGED <<rate_limit_buckets, config, ipBuckets, emailBuckets, passed, asked>>

Next ==
  \/ \E u \in UserIds, skip \in BOOLEAN : rateLimitMiddleware(u, skip)
  \/ \E u \in UserIds : clearForUser(u)
  \/ \E ip \in Ips : registerCheckOrThrow(ip)
  \/ \E w \in Windows, limit \in LimitInputs : config_set(w, limit)
  \/ cleanupRateLimitBuckets
  \/ \E ip \in Ips, email \in Emails : checkOtpRequestLimit(ip, email)
  \/ Restart
  \/ Tick

Spec == Init /\ [][Next]_vars

-----------------------------------------------------------------------------
(***************************************************************************)
(* Properties                                                              *)
(***************************************************************************)
calledUntil(calls, t) ==
  IF t < 0 THEN 0 ELSE IF t > MaxTime THEN calls[MaxTime] ELSE calls[t]

\* The two ticks included.
CalledBetween(calls, from, to) == calledUntil(calls, to) - calledUntil(calls, from - 1)

HighestLimit(window) == Max(LimitInputs \union {RATE_LIMIT_BURSTS[window]})

\* What a sliding window is for, and what a fixed one does not give: no two
\* bursts fall on the two sides of the end of a window.  Two ticks that adjoin
\* hold no more calls than the limit; each tick that lies between the first
\* and the last adds no more than its share of the limit.
Smooth(calls, window, limit) ==
  \A gap \in 0..(window - 1) :
    window * CalledBetween(calls, now - gap - 1, now) < limit * (window + gap) + window

\* The middleware keeps the calls that a user makes without the header smooth in
\* each of its windows, also when the administrator changes a limit in between,
\* and whatever calls with the header come between them; and so are the
\* registrations that come from one address, which no header lets through.
BurstsAreSmooth ==
  /\ \A u \in UserIds, w \in Windows : Smooth(passed[u], w, HighestLimit(w))
  /\ \A ip \in Ips : Smooth(passed[ip], RegisterWindow, RegisterLimit)

\* The job that deletes expired rows forgives nobody: it changes no count that
\* an estimate, now or at a later tick, is made of.
CleanupIsInvisible ==
  [][cleanupRateLimitBuckets =>
       \A key \in Keys, w \in Windows \union {RegisterWindow} : \A t \in now..MaxTime :
         \A start \in {bucketStart(t, w), bucketStart(t - w, w)} :
           readCount(key, w, start)' = readCount(key, w, start)]_vars

\* While the process runs, no stretch of the length of a window holds twice the
\* limit of requests for codes.  One code a window for an e-mail keeps two codes
\* a window apart: Accounts counts on it when it takes the newest code for the
\* one that was sent last.
CodesAreSpaced ==
  /\ \A ip \in Ips :
       CalledBetween(asked[ip], now - IP_WINDOW + 1, now) <= 2 * IP_LIMIT - 1
  /\ \A e \in Emails :
       CalledBetween(asked[e], now - EMAIL_WINDOW + 1, now) <= 2 * EMAIL_LIMIT - 1
=============================================================================
