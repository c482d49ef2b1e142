---------------------------- MODULE Limits_proofs ----------------------------
(***************************************************************************)
(* Proofs about the limits, for windows, limits and times of any size.     *)
(*                                                                         *)
(* IInv is about the rows and the counters alone: it gives that the job    *)
(* that deletes expired rows changes no estimate, and that no row and no   *)
(* counter in memory goes beyond its limit.  HistoryInv relates them to    *)
(* the calls that were let through: it gives that bursts are smooth and    *)
(* that the requests for one-time codes are spaced.                        *)
(***************************************************************************)
EXTENDS Limits, TLAPS

\* The limits a window can have while the administrator changes them.
LimitsOf(window) == LimitInputs \union {RATE_LIMIT_BURSTS[window]}

\* A row is about a user and a window of the middleware, or about an address
\* and the window of registrations; it expires a window after its own has
\* ended; and it counts no more calls than some limit of its window.
RowIsSound(b, row) ==
  \E key \in Keys, window \in Nat \ {0}, start \in Int :
    /\ b = <<key, window, start>>
    /\ row.expires_at = start + 2 * window
    /\ key \in UserIds => window \in Windows /\ \E limit \in LimitsOf(window) :
                                                  row.request_count <= limit
    /\ key \in Ips => window = RegisterWindow /\ row.request_count <= RegisterLimit

RowsSound ==
  /\ rate_limit_buckets \in [DOMAIN rate_limit_buckets -> [request_count : Nat, expires_at : Int]]
  /\ \A b \in DOMAIN rate_limit_buckets : RowIsSound(b, rate_limit_buckets[b])

\* A counter in the process's memory: it never goes beyond its limit.
MemorySound(buckets, limit) ==
  /\ buckets \in [DOMAIN buckets -> [count : Nat, resetAt : Nat]]
  /\ \A x \in DOMAIN buckets : buckets[x].count <= limit

\* The inductive invariant.
IInv ==
  /\ now \in Nat
  /\ config \in [Windows -> LimitInputs \union {NULL}]
  /\ RowsSound
  /\ MemorySound(ipBuckets, IP_LIMIT)
  /\ MemorySound(emailBuckets, EMAIL_LIMIT)

LEMMA InitEstablishes == Init => IInv
  BY DEF Init, IInv, Empty, RowsSound, MemorySound

-----------------------------------------------------------------------------
(* Windows.                                                                *)

\* A window starts no later than the moment it is asked for, and less than its
\* length before it; also at the moments before the first, which the previous
\* window of an early call is asked for.
LEMMA StartIs ==
  ASSUME NEW t \in Int, NEW window \in Nat \ {0}
  PROVE  /\ bucketStart(t, window) \in Int
         /\ bucketStart(t, window) <= t
         /\ t < bucketStart(t, window) + window
  <1> DEFINE quotient == t \div window
  <1>1. quotient \in Int
    OBVIOUS
  <1>2. quotient * window <= t /\ t < (quotient + 1) * window
    OBVIOUS
  <1>3. (quotient + 1) * window = quotient * window + window
    BY <1>1
  <1> QED
    BY <1>1, <1>2, <1>3 DEF bucketStart

\* A call that is admitted finds a row that counts less than the limit.
LEMMA RoomForOne ==
  ASSUME RowsSound, now \in Nat, NEW key, NEW window \in Nat \ {0}, NEW limit \in Nat,
         admits(key, window, limit)
  PROVE  readCount(key, window, bucketStart(now, window)) + 1 <= limit
  <1> DEFINE start == bucketStart(now, window)
             earlier == bucketStart(now - window, window)
             current == readCount(key, window, start)
             previous == readCount(key, window, earlier)
  <1>1. current \in Nat /\ previous \in Nat
    BY DEF readCount, RowsSound
  <1>2. start \in Int /\ now - start >= 0 /\ window - (now - start) > 0
    <2>1. now \in Int
      OBVIOUS
    <2>2. start \in Int /\ start <= now /\ now < start + window
      BY <2>1, StartIs, Zenon
    <2> HIDE DEF start
    <2> QED
      BY <2>1, <2>2
  <1>3. previous * (window - (now - start)) + current * window < limit * window
    <2>1. scaledEstimate(key, window) = slidingWindowEstimate(window, now - start, previous, current)
      BY Zenon DEF scaledEstimate
    <2>2. scaledEstimate(key, window) < limit * window
      BY Zenon DEF admits
    <2> HIDE DEF start, earlier, current, previous
    <2> QED
      BY <2>1, <2>2 DEF slidingWindowEstimate
  <1> HIDE DEF start, earlier, current, previous
  <1>4. previous * (window - (now - start)) >= 0
    BY <1>1, <1>2
  <1>5. current * window < limit * window
    <2>1. previous * (window - (now - start)) \in Int /\ current * window \in Int
      BY <1>1, <1>2
    <2> QED
      BY <1>3, <1>4, <2>1
  <1>6. current < limit
    <2>1. SUFFICES ASSUME limit <= current PROVE FALSE
      BY <1>1
    <2>2. limit * window <= current * window
      BY <1>1, <2>1
    <2> QED
      BY <1>1, <1>5, <2>2
  <1> QED
    BY <1>1, <1>6 DEF current, start

-----------------------------------------------------------------------------
(* The rows.                                                               *)

\* A call that is counted in each of some windows, none of which is full.
LEMMA CountedRows ==
  ASSUME RowsSound, now \in Nat, NEW key \in Keys, NEW windows, upsertCount(key, windows),
         \A w \in windows :
           /\ w \in Nat \ {0}
           /\ key \in UserIds =>
                w \in Windows /\ \E limit \in LimitsOf(w) :
                                  readCount(key, w, bucketStart(now, w)) + 1 <= limit
           /\ key \in Ips =>
                /\ w = RegisterWindow
                /\ readCount(key, w, bucketStart(now, w)) + 1 <= RegisterLimit
  PROVE  RowsSound'
  <1> DEFINE row(w) == <<key, w, bucketStart(now, w)>>
             fresh == {row(w) : w \in windows}
  <1>1. /\ DOMAIN rate_limit_buckets' = DOMAIN rate_limit_buckets \union fresh
        /\ \A b \in DOMAIN rate_limit_buckets \ fresh :
             rate_limit_buckets'[b] = rate_limit_buckets[b]
        /\ \A b \in fresh \intersect DOMAIN rate_limit_buckets :
             rate_limit_buckets'[b] = [rate_limit_buckets[b] EXCEPT !.request_count = @ + 1]
        /\ \A b \in fresh \ DOMAIN rate_limit_buckets :
             rate_limit_buckets'[b] = [request_count |-> 1, expires_at |-> b[3] + 2 * b[2]]
        /\ rate_limit_buckets' = [b \in DOMAIN rate_limit_buckets' |-> rate_limit_buckets'[b]]
    BY DEF upsertCount
  <1>2. ASSUME NEW b \in DOMAIN rate_limit_buckets'
        PROVE  /\ rate_limit_buckets'[b] \in [request_count : Nat, expires_at : Int]
               /\ RowIsSound(b, rate_limit_buckets'[b])
    <2>1. CASE b \notin fresh
      BY <1>1, <2>1 DEF RowsSound
    <2>2. CASE b \in fresh
      <3>1. PICK w \in windows : b = row(w)
        BY <2>2
      <3>2. b[2] = w /\ b[3] = bucketStart(now, w) /\ bucketStart(now, w) \in Int /\ w \in Nat \ {0}
        BY <3>1, StartIs
      <3>3. CASE b \in DOMAIN rate_limit_buckets
        <4>1. /\ rate_limit_buckets[b] \in [request_count : Nat, expires_at : Int]
              /\ RowIsSound(b, rate_limit_buckets[b])
              /\ readCount(key, w, bucketStart(now, w)) = rate_limit_buckets[b].request_count
          BY <3>1, <3>3 DEF RowsSound, readCount
        <4>2. rate_limit_buckets[b].expires_at = bucketStart(now, w) + 2 * w
          BY <3>1, <4>1 DEF RowIsSound
        <4>3. /\ rate_limit_buckets'[b] \in [request_count : Nat, expires_at : Int]
              /\ rate_limit_buckets'[b].expires_at = bucketStart(now, w) + 2 * w
              /\ rate_limit_buckets'[b].request_count = readCount(key, w, bucketStart(now, w)) + 1
          BY <1>1, <2>2, <3>3, <4>1, <4>2
        <4> QED
          BY <3>1, <3>2, <4>3 DEF RowIsSound
      <3>4. CASE b \notin DOMAIN rate_limit_buckets
        <4>1. /\ rate_limit_buckets'[b] = [request_count |-> 1,
                                           expires_at |-> bucketStart(now, w) + 2 * w]
              /\ readCount(key, w, bucketStart(now, w)) = 0
          BY <1>1, <2>2, <3>1, <3>2, <3>4 DEF readCount
        <4>2. /\ rate_limit_buckets'[b] \in [request_count : Nat, expires_at : Int]
              /\ rate_limit_buckets'[b].expires_at = bucketStart(now, w) + 2 * w
              /\ rate_limit_buckets'[b].request_count = readCount(key, w, bucketStart(now, w)) + 1
          BY <3>2, <4>1
        <4> QED
          BY <3>1, <3>2, <4>2 DEF RowIsSound
      <3> QED
        BY <3>3, <3>4
    <2> QED
      BY <2>1, <2>2
  <1> QED
    BY <1>1, <1>2 DEF RowsSound

LEMMA KeptRows ==
  ASSUME RowsSound, NEW ids \in SUBSET DOMAIN rate_limit_buckets,
         rate_limit_buckets' = [b \in ids |-> rate_limit_buckets[b]]
  PROVE  RowsSound'
  BY DEF RowsSound

-----------------------------------------------------------------------------
(* The counters in memory.                                                 *)

LEMMA CountedInMemory ==
  ASSUME NEW buckets, NEW limit \in Nat \ {0}, MemorySound(buckets, limit), now \in Nat,
         NEW x, ~exhausted(buckets, x, limit), NEW window \in Nat
  PROVE  MemorySound(counted(buckets, x, window), limit)
  <1> DEFINE after == counted(buckets, x, window)
  <1>1. /\ after = [y \in DOMAIN after |-> after[y]]
        /\ DOMAIN after = DOMAIN buckets \union {x}
        /\ \A y \in DOMAIN buckets \ {x} : after[y] = buckets[y]
    BY DEF counted
  <1>2. after[x] \in [count : Nat, resetAt : Nat] /\ after[x].count <= limit
    <2>1. CASE live(buckets, x)
      <3>1. x \in DOMAIN buckets /\ buckets[x] \in [count : Nat, resetAt : Nat]
        BY <2>1 DEF live, MemorySound
      <3>2. buckets[x].count < limit
        BY <2>1, <3>1 DEF exhausted
      <3>3. after[x] = [buckets[x] EXCEPT !.count = @ + 1]
        BY <2>1, <3>1 DEF counted
      <3> QED
        BY <3>1, <3>2, <3>3
    <2>2. CASE ~live(buckets, x)
      <3>1. after[x] = [count |-> 1, resetAt |-> now + window]
        BY <2>2 DEF counted
      <3> QED
        BY <3>1
    <2> QED
      BY <2>1, <2>2
  <1> HIDE DEF after
  <1>3. MemorySound(after, limit)
    BY <1>1, <1>2 DEF MemorySound
  <1> QED
    BY <1>3 DEF after

-----------------------------------------------------------------------------
(* Each step preserves the invariant.                                      *)

LEMMA MiddlewareStep ==
  ASSUME IInv, NEW u \in UserIds, slidingWindowChecks(u)
  PROVE  RowsSound'
  <1> DEFINE admitting == {w \in Windows : admits(u, w, limitOf(w))}
  <1>1. RowsSound /\ now \in Nat /\ upsertCount(u, admitting)
    BY DEF IInv, slidingWindowChecks
  <1>2. u \in Keys /\ u \notin Ips
    BY LimitsAssumption DEF Keys
  <1>3. ASSUME NEW w \in admitting
        PROVE  /\ w \in Nat \ {0} /\ w \in Windows
               /\ \E limit \in LimitsOf(w) : readCount(u, w, bucketStart(now, w)) + 1 <= limit
    <2>1. w \in Windows /\ w \in Nat \ {0} /\ admits(u, w, limitOf(w))
      BY LimitsAssumption
    <2>2. limitOf(w) \in LimitsOf(w) /\ limitOf(w) \in Nat
      BY <2>1, LimitsAssumption DEF IInv, limitOf, LimitsOf
    <2>3. readCount(u, w, bucketStart(now, w)) + 1 <= limitOf(w)
      BY <1>1, <2>1, <2>2, RoomForOne
    <2> QED
      BY <2>1, <2>2, <2>3
  <1> HIDE DEF admitting
  <1> QED
    BY <1>1, <1>2, <1>3, CountedRows

LEMMA RegistrationStep ==
  ASSUME IInv, NEW ip \in Ips, registerCheckOrThrow(ip)
  PROVE  RowsSound'
  <1>1. RowsSound /\ now \in Nat /\ upsertCount(ip, {RegisterWindow})
    BY DEF IInv, registerCheckOrThrow
  <1>2. ip \in Keys /\ ip \notin UserIds
    BY LimitsAssumption DEF Keys
  <1>3. readCount(ip, RegisterWindow, bucketStart(now, RegisterWindow)) + 1 <= RegisterLimit
    BY <1>1, LimitsAssumption, RoomForOne DEF registerCheckOrThrow
  <1>4. RegisterWindow \in Nat \ {0}
    BY LimitsAssumption
  <1> QED
    BY <1>1, <1>2, <1>3, <1>4, CountedRows

LEMMA StepPreserves == IInv /\ [Next]_vars => IInv'
  <1> SUFFICES ASSUME IInv, [Next]_vars PROVE IInv'
    OBVIOUS
  <1>1. ASSUME NEW u \in UserIds, slidingWindowChecks(u) PROVE IInv'
    BY <1>1, MiddlewareStep DEF slidingWindowChecks, IInv, MemorySound
  <1>2. ASSUME NEW u \in UserIds, clearForUser(u) PROVE IInv'
    <2>1. RowsSound'
      <3>1. rate_limit_buckets' = [b \in {c \in DOMAIN rate_limit_buckets : c[1] # u} |->
                                    rate_limit_buckets[b]]
        BY <1>2 DEF clearForUser, RestrictDomain, Restrict
      <3> QED
        BY <3>1, KeptRows DEF IInv
    <2> QED
      BY <1>2, <2>1 DEF clearForUser, IInv, MemorySound
  <1>3. ASSUME NEW ip \in Ips, registerCheckOrThrow(ip) PROVE IInv'
    BY <1>3, RegistrationStep DEF registerCheckOrThrow, IInv, MemorySound
  <1>4. ASSUME NEW w \in Windows, NEW limit \in LimitInputs, config_set(w, limit) PROVE IInv'
    BY <1>4 DEF config_set, IInv, RowsSound, MemorySound
  <1>5. CASE cleanupRateLimitBuckets
    <2>1. RowsSound'
      <3>1. rate_limit_buckets' =
              [b \in {c \in DOMAIN rate_limit_buckets : ~(rate_limit_buckets[c].expires_at < now)} |->
                 rate_limit_buckets[b]]
        BY <1>5 DEF cleanupRateLimitBuckets, RestrictDomain, Restrict
      <3> QED
        BY <3>1, KeptRows DEF IInv
    <2> QED
      BY <1>5, <2>1 DEF cleanupRateLimitBuckets, IInv, MemorySound
  <1>6. ASSUME NEW ip \in Ips, NEW email \in Emails, checkOtpRequestLimit(ip, email)
        PROVE  IInv'
    <2>1. MemorySound(ipBuckets, IP_LIMIT)'
      <3>1. MemorySound(counted(ipBuckets, ip, IP_WINDOW), IP_LIMIT)
        BY <1>6, LimitsAssumption, CountedInMemory DEF IInv, checkOtpRequestLimit
      <3>2. ipBuckets' = counted(ipBuckets, ip, IP_WINDOW)
        BY <1>6 DEF checkOtpRequestLimit
      <3> QED
        BY <3>1, <3>2 DEF MemorySound
    <2>2. MemorySound(emailBuckets, EMAIL_LIMIT)'
      <3>1. CASE exhausted(emailBuckets, email, EMAIL_LIMIT)
        BY <1>6, <3>1 DEF checkOtpRequestLimit, IInv, MemorySound
      <3>2. CASE ~exhausted(emailBuckets, email, EMAIL_LIMIT)
        <4>1. MemorySound(counted(emailBuckets, email, EMAIL_WINDOW), EMAIL_LIMIT)
          BY <3>2, LimitsAssumption, CountedInMemory DEF IInv
        <4>2. emailBuckets' = counted(emailBuckets, email, EMAIL_WINDOW)
          BY <1>6, <3>2 DEF checkOtpRequestLimit
        <4> QED
          BY <4>1, <4>2 DEF MemorySound
      <3> QED
        BY <3>1, <3>2
    <2> QED
      BY <1>6, <2>1, <2>2 DEF checkOtpRequestLimit, IInv, RowsSound
  <1>7. CASE Restart
    BY <1>7 DEF Restart, Empty, IInv, RowsSound, MemorySound
  <1>8. CASE Tick
    BY <1>8 DEF Tick, IInv, RowsSound, MemorySound
  <1>9. CASE UNCHANGED vars
    BY <1>9 DEF vars, IInv, RowsSound, MemorySound
  <1> QED
    BY <1>1, <1>2, <1>3, <1>4, <1>5, <1>6, <1>7, <1>8, <1>9 DEF Next, rateLimitMiddleware

\* The limits are respected row by row in every reachable state.
THEOREM Invariance == Spec => []IInv
  BY InitEstablishes, StepPreserves, PTL DEF Spec

\* What is counted in one window, whatever its start, and in one counter of the
\* process's memory.
WithinLimits ==
  /\ \A u \in UserIds, w \in Windows, start \in Int :
       \E limit \in LimitsOf(w) : readCount(u, w, start) <= limit
  /\ \A ip \in Ips, start \in Int : readCount(ip, RegisterWindow, start) <= RegisterLimit
  /\ \A ip \in DOMAIN ipBuckets : ipBuckets[ip].count <= IP_LIMIT
  /\ \A e \in DOMAIN emailBuckets : emailBuckets[e].count <= EMAIL_LIMIT

\* No window of the middleware counts more calls of a user than one of the
\* limits it has had or can have, though a call that another window denies is
\* counted too; none counts more registrations from an address, and no counter
\* in memory more requests for codes, than its limit.  It is the part of
\* BurstsAreSmooth and CodesAreSpaced that is about a single window.
THEOREM CountsKeepTheirLimits == Spec => []WithinLimits
  <1>1. IInv => WithinLimits
    <2> SUFFICES ASSUME IInv PROVE WithinLimits
      OBVIOUS
    <2>1. \A b \in DOMAIN rate_limit_buckets : RowIsSound(b, rate_limit_buckets[b])
      BY DEF IInv, RowsSound
    <2>2. ASSUME NEW u \in UserIds, NEW w \in Windows, NEW start \in Int
          PROVE  \E limit \in LimitsOf(w) : readCount(u, w, start) <= limit
      <3>1. CASE <<u, w, start>> \in DOMAIN rate_limit_buckets
        BY <2>1, <3>1 DEF RowIsSound, readCount
      <3>2. CASE <<u, w, start>> \notin DOMAIN rate_limit_buckets
        BY <3>2, LimitsAssumption DEF LimitsOf, readCount
      <3> QED
        BY <3>1, <3>2
    <2>3. ASSUME NEW ip \in Ips, NEW start \in Int
          PROVE  readCount(ip, RegisterWindow, start) <= RegisterLimit
      <3>1. CASE <<ip, RegisterWindow, start>> \in DOMAIN rate_limit_buckets
        BY <2>1, <3>1 DEF RowIsSound, readCount
      <3>2. CASE <<ip, RegisterWindow, start>> \notin DOMAIN rate_limit_buckets
        BY <3>2, LimitsAssumption DEF readCount
      <3> QED
        BY <3>1, <3>2
    <2> QED
      BY <2>2, <2>3 DEF WithinLimits, IInv, MemorySound
  <1> QED
    BY <1>1, Invariance, PTL

\* The hourly job deletes no row that an estimate, now or later, reads: a row
\* expires two windows after its start, and the estimate reads the current
\* window and the one before; whatever the lengths of the windows.
THEOREM CleanupForgivesNobody == Spec => CleanupIsInvisible
  <1>1. ASSUME IInv, cleanupRateLimitBuckets,
               NEW key \in Keys, NEW w \in Windows \union {RegisterWindow},
               NEW t \in now..MaxTime,
               NEW start \in {bucketStart(t, w), bucketStart(t - w, w)}
        PROVE  readCount(key, w, start)' = readCount(key, w, start)
    <2> DEFINE b == <<key, w, start>>
               kept == {c \in DOMAIN rate_limit_buckets :
                          ~(rate_limit_buckets[c].expires_at < now)}
    <2>1. rate_limit_buckets' = [c \in kept |-> rate_limit_buckets[c]]
      BY <1>1 DEF cleanupRateLimitBuckets, RestrictDomain, Restrict
    <2>2. now \in Nat /\ t \in Int /\ now <= t /\ w \in Nat \ {0}
      BY <1>1, LimitsAssumption DEF IInv
    <2>3. start \in Int /\ t < start + 2 * w
      <3>1. t \in Int /\ t - w \in Int
        BY <2>2
      <3>2. bucketStart(t, w) \in Int /\ t < bucketStart(t, w) + w
        BY <2>2, <3>1, StartIs, Zenon
      <3>3. bucketStart(t - w, w) \in Int /\ t - w < bucketStart(t - w, w) + w
        BY <2>2, <3>1, StartIs, Zenon
      <3> QED
        BY <2>2, <3>2, <3>3
    <2>4. b \in DOMAIN rate_limit_buckets => rate_limit_buckets[b].expires_at = start + 2 * w
      BY <1>1 DEF IInv, RowsSound, RowIsSound
    <2>5. b \in DOMAIN rate_limit_buckets => b \in kept
      BY <2>2, <2>3, <2>4
    <2> QED
      BY <2>1, <2>5 DEF readCount
  <1>2. ASSUME IInv, [Next]_vars
        PROVE  [cleanupRateLimitBuckets =>
                  \A key \in Keys, w \in Windows \union {RegisterWindow} : \A t \in now..MaxTime :
                    \A start \in {bucketStart(t, w), bucketStart(t - w, w)} :
                      readCount(key, w, start)' = readCount(key, w, start)]_vars
    BY <1>1, <1>2
  <1> QED
    BY <1>2, Invariance, PTL DEF Spec, CleanupIsInvisible

-----------------------------------------------------------------------------
(* What was let through: the bounds over any stretch of a window's length. *)

\* A history counts up, and nothing in it is of a later tick than the current.
History(calls, moment) ==
  /\ calls \in [0..MaxTime -> Nat]
  /\ \A s, t \in 0..MaxTime : s <= t => calls[s] <= calls[t]
  /\ \A t \in moment..MaxTime : calls[t] = calls[moment]

\* The rows that an estimate may still read count every call let through in
\* their window: the calls another window denied are counted as well.
RowsCount(key, window) ==
  \A start \in Int :
    (\E n \in Int : start = n * window) /\ start + 2 * window >= now =>
      CalledBetween(passed[key], start, start + window - 1) <= readCount(key, window, start)

\* What the estimate guaranteed when the last call of the current window was let
\* through.  It stays true as time passes, when the window before weighs less.
WasAdmitted(key, window, limit) ==
  LET start == bucketStart(now, window)
      before == CalledBetween(passed[key], start - window, start - 1)
      current == CalledBetween(passed[key], start, now)
  IN  current > 0 =>
        before * (window - (now - start)) + (current - 1) * window < limit * window

\* The counter of an address in memory has counted the requests since it began;
\* there are none after its end, and the window before it held fewer than the
\* limit besides the one that began it.
CounterIsExact(buckets, x, window, limit) ==
  LET began == buckets[x].resetAt - window
      before == calledUntil(asked[x], began - 1)
      all == calledUntil(asked[x], now)
  IN  /\ began \in 0..now
      /\ buckets[x].count >= 1
      /\ all - before = buckets[x].count
      /\ calledUntil(asked[x], began) > before
      /\ calledUntil(asked[x], began + window - 1) = all
      /\ \A t \in Int : began - window <= t /\ t < began =>
           before - calledUntil(asked[x], t) <= limit - 1

CounterKept(buckets, x, window, limit) ==
  IF x \in DOMAIN buckets
  THEN CounterIsExact(buckets, x, window, limit)
  ELSE \A t \in Int : calledUntil(asked[x], t) = 0

RateKept(key, window, limit) == RowsCount(key, window) /\ WasAdmitted(key, window, limit)

Histories ==
  /\ now \in 0..MaxTime
  /\ passed = [k \in Keys |-> passed[k]]
  /\ asked = [x \in Ips \union Emails |-> asked[x]]
  /\ \A k \in Keys : History(passed[k], now)
  /\ \A x \in Ips \union Emails : History(asked[x], now)

RatesKept ==
  /\ \A u \in UserIds, w \in Windows : RateKept(u, w, HighestLimit(w))
  /\ \A ip \in Ips : RateKept(ip, RegisterWindow, RegisterLimit)

CountersKept ==
  /\ \A ip \in Ips : CounterKept(ipBuckets, ip, IP_WINDOW, IP_LIMIT)
  /\ \A e \in Emails : CounterKept(emailBuckets, e, EMAIL_WINDOW, EMAIL_LIMIT)

\* The inductive invariant of the histories, on top of IInv.
HistoryInv == Histories /\ RatesKept /\ CountersKept

LEMMA Counts ==
  ASSUME NEW moment \in 0..MaxTime, NEW calls, History(calls, moment)
  PROVE  /\ \A t \in Int : calledUntil(calls, t) \in Nat
         /\ \A s, t \in Int : s <= t => calledUntil(calls, s) <= calledUntil(calls, t)
         /\ \A t \in Int : t >= moment => calledUntil(calls, t) = calledUntil(calls, moment)
  BY LimitsAssumption DEF History, calledUntil

LEMMA NoneYet ==
  /\ \A moment \in 0..MaxTime : History(Never, moment)
  /\ \A t \in Int : calledUntil(Never, t) = 0
  BY LimitsAssumption DEF History, calledUntil, Never

LEMMA OneMore ==
  ASSUME now \in 0..MaxTime, NEW calls, History(calls, now)
  PROVE  /\ History(calledNow(calls), now)
         /\ \A t \in Int : calledUntil(calledNow(calls), t) =
              IF t < now THEN calledUntil(calls, t) ELSE calledUntil(calls, t) + 1
  <1>1. History(calledNow(calls), now)
    BY LimitsAssumption DEF History, calledNow
  <1>2. ASSUME NEW t \in Int
        PROVE  calledUntil(calledNow(calls), t) =
                 IF t < now THEN calledUntil(calls, t) ELSE calledUntil(calls, t) + 1
    BY LimitsAssumption DEF History, calledUntil, calledNow
  <1> QED
    BY <1>1, <1>2

LEMMA HighestIs ==
  ASSUME NEW w \in Windows
  PROVE  /\ HighestLimit(w) \in Nat
         /\ \A limit \in LimitsOf(w) : limit \in Nat /\ limit <= HighestLimit(w)
  <1>1. PICK most \in LimitInputs : \A limit \in LimitInputs : limit <= most
    BY LimitsAssumption
  <1>2. LimitsOf(w) \subseteq Nat
    BY LimitsAssumption DEF LimitsOf
  <1>3. \E x \in LimitsOf(w) : \A y \in LimitsOf(w) : x >= y
    <2>1. most \in LimitsOf(w) /\ RATE_LIMIT_BURSTS[w] \in LimitsOf(w)
      BY DEF LimitsOf
    <2>2. CASE most >= RATE_LIMIT_BURSTS[w]
      BY <1>1, <1>2, <2>1, <2>2 DEF LimitsOf
    <2>3. CASE ~(most >= RATE_LIMIT_BURSTS[w])
      BY <1>1, <1>2, <2>1, <2>3 DEF LimitsOf
    <2> QED
      BY <2>2, <2>3
  <1>4. HighestLimit(w) = CHOOSE x \in LimitsOf(w) : \A y \in LimitsOf(w) : x >= y
    BY DEF HighestLimit, LimitsOf, Max
  <1>5. HighestLimit(w) \in LimitsOf(w) /\ \A y \in LimitsOf(w) : HighestLimit(w) >= y
    BY <1>3, <1>4
  <1> QED
    BY <1>2, <1>5

\* A window begins at a multiple of its length, and no other window that begins
\* at one holds the moment.
LEMMA OneWindow ==
  ASSUME NEW t \in Int, NEW window \in Nat \ {0}, NEW m \in Int,
         m * window <= t, t < m * window + window
  PROVE  m * window = bucketStart(t, window)
  <1> DEFINE n == t \div window
  <1>1. n \in Int /\ bucketStart(t, window) = n * window
    BY DEF bucketStart
  <1>2. n * window <= t /\ t < n * window + window
    BY <1>1, StartIs
  <1> HIDE DEF n
  <1>3. ~(m < n)
    <2>1. SUFFICES ASSUME m + 1 <= n PROVE FALSE
      BY <1>1
    <2>2. (m + 1) * window <= n * window
      BY <1>1, <2>1
    <2>3. (m + 1) * window = m * window + window
      OBVIOUS
    <2>4. m * window \in Int /\ n * window \in Int
      BY <1>1
    <2> QED
      BY <1>2, <2>2, <2>3, <2>4
  <1>4. ~(n < m)
    <2>1. SUFFICES ASSUME n + 1 <= m PROVE FALSE
      BY <1>1
    <2>2. (n + 1) * window <= m * window
      BY <1>1, <2>1
    <2>3. (n + 1) * window = n * window + window
      BY <1>1
    <2>4. m * window \in Int /\ n * window \in Int
      BY <1>1
    <2> QED
      BY <1>2, <2>2, <2>3, <2>4
  <1> QED
    BY <1>1, <1>3, <1>4

\* The windows that the estimate reads: the current one and the one before.
LEMMA WindowBefore ==
  ASSUME NEW t \in Int, NEW window \in Nat \ {0}
  PROVE  /\ bucketStart(t - window, window) = bucketStart(t, window) - window
         /\ \E n \in Int : bucketStart(t, window) = n * window
         /\ \E n \in Int : bucketStart(t, window) - window = n * window
  <1> DEFINE n == t \div window
  <1>1. n \in Int /\ n - 1 \in Int /\ bucketStart(t, window) = n * window
    BY DEF bucketStart
  <1>2. n * window <= t /\ t < n * window + window
    BY <1>1, StartIs
  <1> HIDE DEF n
  <1>3. (n - 1) * window = n * window - window
    BY <1>1
  <1>4. n * window \in Int /\ (n - 1) * window \in Int
    BY <1>1
  <1>5. (n - 1) * window = bucketStart(t - window, window)
    <2>1. t - window \in Int
      OBVIOUS
    <2>2. (n - 1) * window <= t - window /\ t - window < (n - 1) * window + window
      BY <1>2, <1>3, <1>4
    <2> QED
      BY <1>1, <2>1, <2>2, OneWindow, Zenon
  <1> QED
    BY <1>1, <1>3, <1>5

\* A call that is counted adds one to a row of each of its windows.
LEMMA OneMoreCounted ==
  ASSUME RowsSound, NEW key, NEW windows, upsertCount(key, windows),
         NEW k, NEW w, NEW start
  PROVE  readCount(k, w, start)' =
           IF k = key /\ w \in windows /\ start = bucketStart(now, w)
           THEN readCount(k, w, start) + 1 ELSE readCount(k, w, start)
  <1> DEFINE row(v) == <<key, v, bucketStart(now, v)>>
             fresh == {row(v) : v \in windows}
             b == <<k, w, start>>
  <1>1. /\ DOMAIN rate_limit_buckets' = DOMAIN rate_limit_buckets \union fresh
        /\ \A c \in DOMAIN rate_limit_buckets \ fresh :
             rate_limit_buckets'[c] = rate_limit_buckets[c]
        /\ \A c \in fresh \intersect DOMAIN rate_limit_buckets :
             rate_limit_buckets'[c] = [rate_limit_buckets[c] EXCEPT !.request_count = @ + 1]
        /\ \A c \in fresh \ DOMAIN rate_limit_buckets :
             rate_limit_buckets'[c] = [request_count |-> 1, expires_at |-> c[3] + 2 * c[2]]
    BY DEF upsertCount
  <1>2. b \in fresh <=> k = key /\ w \in windows /\ start = bucketStart(now, w)
    OBVIOUS
  <1>3. \A c \in DOMAIN rate_limit_buckets :
          rate_limit_buckets[c] \in [request_count : Nat, expires_at : Int]
    BY DEF RowsSound
  <1>4. CASE b \in fresh
    <2>1. CASE b \in DOMAIN rate_limit_buckets
      <3>1. rate_limit_buckets'[b].request_count = rate_limit_buckets[b].request_count + 1
        BY <1>1, <1>3, <1>4, <2>1
      <3>2. b \in DOMAIN rate_limit_buckets'
        BY <1>1, <2>1
      <3> HIDE DEF fresh
      <3> QED
        BY <1>2, <1>4, <2>1, <3>1, <3>2 DEF readCount
    <2>2. CASE b \notin DOMAIN rate_limit_buckets
      <3> HIDE DEF fresh, b
      <3>1. rate_limit_buckets'[b].request_count = 1
        BY <1>1, <1>4, <2>2
      <3>2. b \in DOMAIN rate_limit_buckets'
        BY <1>1, <1>4
      <3> USE DEF b
      <3> QED
        BY <1>2, <1>4, <2>2, <3>1, <3>2 DEF readCount
    <2> QED
      BY <2>1, <2>2
  <1>5. CASE b \notin fresh
    BY <1>1, <1>2, <1>5 DEF readCount
  <1> QED
    BY <1>4, <1>5

LEMMA CountIsNatural ==
  ASSUME RowsSound, NEW k, NEW w, NEW start
  PROVE  readCount(k, w, start) \in Nat
  BY DEF RowsSound, readCount

\* A call that all the windows admit.
LEMMA AdmittedCall ==
  ASSUME RowsSound, now \in 0..MaxTime, NEW key, NEW windows, upsertCount(key, windows),
         NEW w \in windows, w \in Nat \ {0}, NEW limit \in Nat, NEW most \in Nat, limit <= most,
         admits(key, w, limit), History(passed[key], now), RateKept(key, w, most),
         now' = now, passed'[key] = calledNow(passed[key])
  PROVE  RateKept(key, w, most)'
  <1> DEFINE calls == passed[key]
             start == bucketStart(now, w)
             U(t) == calledUntil(passed[key], t)
             V(t) == calledUntil(calledNow(passed[key]), t)
  <1>1. /\ \A t \in Int : U(t) \in Nat
        /\ \A s, t \in Int : s <= t => U(s) <= U(t)
        /\ \A t \in Int : V(t) = IF t < now THEN U(t) ELSE U(t) + 1
    BY Counts, OneMore
  <1>2. now \in Int /\ start \in Int /\ start <= now /\ now < start + w
    <2>1. now \in Int
      BY LimitsAssumption
    <2> QED
      BY <2>1, StartIs, Zenon
  <1>3. \A s \in Int : readCount(key, w, s)' = IF s = start THEN readCount(key, w, s) + 1
                                                            ELSE readCount(key, w, s)
    BY OneMoreCounted
  <1>4. \A s \in Int : readCount(key, w, s) \in Nat
    BY CountIsNatural
  <1>5. RowsCount(key, w)'
    <2>1. SUFFICES ASSUME NEW s \in Int, NEW m \in Int, s = m * w, s + 2 * w >= now
                   PROVE  V(s + w - 1) - V(s - 1) <= readCount(key, w, s)'
      BY DEF RowsCount, CalledBetween
    <2>2. U(s + w - 1) - U(s - 1) <= readCount(key, w, s)
      BY <2>1 DEF RateKept, RowsCount, CalledBetween
    <2>3. s <= now /\ now < s + w => s = start
      BY <1>2, <2>1, OneWindow
    <2> HIDE DEF U, V, start
    <2>4. s + w - 1 \in Int /\ s - 1 \in Int
      BY <2>1
    <2>5. CASE s = start
      BY <1>1, <1>2, <1>3, <1>4, <2>2, <2>4, <2>5
    <2>6. CASE s # start
      BY <1>1, <1>2, <1>3, <1>4, <2>2, <2>3, <2>4, <2>6
    <2> QED
      BY <2>5, <2>6
  <1>6. WasAdmitted(key, w, most)'
    <2> DEFINE before == U(start - 1) - U(start - w - 1)
               current == U(now) - U(start - 1)
               previous == readCount(key, w, start - w)
               counted_ == readCount(key, w, start)
    <2>1. previous * (w - (now - start)) + counted_ * w < limit * w
      BY <1>2, WindowBefore DEF admits, scaledEstimate, slidingWindowEstimate
    <2>2. before <= previous /\ current <= counted_
      <3>0. /\ start - w \in Int /\ start - w + 2 * w >= now /\ start + 2 * w >= now
            /\ \E n \in Int : start = n * w
            /\ \E n \in Int : start - w = n * w
        <4>1. \E n \in Int : start = n * w
          BY <1>2, WindowBefore, Zenon
        <4>2. \E n \in Int : start - w = n * w
          BY <1>2, WindowBefore, Zenon
        <4>3. start - w \in Int /\ start - w + 2 * w >= now /\ start + 2 * w >= now
          <5> HIDE DEF start
          <5> QED
            BY <1>2
        <4> QED
          BY <4>1, <4>2, <4>3, Zenon
      <3>1. U(start - w + w - 1) - U(start - w - 1) <= previous
        BY <3>0 DEF RateKept, RowsCount, CalledBetween
      <3>2. U(start + w - 1) - U(start - 1) <= counted_
        BY <1>2, <3>0 DEF RateKept, RowsCount, CalledBetween
      <3>3. start - w + w - 1 = start - 1
        BY <1>2
      <3>4. U(now) <= U(start + w - 1)
        BY <1>1, <1>2
      <3>5. U(start - 1) \in Nat /\ U(now) \in Nat /\ U(start + w - 1) \in Nat
        BY <1>1, <1>2
      <3>6. U(start - 1) - U(start - w - 1) <= previous
        BY <3>1, <3>3
      <3> HIDE DEF U, start
      <3>7. current <= counted_
        BY <1>4, <1>2, <3>2, <3>4, <3>5
      <3> QED
        BY <3>6, <3>7
    <2>3. before \in Nat /\ current \in Nat /\ previous \in Nat /\ counted_ \in Nat
      <3>1. /\ start - 1 \in Int /\ start - w - 1 \in Int /\ start - w \in Int
            /\ start - w - 1 <= start - 1 /\ start - 1 <= now
        BY <1>2
      <3>2. previous \in Nat /\ counted_ \in Nat
        BY <1>2, <1>4, <3>1
      <3>3. /\ U(start - 1) \in Nat /\ U(start - w - 1) \in Nat /\ U(now) \in Nat
            /\ U(start - w - 1) <= U(start - 1) /\ U(start - 1) <= U(now)
        <4> HIDE DEF U, start
        <4> QED
          BY <1>1, <1>2, <3>1
      <3>4. before \in Nat /\ current \in Nat
        BY <3>3
      <3> QED
        BY <3>2, <3>4
    <2>4. before * (w - (now - start)) + current * w < most * w
      <3>1. w - (now - start) \in Nat
        BY <1>2
      <3> HIDE DEF before, current, previous, counted_, start
      <3>2. before * (w - (now - start)) <= previous * (w - (now - start))
        BY <2>2, <2>3, <3>1
      <3>3. current * w <= counted_ * w /\ limit * w <= most * w
        BY <2>2, <2>3
      <3>4. /\ before * (w - (now - start)) \in Int /\ previous * (w - (now - start)) \in Int
            /\ current * w \in Int /\ counted_ * w \in Int /\ limit * w \in Int /\ most * w \in Int
        BY <2>3, <3>1
      <3> QED
        BY <2>1, <3>2, <3>3, <3>4
    <2>5. /\ CalledBetween(calledNow(passed[key]), start - w, start - 1) = before
          /\ CalledBetween(calledNow(passed[key]), start, now) - 1 = current
      <3>1. /\ V(start - 1) = U(start - 1) /\ V(start - w - 1) = U(start - w - 1)
            /\ V(now) = U(now) + 1
        BY <1>1, <1>2
      <3>2. U(start - 1) \in Nat /\ U(now) \in Nat
        BY <1>1, <1>2
      <3> QED
        BY <3>1, <3>2 DEF CalledBetween
    <2> HIDE DEF before, current
    <2> QED
      BY <2>4, <2>5 DEF WasAdmitted, bucketStart
  <1> QED
    BY <1>5, <1>6 DEF RateKept

\* Nothing is let through, and no row that an estimate may read counts less.
LEMMA NothingLetThrough ==
  ASSUME RowsSound, now \in 0..MaxTime, NEW key, NEW w \in Nat \ {0}, NEW most \in Nat,
         History(passed[key], now), RateKept(key, w, most),
         now' = now, passed'[key] = passed[key],
         \A start \in Int : start + 2 * w >= now =>
           /\ readCount(key, w, start)' \in Nat
           /\ readCount(key, w, start) <= readCount(key, w, start)'
  PROVE  RateKept(key, w, most)'
  <1>1. RowsCount(key, w)'
    <2>1. SUFFICES ASSUME NEW s \in Int, \E m \in Int : s = m * w, s + 2 * w >= now
                   PROVE  CalledBetween(passed[key], s, s + w - 1) <= readCount(key, w, s)'
      BY DEF RowsCount
    <2>2. CalledBetween(passed[key], s, s + w - 1) <= readCount(key, w, s)
      BY <2>1 DEF RateKept, RowsCount
    <2>3. CalledBetween(passed[key], s, s + w - 1) \in Int
      <3>1. s + w - 1 \in Int /\ s - 1 \in Int
        OBVIOUS
      <3>2. calledUntil(passed[key], s + w - 1) \in Nat /\ calledUntil(passed[key], s - 1) \in Nat
        BY <3>1, Counts
      <3> QED
        BY <3>2 DEF CalledBetween
    <2>4. readCount(key, w, s) \in Nat
      BY CountIsNatural
    <2> QED
      BY <2>1, <2>2, <2>3, <2>4
  <1>2. WasAdmitted(key, w, most)'
    BY DEF RateKept, WasAdmitted
  <1> QED
    BY <1>1, <1>2 DEF RateKept

\* The administrator's pardon.
LEMMA Forgiven ==
  ASSUME now \in 0..MaxTime, NEW key, NEW w \in Nat \ {0}, NEW most \in Nat,
         now' = now, passed'[key] = Never, RowsSound'
  PROVE  RateKept(key, w, most)'
  <1>1. \A s, t \in Int : CalledBetween(Never, s, t) = 0
    <2> TAKE s, t \in Int
    <2>1. s - 1 \in Int
      OBVIOUS
    <2> QED
      BY <2>1, NoneYet DEF CalledBetween
  <1>2. \A start \in Int : readCount(key, w, start)' \in Nat
    BY DEF RowsSound, readCount
  <1>3. RowsCount(key, w)'
    BY <1>1, <1>2 DEF RowsCount
  <1>4. WasAdmitted(key, w, most)'
    <2>1. bucketStart(now, w) \in Int /\ now \in Int
      BY LimitsAssumption, StartIs
    <2>2. CalledBetween(Never, bucketStart(now, w), now) = 0
      BY <1>1, <2>1
    <2> QED
      BY <2>2 DEF WasAdmitted, bucketStart
  <1> QED
    BY <1>3, <1>4 DEF RateKept

\* Time passes: within a window the one before weighs less, and nothing has been
\* let through yet in a window that begins.
LEMMA TimePasses ==
  ASSUME now \in 0..MaxTime, now < MaxTime, NEW key, NEW w \in Nat \ {0}, NEW most \in Nat,
         History(passed[key], now), RateKept(key, w, most),
         now' = now + 1, passed' = passed, rate_limit_buckets' = rate_limit_buckets
  PROVE  RateKept(key, w, most)'
  <1> DEFINE start == bucketStart(now, w)
             next == bucketStart(now + 1, w)
             U(t) == calledUntil(passed[key], t)
  <1>1. /\ \A t \in Int : U(t) \in Nat
        /\ \A s, t \in Int : s <= t => U(s) <= U(t)
        /\ \A t \in Int : t >= now => U(t) = U(now)
    BY Counts
  <1>2. now \in Int /\ now + 1 \in Int
    BY LimitsAssumption
  <1>3. start \in Int /\ start <= now /\ now < start + w
    BY <1>2, StartIs
  <1>4. RowsCount(key, w)'
    BY <1>2 DEF RowsCount, RateKept, readCount
  <1>5. WasAdmitted(key, w, most)'
    <2>1. CASE now + 1 < start + w
      <3>1. next = start
        <4>1. PICK m \in Int : start = m * w
          BY <1>2, WindowBefore
        <4>2. m * w <= now + 1 /\ now + 1 < m * w + w
          BY <1>2, <1>3, <2>1, <4>1
        <4>3. m * w = next
          BY <1>2, <4>2, OneWindow, Zenon
        <4> QED
          BY <4>1, <4>3
      <3> DEFINE before == U(start - 1) - U(start - w - 1)
                 current == U(now) - U(start - 1)
      <3>2. current > 0 => before * (w - (now - start)) + (current - 1) * w < most * w
        BY DEF RateKept, WasAdmitted, CalledBetween
      <3>3. before \in Nat /\ current \in Nat
        BY <1>1, <1>3
      <3>4. current > 0 => before * (w - (now + 1 - start)) + (current - 1) * w < most * w
        <4> HIDE DEF before, current, start
        <4>1. before * (w - (now + 1 - start)) = before * (w - (now - start)) - before
          BY <1>2, <1>3, <3>3
        <4>2. before * (w - (now - start)) \in Int /\ (current - 1) * w \in Int /\ most * w \in Int
          BY <1>2, <1>3, <3>3
        <4> QED
          BY <3>2, <3>3, <4>1, <4>2
      <3>5. U(now + 1) = U(now)
        BY <1>1, <1>2
      <3>6. /\ CalledBetween(passed[key], start - w, start - 1) = before
            /\ CalledBetween(passed[key], start, now + 1) = current
        BY <3>5 DEF CalledBetween
      <3>7. WasAdmitted(key, w, most)' <=>
              (CalledBetween(passed[key], next, now + 1) > 0 =>
                 CalledBetween(passed[key], next - w, next - 1) * (w - (now + 1 - next))
                   + (CalledBetween(passed[key], next, now + 1) - 1) * w < most * w)
        BY DEF WasAdmitted, bucketStart
      <3> HIDE DEF before, current, start, next
      <3> QED
        BY <3>1, <3>4, <3>6, <3>7
    <2>2. CASE ~(now + 1 < start + w)
      <3>1. next = now + 1
        <4>1. PICK m \in Int : start = m * w
          BY <1>2, WindowBefore
        <4>2. m + 1 \in Int /\ (m + 1) * w = m * w + w
          BY <4>1
        <4>3. now + 1 = (m + 1) * w
          BY <1>2, <1>3, <2>2, <4>1, <4>2
        <4>4. (m + 1) * w <= now + 1 /\ now + 1 < (m + 1) * w + w
          BY <1>2, <4>3
        <4>5. (m + 1) * w = next
          BY <1>2, <4>2, <4>4, OneWindow, Zenon
        <4> QED
          BY <4>3, <4>5
      <3>2. CalledBetween(passed[key], next, now + 1) = 0
        <4>1. U(now + 1) = U(now) /\ next - 1 = now /\ U(now) \in Nat
          BY <1>1, <1>2, <3>1
        <4> QED
          BY <4>1 DEF CalledBetween
      <3>3. bucketStart(now, w)' = next
        BY DEF bucketStart
      <3> QED
        BY <3>2, <3>3 DEF WasAdmitted
    <2> QED
      BY <2>1, <2>2
  <1> QED
    BY <1>4, <1>5 DEF RateKept

-----------------------------------------------------------------------------
(* The counters in memory.                                                 *)

\* A request that is counted: it goes on with a counter that is live, or begins
\* another, all of whose predecessor's requests are then a window old.
LEMMA CountedRequest ==
  ASSUME now \in 0..MaxTime, NEW buckets, NEW x, NEW window \in Nat \ {0}, NEW limit \in Nat \ {0},
         MemorySound(buckets, limit), ~exhausted(buckets, x, limit),
         History(asked[x], now), CounterKept(buckets, x, window, limit),
         now' = now, asked'[x] = calledNow(asked[x])
  PROVE  \A after : after = counted(buckets, x, window) =>
           /\ x \in DOMAIN after
           /\ LET began == after[x].resetAt - window
                  V(t) == calledUntil(calledNow(asked[x]), t)
              IN  /\ began \in 0..now
                  /\ after[x].count >= 1
                  /\ V(now) - V(began - 1) = after[x].count
                  /\ V(began) > V(began - 1)
                  /\ V(began + window - 1) = V(now)
                  /\ \A t \in Int : began - window <= t /\ t < began =>
                       V(began - 1) - V(t) <= limit - 1
  <1> TAKE after
  <1> HAVE after = counted(buckets, x, window)
  <1> DEFINE U(t) == calledUntil(asked[x], t)
             V(t) == calledUntil(calledNow(asked[x]), t)
  <1>1. /\ \A t \in Int : U(t) \in Nat
        /\ \A s, t \in Int : s <= t => U(s) <= U(t)
        /\ \A t \in Int : t >= now => U(t) = U(now)
        /\ \A t \in Int : V(t) = IF t < now THEN U(t) ELSE U(t) + 1
    BY Counts, OneMore
  <1>2. now \in Nat /\ x \in DOMAIN after
    BY LimitsAssumption DEF counted
  <1>3. CASE live(buckets, x)
    <2> DEFINE began == buckets[x].resetAt - window
    <2>1. /\ x \in DOMAIN buckets /\ buckets[x] \in [count : Nat, resetAt : Nat]
          /\ buckets[x].resetAt > now /\ buckets[x].count < limit
      BY <1>3 DEF live, exhausted, MemorySound
    <2>2. after[x] = [buckets[x] EXCEPT !.count = @ + 1]
      BY <1>3, <2>1 DEF counted
    <2>3. after[x].count = buckets[x].count + 1 /\ after[x].resetAt = buckets[x].resetAt
      BY <2>1, <2>2
    <2>4. /\ began \in 0..now
          /\ U(now) - U(began - 1) = buckets[x].count
          /\ U(began) > U(began - 1)
          /\ U(began + window - 1) = U(now)
          /\ \A t \in Int : began - window <= t /\ t < began => U(began - 1) - U(t) <= limit - 1
      BY <2>1 DEF CounterKept, CounterIsExact
    <2>5. now < began + window /\ began \in Nat /\ began - 1 \in Int /\ began + window - 1 \in Int
      BY <1>2, <2>1, <2>4
    <2>6. buckets[x].count \in Nat
      BY <2>1
    <2>7. /\ V(began - 1) = U(began - 1) /\ V(now) = U(now) + 1
          /\ V(began + window - 1) = U(now) + 1
          /\ V(began) >= U(began)
          /\ U(now) \in Nat /\ U(began) \in Nat /\ U(began - 1) \in Nat /\ V(began) \in Nat
      <3> HIDE DEF U, V, began
      <3> QED
        BY <1>1, <1>2, <2>4, <2>5
    <2>8. ASSUME NEW t \in Int, began - window <= t, t < began
          PROVE  V(began - 1) - V(t) <= limit - 1
      <3>1. V(t) = U(t)
        <4> HIDE DEF U, V, began
        <4> QED
          BY <1>1, <1>2, <2>4, <2>5, <2>8
      <3> QED
        BY <2>4, <2>7, <2>8, <3>1
    <2> HIDE DEF U, V
    <2>9. /\ V(now) - V(began - 1) = after[x].count
          /\ V(began) > V(began - 1) /\ V(began + window - 1) = V(now) /\ after[x].count >= 1
      BY <2>3, <2>4, <2>6, <2>7
    <2> HIDE DEF began
    <2>10. after[x].resetAt - window = began
      BY <2>3 DEF began
    <2> QED
      BY <1>2, <2>4, <2>8, <2>9, <2>10 DEF V
  <1>4. CASE ~live(buckets, x)
    <2>1. after[x] = [count |-> 1, resetAt |-> now + window]
      BY <1>4 DEF counted
    <2>2. after[x].resetAt - window = now /\ after[x].count = 1
      BY <1>2, <2>1
    <2>3. U(now) = U(now - 1) /\ \A t \in Int : now - window <= t /\ t < now =>
                                    U(now - 1) - U(t) <= limit - 1
      <3>1. CASE x \notin DOMAIN buckets
        <4>1. \A t \in Int : U(t) = 0
          BY <3>1 DEF CounterKept
        <4> HIDE DEF U
        <4> QED
          BY <1>2, <4>1
      <3>2. CASE x \in DOMAIN buckets
        <4> DEFINE began == buckets[x].resetAt - window
        <4>1. /\ buckets[x] \in [count : Nat, resetAt : Nat]
              /\ buckets[x].resetAt <= now /\ buckets[x].count <= limit
          BY <1>2, <1>4, <3>2 DEF live, MemorySound
        <4>2. /\ began \in 0..now
              /\ U(now) - U(began - 1) = buckets[x].count
              /\ U(began) > U(began - 1)
              /\ U(began + window - 1) = U(now)
          BY <3>2 DEF CounterKept, CounterIsExact
        <4>3. began + window <= now /\ buckets[x].count \in Nat /\ began \in Nat
          BY <1>2, <4>1, <4>2
        <4> HIDE DEF U, began
        <4>4. U(now - 1) = U(now)
          <5>1. U(began + window - 1) <= U(now - 1) /\ U(now - 1) <= U(now)
            BY <1>1, <1>2, <4>3
          <5>2. U(now - 1) \in Nat /\ U(now) \in Nat
            BY <1>1, <1>2
          <5> QED
            BY <4>2, <5>1, <5>2
        <4>5. ASSUME NEW t \in Int, now - window <= t, t < now
              PROVE  U(now - 1) - U(t) <= limit - 1
          <5>1. U(began) <= U(t)
            BY <1>1, <1>2, <4>3, <4>5
          <5>2. U(now) \in Nat /\ U(began) \in Nat /\ U(t) \in Nat /\ U(began - 1) \in Nat
            BY <1>1, <1>2, <4>3
          <5> QED
            BY <4>1, <4>2, <4>3, <4>4, <5>1, <5>2
        <4> QED
          BY <4>4, <4>5
      <3> QED
        BY <3>1, <3>2
    <2>4. /\ V(now) = U(now) + 1 /\ V(now - 1) = U(now - 1)
          /\ V(now + window - 1) = U(now) + 1 /\ U(now) \in Nat
      <3>1. now + window - 1 \in Int /\ now + window - 1 >= now /\ now - 1 \in Int
        BY <1>2
      <3> HIDE DEF U, V
      <3> QED
        BY <1>1, <1>2, <3>1
    <2>5. ASSUME NEW t \in Int, now - window <= t, t < now
          PROVE  V(now - 1) - V(t) <= limit - 1
      <3>1. V(t) = U(t)
        <4> HIDE DEF U, V
        <4> QED
          BY <1>1, <1>2, <2>5
      <3> QED
        BY <2>3, <2>4, <2>5, <3>1
    <2> HIDE DEF U, V
    <2>6. /\ V(now) - V(now - 1) = after[x].count
          /\ V(now) > V(now - 1) /\ V(now + window - 1) = V(now) /\ after[x].count >= 1
          /\ now \in 0..now
      BY <1>2, <2>2, <2>3, <2>4
    <2> QED
      BY <1>2, <2>2, <2>5, <2>6 DEF V
  <1> QED
    BY <1>3, <1>4

\* Other addresses keep their counters.
LEMMA OthersUncounted ==
  ASSUME NEW buckets, NEW x, NEW window, NEW y, y # x
  PROVE  /\ y \in DOMAIN counted(buckets, x, window) <=> y \in DOMAIN buckets
         /\ y \in DOMAIN buckets => counted(buckets, x, window)[y] = buckets[y]
  BY DEF counted

\* In a stretch as long as a window, no more than twice the limit less one.
LEMMA Spaced ==
  ASSUME now \in 0..MaxTime, NEW buckets, NEW x, NEW window \in Nat \ {0}, NEW limit \in Nat \ {0},
         MemorySound(buckets, limit), History(asked[x], now),
         CounterKept(buckets, x, window, limit)
  PROVE  CalledBetween(asked[x], now - window + 1, now) <= 2 * limit - 1
  <1> DEFINE U(t) == calledUntil(asked[x], t)
  <1>1. /\ \A t \in Int : U(t) \in Nat
        /\ \A s, t \in Int : s <= t => U(s) <= U(t)
    BY Counts
  <1>2. now \in Nat
    BY LimitsAssumption
  <1>3. CalledBetween(asked[x], now - window + 1, now) = U(now) - U(now - window)
    <2>1. now - window + 1 - 1 = now - window
      BY <1>2
    <2> QED
      BY <2>1 DEF CalledBetween
  <1>4. CASE x \notin DOMAIN buckets
    <2>1. \A t \in Int : U(t) = 0
      BY <1>4 DEF CounterKept
    <2> HIDE DEF U
    <2> QED
      BY <1>2, <1>3, <2>1
  <1>5. CASE x \in DOMAIN buckets
    <2> DEFINE began == buckets[x].resetAt - window
    <2>1. buckets[x] \in [count : Nat, resetAt : Nat] /\ buckets[x].count <= limit
      BY <1>5 DEF MemorySound
    <2>2. /\ began \in 0..now
          /\ U(now) - U(began - 1) = buckets[x].count
          /\ U(began) > U(began - 1)
          /\ \A t \in Int : began - window <= t /\ t < began => U(began - 1) - U(t) <= limit - 1
      BY <1>5 DEF CounterKept, CounterIsExact
    <2>3. began \in Nat /\ began <= now /\ buckets[x].count \in Nat
      BY <1>2, <2>1, <2>2
    <2> HIDE DEF U, began
    <2>4. /\ U(now) \in Nat /\ U(began) \in Nat /\ U(began - 1) \in Nat
          /\ U(now - window) \in Nat
      BY <1>1, <1>2, <2>3
    <2>5. CASE now < began + window
      <3>1. U(began - 1) - U(now - window) <= limit - 1
        BY <1>2, <2>2, <2>3, <2>5
      <3> QED
        BY <1>3, <2>1, <2>2, <2>3, <2>4, <3>1
    <2>6. CASE ~(now < began + window)
      <3>1. U(began) <= U(now - window)
        BY <1>1, <1>2, <2>3, <2>6
      <3> QED
        BY <1>3, <2>1, <2>2, <2>3, <2>4, <3>1
    <2> QED
      BY <2>5, <2>6
  <1> QED
    BY <1>4, <1>5

-----------------------------------------------------------------------------
(* The histories are kept.                                                 *)

LEMMA InitHistories == Init => HistoryInv
  <1> SUFFICES ASSUME Init PROVE HistoryInv
    OBVIOUS
  <1>1. /\ now = 0 /\ rate_limit_buckets = Empty /\ ipBuckets = Empty /\ emailBuckets = Empty
        /\ passed = [k \in Keys |-> Never] /\ asked = [x \in Ips \union Emails |-> Never]
    BY DEF Init
  <1>2. now \in 0..MaxTime
    BY <1>1, LimitsAssumption
  <1>3. Histories
    BY <1>1, <1>2, NoneYet DEF Histories
  <1>4. \A s, t \in Int : CalledBetween(Never, s, t) = 0
    <2> TAKE s, t \in Int
    <2>1. s - 1 \in Int
      OBVIOUS
    <2> QED
      BY <2>1, NoneYet DEF CalledBetween
  <1>5. ASSUME NEW key \in Keys, NEW w \in Nat \ {0}, NEW limit \in Nat
        PROVE  RateKept(key, w, limit)
    <2>1. passed[key] = Never
      BY <1>1
    <2>2. \A start : readCount(key, w, start) = 0
      BY <1>1 DEF readCount, Empty
    <2>3. RowsCount(key, w)
      BY <1>4, <2>1, <2>2 DEF RowsCount
    <2>4. bucketStart(now, w) \in Int /\ now \in Int
      BY <1>1, StartIs
    <2>5. CalledBetween(passed[key], bucketStart(now, w), now) = 0
      BY <1>4, <2>1, <2>4
    <2>6. WasAdmitted(key, w, limit)
      BY <2>5 DEF WasAdmitted
    <2> QED
      BY <2>3, <2>6 DEF RateKept
  <1>6. RatesKept
    BY <1>5, HighestIs, LimitsAssumption DEF RatesKept, Keys
  <1>7. CountersKept
    BY <1>1, NoneYet DEF CountersKept, CounterKept, Empty
  <1> QED
    BY <1>3, <1>6, <1>7 DEF HistoryInv

\* The keys whose rates are kept, with the window and the limit of each.
Kept(key, w, most) ==
  \/ key \in UserIds /\ w \in Windows /\ most = HighestLimit(w)
  \/ key \in Ips /\ w = RegisterWindow /\ most = RegisterLimit

LEMMA KeptIs ==
  /\ RatesKept <=> \A key, w, most : Kept(key, w, most) => RateKept(key, w, most)
  /\ \A key, w, most : Kept(key, w, most) => key \in Keys /\ w \in Nat \ {0} /\ most \in Nat
  <1>1. RatesKept <=> \A key, w, most : Kept(key, w, most) => RateKept(key, w, most)
    BY DEF RatesKept, Kept
  <1>2. \A key, w, most : Kept(key, w, most) => key \in Keys /\ w \in Nat \ {0} /\ most \in Nat
    BY HighestIs, LimitsAssumption DEF Kept, Keys
  <1> QED
    BY <1>1, <1>2

\* A step that lets nothing through for a key, in no time, and takes no row that
\* may still be read.
LEMMA RatesStay ==
  ASSUME IInv, HistoryInv, now' = now, NEW key, NEW w, NEW most, Kept(key, w, most),
         passed'[key] = passed[key],
         \A start \in Int : start + 2 * w >= now =>
           /\ readCount(key, w, start)' \in Nat
           /\ readCount(key, w, start) <= readCount(key, w, start)'
  PROVE  RateKept(key, w, most)'
  <1>1. key \in Keys /\ w \in Nat \ {0} /\ most \in Nat
    BY KeptIs
  <1>2. RowsSound /\ now \in 0..MaxTime /\ History(passed[key], now) /\ RateKept(key, w, most)
    BY <1>1, KeptIs DEF IInv, HistoryInv, Histories
  <1> QED
    BY <1>1, <1>2, NothingLetThrough

LEMMA SameRates ==
  ASSUME IInv, HistoryInv, UNCHANGED <<now, passed, rate_limit_buckets>>
  PROVE  RatesKept'
  BY DEF HistoryInv, RatesKept, RateKept, RowsCount, WasAdmitted, readCount

LEMMA SameCounters ==
  ASSUME HistoryInv, UNCHANGED <<now, asked, ipBuckets, emailBuckets>>
  PROVE  CountersKept'
  BY DEF HistoryInv, CountersKept, CounterKept, CounterIsExact

LEMMA LetThroughHistories ==
  ASSUME Histories, NEW key \in Keys, letThrough(key), UNCHANGED <<now, asked>>
  PROVE  Histories' /\ passed'[key] = calledNow(passed[key])
         /\ \A k \in Keys \ {key} : passed'[k] = passed[k]
  <1>1. passed' = [passed EXCEPT ![key] = calledNow(passed[key])] /\ DOMAIN passed = Keys
    BY DEF letThrough, Histories
  <1>2. passed'[key] = calledNow(passed[key]) /\ \A k \in Keys \ {key} : passed'[k] = passed[k]
    BY <1>1
  <1>3. passed' = [k \in Keys |-> passed'[k]]
    BY <1>1
  <1>4. History(calledNow(passed[key]), now)
    BY OneMore DEF Histories
  <1>5. \A k \in Keys : History(passed'[k], now)
    BY <1>2, <1>4 DEF Histories
  <1> QED
    BY <1>2, <1>3, <1>5 DEF Histories

LEMMA MiddlewareKeeps ==
  ASSUME IInv, HistoryInv, NEW u \in UserIds, slidingWindowChecks(u)
  PROVE  HistoryInv'
  <1> DEFINE admitting == {w \in Windows : admits(u, w, limitOf(w))}
  <1>1. /\ upsertCount(u, admitting)
        /\ IF admitting = Windows THEN letThrough(u) ELSE UNCHANGED passed
        /\ UNCHANGED <<now, config, ipBuckets, emailBuckets, asked>>
    BY DEF slidingWindowChecks
  <1>2. u \in Keys /\ RowsSound /\ Histories /\ now \in 0..MaxTime
    BY DEF Keys, IInv, HistoryInv, Histories
  <1>3. CountersKept'
    BY <1>1, SameCounters
  <1> HIDE DEF admitting
  <1>4. ASSUME NEW k, NEW w, NEW start
        PROVE  /\ readCount(k, w, start)' \in Nat
               /\ readCount(k, w, start) <= readCount(k, w, start)'
    <2>1. readCount(k, w, start) \in Nat
      BY <1>2, CountIsNatural
    <2>2. readCount(k, w, start)' = readCount(k, w, start) + 1
          \/ readCount(k, w, start)' = readCount(k, w, start)
      BY <1>1, <1>2, OneMoreCounted
    <2> QED
      BY <2>1, <2>2
  <1>5. CASE admitting = Windows
    <2>1. letThrough(u)
      BY <1>1, <1>5
    <2>2. /\ Histories' /\ passed'[u] = calledNow(passed[u])
          /\ \A k \in Keys \ {u} : passed'[k] = passed[k]
      BY <1>1, <1>2, <2>1, LetThroughHistories
    <2>3. ASSUME NEW key, NEW w, NEW most, Kept(key, w, most)
          PROVE  RateKept(key, w, most)'
      <3>1. key \in Keys /\ w \in Nat \ {0} /\ most \in Nat
        BY <2>3, KeptIs
      <3>2. CASE key # u
        BY <1>1, <1>4, <2>2, <2>3, <3>1, <3>2, RatesStay
      <3>3. CASE key = u
        <4>1. w \in Windows /\ most = HighestLimit(w)
          BY <2>3, <3>3, LimitsAssumption DEF Kept
        <4>2. admits(u, w, limitOf(w))
          BY <1>5, <4>1 DEF admitting
        <4>3. limitOf(w) \in LimitsOf(w)
          BY <4>1, LimitsAssumption DEF IInv, limitOf, LimitsOf
        <4>4. limitOf(w) \in Nat /\ limitOf(w) <= most
          BY <4>1, <4>3, HighestIs
        <4>5. History(passed[u], now) /\ RateKept(u, w, most)
          BY <1>2, <2>3, <3>3, KeptIs DEF HistoryInv, Histories
        <4>6. w \in admitting /\ now' = now
          BY <1>1, <1>5, <4>1
        <4> QED
          BY <1>1, <1>2, <2>2, <3>1, <3>3, <4>2, <4>4, <4>5, <4>6, AdmittedCall
      <3> QED
        BY <3>2, <3>3
    <2>4. RatesKept'
      BY <2>3 DEF RatesKept, Kept
    <2> QED
      BY <1>3, <2>2, <2>4 DEF HistoryInv
  <1>6. CASE admitting # Windows
    <2>1. passed' = passed
      BY <1>1, <1>6
    <2>2. Histories'
      BY <1>1, <1>2, <2>1 DEF Histories
    <2>3. \A key, w, most : Kept(key, w, most) => RateKept(key, w, most)'
      BY <1>1, <1>4, <2>1, RatesStay
    <2>4. RatesKept'
      BY <2>3 DEF RatesKept, Kept
    <2> QED
      BY <1>3, <2>2, <2>4 DEF HistoryInv
  <1> QED
    BY <1>5, <1>6

LEMMA RegistrationKeeps ==
  ASSUME IInv, HistoryInv, NEW ip \in Ips, registerCheckOrThrow(ip)
  PROVE  HistoryInv'
  <1>1. /\ admits(ip, RegisterWindow, RegisterLimit)
        /\ upsertCount(ip, {RegisterWindow})
        /\ letThrough(ip)
        /\ UNCHANGED <<now, config, ipBuckets, emailBuckets, asked>>
    BY DEF registerCheckOrThrow
  <1>2. ip \in Keys /\ RowsSound /\ Histories /\ now \in 0..MaxTime
    BY DEF Keys, IInv, HistoryInv, Histories
  <1>3. CountersKept'
    BY <1>1, SameCounters
  <1>4. ASSUME NEW k, NEW w, NEW start
        PROVE  /\ readCount(k, w, start)' \in Nat
               /\ readCount(k, w, start) <= readCount(k, w, start)'
    <2>1. readCount(k, w, start) \in Nat
      BY <1>2, CountIsNatural
    <2>2. readCount(k, w, start)' = readCount(k, w, start) + 1
          \/ readCount(k, w, start)' = readCount(k, w, start)
      BY <1>1, <1>2, OneMoreCounted
    <2> QED
      BY <2>1, <2>2
  <1>5. /\ Histories' /\ passed'[ip] = calledNow(passed[ip])
        /\ \A k \in Keys \ {ip} : passed'[k] = passed[k]
    BY <1>1, <1>2, LetThroughHistories
  <1>6. ASSUME NEW key, NEW w, NEW most, Kept(key, w, most)
        PROVE  RateKept(key, w, most)'
    <2>1. key \in Keys /\ w \in Nat \ {0} /\ most \in Nat
      BY <1>6, KeptIs
    <2>2. CASE key # ip
      BY <1>1, <1>4, <1>5, <1>6, <2>1, <2>2, RatesStay
    <2>3. CASE key = ip
      <3>1. w = RegisterWindow /\ most = RegisterLimit
        BY <1>6, <2>3, LimitsAssumption DEF Kept
      <3>2. admits(ip, w, most) /\ w \in {RegisterWindow} /\ now' = now /\ most <= most
        BY <1>1, <2>1, <3>1
      <3>3. History(passed[ip], now) /\ RateKept(ip, w, most)
        BY <1>2, <1>6, <2>3, KeptIs DEF HistoryInv, Histories
      <3> QED
        BY <1>1, <1>2, <1>5, <2>1, <2>3, <3>2, <3>3, AdmittedCall
    <2> QED
      BY <2>2, <2>3
  <1>7. RatesKept'
    BY <1>6 DEF RatesKept, Kept
  <1> QED
    BY <1>3, <1>5, <1>7 DEF HistoryInv

LEMMA PardonKeeps ==
  ASSUME IInv, HistoryInv, NEW u \in UserIds, clearForUser(u), IInv'
  PROVE  HistoryInv'
  <1>1. /\ rate_limit_buckets' = [b \in {c \in DOMAIN rate_limit_buckets : c[1] # u} |->
                                    rate_limit_buckets[b]]
        /\ passed' = [passed EXCEPT ![u] = Never]
        /\ UNCHANGED <<now, config, ipBuckets, emailBuckets, asked>>
    BY DEF clearForUser, RestrictDomain, Restrict
  <1>2. /\ u \in Keys /\ Histories /\ now \in 0..MaxTime /\ DOMAIN passed = Keys
        /\ RowsSound /\ RowsSound'
    BY DEF Keys, IInv, HistoryInv, Histories
  <1>3. CountersKept'
    BY <1>1, SameCounters
  <1>4. passed'[u] = Never /\ \A k \in Keys \ {u} : passed'[k] = passed[k]
    BY <1>1, <1>2
  <1>5. Histories'
    <2>1. passed' = [k \in Keys |-> passed'[k]]
      BY <1>1, <1>2
    <2>2. \A k \in Keys : History(passed'[k], now)
      BY <1>2, <1>4, NoneYet DEF Histories
    <2> QED
      BY <1>1, <1>2, <2>1, <2>2 DEF Histories
  <1>6. ASSUME NEW key, NEW w, NEW most, Kept(key, w, most)
        PROVE  RateKept(key, w, most)'
    <2>1. key \in Keys /\ w \in Nat \ {0} /\ most \in Nat
      BY <1>6, KeptIs
    <2>2. CASE key # u
      <3>1. \A start : readCount(key, w, start)' = readCount(key, w, start)
        BY <1>1, <2>2 DEF readCount
      <3>2. \A start : readCount(key, w, start) \in Nat
        BY <1>2, CountIsNatural
      <3>3. \A start : /\ readCount(key, w, start)' \in Nat
                       /\ readCount(key, w, start) <= readCount(key, w, start)'
        BY <3>1, <3>2
      <3> QED
        BY <1>1, <1>4, <1>6, <2>1, <2>2, <3>3, RatesStay
    <2>3. CASE key = u
      BY <1>1, <1>2, <1>4, <2>1, <2>3, Forgiven
    <2> QED
      BY <2>2, <2>3
  <1>7. RatesKept'
    BY <1>6 DEF RatesKept, Kept
  <1> QED
    BY <1>3, <1>5, <1>7 DEF HistoryInv

LEMMA CleanupKeeps ==
  ASSUME IInv, HistoryInv, cleanupRateLimitBuckets
  PROVE  HistoryInv'
  <1>1. /\ rate_limit_buckets' =
             [b \in {c \in DOMAIN rate_limit_buckets : ~(rate_limit_buckets[c].expires_at < now)} |->
                rate_limit_buckets[b]]
        /\ UNCHANGED <<now, config, ipBuckets, emailBuckets, passed, asked>>
    BY DEF cleanupRateLimitBuckets, RestrictDomain, Restrict
  <1>2. RowsSound /\ Histories /\ now \in Nat
    BY DEF IInv, HistoryInv
  <1>3. Histories' /\ CountersKept'
    BY <1>1, <1>2, SameCounters DEF Histories
  <1>4. ASSUME NEW key, NEW w, NEW most, Kept(key, w, most)
        PROVE  RateKept(key, w, most)'
    <2>1. key \in Keys /\ w \in Nat \ {0} /\ most \in Nat
      BY <1>4, KeptIs
    <2>2. ASSUME NEW start \in Int, start + 2 * w >= now
          PROVE  /\ readCount(key, w, start)' \in Nat
                 /\ readCount(key, w, start) <= readCount(key, w, start)'
      <3> DEFINE b == <<key, w, start>>
      <3>1. b \in DOMAIN rate_limit_buckets => rate_limit_buckets[b].expires_at = start + 2 * w
        BY <1>2 DEF RowsSound, RowIsSound
      <3>2. b \in DOMAIN rate_limit_buckets => ~(rate_limit_buckets[b].expires_at < now)
        BY <1>2, <2>1, <2>2, <3>1
      <3>3. readCount(key, w, start)' = readCount(key, w, start)
        BY <1>1, <3>2 DEF readCount
      <3>4. readCount(key, w, start) \in Nat
        BY <1>2, CountIsNatural
      <3> QED
        BY <3>3, <3>4
    <2> QED
      BY <1>1, <1>4, <2>2, RatesStay
  <1>5. RatesKept'
    BY <1>4 DEF RatesKept, Kept
  <1> QED
    BY <1>3, <1>5 DEF HistoryInv

LEMMA HistoryOfOne ==
  ASSUME Histories, NEW xs \in SUBSET (Ips \union Emails), now' = now, passed' = passed,
         asked' = [x \in Ips \union Emails |->
                     IF x \in xs THEN calledNow(asked[x]) ELSE asked[x]]
  PROVE  Histories'
  <1>1. \A x \in Ips \union Emails : History(asked'[x], now)
    BY OneMore DEF Histories
  <1> QED
    BY <1>1 DEF Histories

LEMMA RequestKeeps ==
  ASSUME IInv, HistoryInv, NEW ip \in Ips, NEW email \in Emails, checkOtpRequestLimit(ip, email)
  PROVE  HistoryInv'
  <1> DEFINE mailed == ~exhausted(emailBuckets, email, EMAIL_LIMIT)
             xs == IF mailed THEN {ip, email} ELSE {ip}
  <1>1. /\ ~exhausted(ipBuckets, ip, IP_LIMIT)
        /\ ipBuckets' = counted(ipBuckets, ip, IP_WINDOW)
        /\ UNCHANGED <<now, rate_limit_buckets, config, passed>>
    BY DEF checkOtpRequestLimit
  <1>2. ip # email /\ email \notin Ips /\ ip \notin Emails
    BY LimitsAssumption
  <1>3. /\ IF mailed THEN emailBuckets' = counted(emailBuckets, email, EMAIL_WINDOW)
                     ELSE emailBuckets' = emailBuckets
        /\ asked' = [x \in Ips \union Emails |->
                       IF x \in xs THEN calledNow(asked[x]) ELSE asked[x]]
    <2>1. asked = [x \in Ips \union Emails |-> asked[x]]
      BY DEF HistoryInv, Histories
    <2>2. CASE mailed
      <3>1. /\ asked' = [asked EXCEPT ![ip] = calledNow(@), ![email] = calledNow(@)]
            /\ emailBuckets' = counted(emailBuckets, email, EMAIL_WINDOW)
        BY <2>2 DEF checkOtpRequestLimit
      <3> QED
        BY <1>2, <2>1, <2>2, <3>1
    <2>3. CASE ~mailed
      <3>1. /\ asked' = [asked EXCEPT ![ip] = calledNow(@)]
            /\ UNCHANGED emailBuckets
        BY <2>3 DEF checkOtpRequestLimit
      <3> QED
        BY <2>1, <2>3, <3>1
    <2> QED
      BY <2>2, <2>3
  <1>4. /\ xs \in SUBSET (Ips \union Emails) /\ ip \in xs /\ (email \in xs <=> mailed)
        /\ \A x \in Ips : x \in xs <=> x = ip
        /\ \A x \in Emails : x \in xs => x = email
    BY <1>2
  <1> HIDE DEF xs, mailed
  <1>5. Histories /\ now \in 0..MaxTime /\ now' = now /\ passed' = passed
    BY <1>1 DEF HistoryInv, Histories
  <1>6. Histories'
    BY <1>3, <1>4, <1>5, HistoryOfOne
  <1>7. RatesKept'
    BY <1>1, SameRates
  <1>8. \A x \in Ips \union Emails :
          asked'[x] = IF x \in xs THEN calledNow(asked[x]) ELSE asked[x]
    BY <1>3
  <1>9. ASSUME NEW x \in Ips PROVE CounterKept(ipBuckets, x, IP_WINDOW, IP_LIMIT)'
    <2>1. CounterKept(ipBuckets, x, IP_WINDOW, IP_LIMIT)
      BY DEF HistoryInv, CountersKept
    <2>2. CASE x = ip
      <3>1. MemorySound(ipBuckets, IP_LIMIT) /\ History(asked[x], now)
        BY DEF IInv, HistoryInv, Histories
      <3>2. IP_WINDOW \in Nat \ {0} /\ IP_LIMIT \in Nat \ {0}
        BY LimitsAssumption
      <3>3. asked'[x] = calledNow(asked[x])
        BY <1>4, <1>8, <2>2
      <3>4. ~exhausted(ipBuckets, x, IP_LIMIT) /\ ipBuckets' = counted(ipBuckets, x, IP_WINDOW)
        BY <1>1, <2>2
      <3>5. /\ x \in DOMAIN ipBuckets'
            /\ LET began == ipBuckets'[x].resetAt - IP_WINDOW
                   V(t) == calledUntil(calledNow(asked[x]), t)
               IN  /\ began \in 0..now
                   /\ ipBuckets'[x].count >= 1
                   /\ V(now) - V(began - 1) = ipBuckets'[x].count
                   /\ V(began) > V(began - 1)
                   /\ V(began + IP_WINDOW - 1) = V(now)
                   /\ \A t \in Int : began - IP_WINDOW <= t /\ t < began =>
                        V(began - 1) - V(t) <= IP_LIMIT - 1
        BY <1>5, <2>1, <3>1, <3>2, <3>3, <3>4, CountedRequest
      <3> QED
        BY <1>5, <3>3, <3>5 DEF CounterKept, CounterIsExact, calledUntil
    <2>3. CASE x # ip
      <3>1. asked'[x] = asked[x]
        BY <1>4, <1>8, <2>3
      <3>2. /\ x \in DOMAIN ipBuckets' <=> x \in DOMAIN ipBuckets
            /\ x \in DOMAIN ipBuckets => ipBuckets'[x] = ipBuckets[x]
        BY <1>1, <2>3, OthersUncounted
      <3> QED
        BY <1>5, <2>1, <3>1, <3>2 DEF CounterKept, CounterIsExact, calledUntil
    <2> QED
      BY <2>2, <2>3
  <1>10. ASSUME NEW x \in Emails PROVE CounterKept(emailBuckets, x, EMAIL_WINDOW, EMAIL_LIMIT)'
    <2>1. CounterKept(emailBuckets, x, EMAIL_WINDOW, EMAIL_LIMIT)
      BY DEF HistoryInv, CountersKept
    <2>2. CASE x = email /\ mailed
      <3>1. MemorySound(emailBuckets, EMAIL_LIMIT) /\ History(asked[x], now)
        BY DEF IInv, HistoryInv, Histories
      <3>2. EMAIL_WINDOW \in Nat \ {0} /\ EMAIL_LIMIT \in Nat \ {0}
        BY LimitsAssumption
      <3>3. asked'[x] = calledNow(asked[x])
        BY <1>4, <1>8, <2>2
      <3>4. /\ ~exhausted(emailBuckets, x, EMAIL_LIMIT)
            /\ emailBuckets' = counted(emailBuckets, x, EMAIL_WINDOW)
        BY <1>3, <2>2 DEF mailed
      <3>5. /\ x \in DOMAIN emailBuckets'
            /\ LET began == emailBuckets'[x].resetAt - EMAIL_WINDOW
                   V(t) == calledUntil(calledNow(asked[x]), t)
               IN  /\ began \in 0..now
                   /\ emailBuckets'[x].count >= 1
                   /\ V(now) - V(began - 1) = emailBuckets'[x].count
                   /\ V(began) > V(began - 1)
                   /\ V(began + EMAIL_WINDOW - 1) = V(now)
                   /\ \A t \in Int : began - EMAIL_WINDOW <= t /\ t < began =>
                        V(began - 1) - V(t) <= EMAIL_LIMIT - 1
        BY <1>5, <2>1, <3>1, <3>2, <3>3, <3>4, CountedRequest
      <3> QED
        BY <1>5, <3>3, <3>5 DEF CounterKept, CounterIsExact, calledUntil
    <2>3. CASE ~(x = email /\ mailed)
      <3>1. asked'[x] = asked[x]
        BY <1>4, <1>8, <2>3
      <3>2. /\ x \in DOMAIN emailBuckets' <=> x \in DOMAIN emailBuckets
            /\ x \in DOMAIN emailBuckets => emailBuckets'[x] = emailBuckets[x]
        BY <1>3, <2>3, OthersUncounted
      <3> QED
        BY <1>5, <2>1, <3>1, <3>2 DEF CounterKept, CounterIsExact, calledUntil
    <2> QED
      BY <2>2, <2>3
  <1>11. CountersKept'
    BY <1>9, <1>10 DEF CountersKept
  <1> QED
    BY <1>6, <1>7, <1>11 DEF HistoryInv

LEMMA RestartKeeps ==
  ASSUME IInv, HistoryInv, Restart
  PROVE  HistoryInv'
  <1>1. /\ ipBuckets' = Empty /\ emailBuckets' = Empty
        /\ asked' = [x \in Ips \union Emails |-> Never]
        /\ UNCHANGED <<now, rate_limit_buckets, config, passed>>
    BY DEF Restart
  <1>2. Histories'
    BY <1>1, NoneYet DEF HistoryInv, Histories
  <1>3. RatesKept'
    BY <1>1, SameRates
  <1>4. \A x \in Ips \union Emails : \A t \in Int : calledUntil(asked'[x], t) = 0
    BY <1>1, NoneYet
  <1>5. CountersKept'
    BY <1>1, <1>4 DEF CountersKept, CounterKept, Empty, calledUntil
  <1> QED
    BY <1>2, <1>3, <1>5 DEF HistoryInv

LEMMA TickKeeps ==
  ASSUME IInv, HistoryInv, Tick
  PROVE  HistoryInv'
  <1>1. /\ now < MaxTime /\ now' = now + 1
        /\ UNCHANGED <<rate_limit_buckets, config, ipBuckets, emailBuckets, passed, asked>>
    BY DEF Tick
  <1>2. now \in 0..MaxTime /\ now \in Nat /\ Histories
    BY LimitsAssumption DEF HistoryInv, Histories
  <1>3. \A calls : History(calls, now) => History(calls, now + 1)
    BY <1>1, <1>2, LimitsAssumption DEF History
  <1>4. Histories'
    <2>1. now' \in 0..MaxTime
      BY <1>1, <1>2, LimitsAssumption
    <2> QED
      BY <1>1, <1>2, <1>3, <2>1 DEF Histories
  <1>5. ASSUME NEW key, NEW w, NEW most, Kept(key, w, most)
        PROVE  RateKept(key, w, most)'
    <2>1. key \in Keys /\ w \in Nat \ {0} /\ most \in Nat
      BY <1>5, KeptIs
    <2>2. History(passed[key], now) /\ RateKept(key, w, most)
      BY <1>5, <2>1, KeptIs DEF HistoryInv, Histories
    <2> QED
      BY <1>1, <1>2, <2>1, <2>2, TimePasses
  <1>6. RatesKept'
    BY <1>5 DEF RatesKept, Kept
  <1>7. \A x \in Ips \union Emails : calledUntil(asked[x], now + 1) = calledUntil(asked[x], now)
    <2> TAKE x \in Ips \union Emails
    <2>1. now + 1 \in Int /\ now + 1 >= now
      BY <1>2
    <2>2. History(asked[x], now)
      BY <1>2 DEF Histories
    <2> QED
      BY <1>2, <2>1, <2>2, Counts
  <1>8. 0..now \subseteq 0..(now + 1)
    BY <1>2
  <1>9. CountersKept'
    <2>1. ASSUME NEW x \in Ips PROVE CounterKept(ipBuckets, x, IP_WINDOW, IP_LIMIT)'
      <3>1. CounterKept(ipBuckets, x, IP_WINDOW, IP_LIMIT)
        BY DEF HistoryInv, CountersKept
      <3>2. calledUntil(asked[x], now + 1) = calledUntil(asked[x], now)
        BY <1>7
      <3> QED
        BY <1>1, <1>8, <3>1, <3>2 DEF CounterKept, CounterIsExact
    <2>2. ASSUME NEW x \in Emails PROVE CounterKept(emailBuckets, x, EMAIL_WINDOW, EMAIL_LIMIT)'
      <3>1. CounterKept(emailBuckets, x, EMAIL_WINDOW, EMAIL_LIMIT)
        BY DEF HistoryInv, CountersKept
      <3>2. calledUntil(asked[x], now + 1) = calledUntil(asked[x], now)
        BY <1>7
      <3> QED
        BY <1>1, <1>8, <3>1, <3>2 DEF CounterKept, CounterIsExact
    <2> QED
      BY <2>1, <2>2 DEF CountersKept
  <1> QED
    BY <1>4, <1>6, <1>9 DEF HistoryInv

LEMMA HistoryStep == IInv /\ HistoryInv /\ [Next]_vars => HistoryInv'
  <1> SUFFICES ASSUME IInv, HistoryInv, [Next]_vars PROVE HistoryInv'
    OBVIOUS
  <1>1. ASSUME NEW u \in UserIds, slidingWindowChecks(u) PROVE HistoryInv'
    BY <1>1, MiddlewareKeeps
  <1>2. ASSUME NEW u \in UserIds, clearForUser(u) PROVE HistoryInv'
    <2>1. IInv'
      BY <1>2, StepPreserves DEF Next
    <2> QED
      BY <1>2, <2>1, PardonKeeps
  <1>3. ASSUME NEW ip \in Ips, registerCheckOrThrow(ip) PROVE HistoryInv'
    BY <1>3, RegistrationKeeps
  <1>4. ASSUME NEW w \in Windows, NEW limit \in LimitInputs, config_set(w, limit)
        PROVE  HistoryInv'
    <2>1. UNCHANGED <<now, rate_limit_buckets, ipBuckets, emailBuckets, passed, asked>>
      BY <1>4 DEF config_set
    <2>2. RatesKept' /\ CountersKept'
      BY <2>1, SameRates, SameCounters
    <2> QED
      BY <2>1, <2>2 DEF HistoryInv, Histories
  <1>5. CASE cleanupRateLimitBuckets
    BY <1>5, CleanupKeeps
  <1>6. ASSUME NEW ip \in Ips, NEW email \in Emails, checkOtpRequestLimit(ip, email)
        PROVE  HistoryInv'
    BY <1>6, RequestKeeps
  <1>7. CASE Restart
    BY <1>7, RestartKeeps
  <1>8. CASE Tick
    BY <1>8, TickKeeps
  <1>9. CASE UNCHANGED vars
    <2>1. UNCHANGED <<now, rate_limit_buckets, ipBuckets, emailBuckets, passed, asked>>
      BY <1>9 DEF vars
    <2>2. RatesKept' /\ CountersKept'
      BY <2>1, SameRates, SameCounters
    <2> QED
      BY <2>1, <2>2 DEF HistoryInv, Histories
  <1> QED
    BY <1>1, <1>2, <1>3, <1>4, <1>5, <1>6, <1>7, <1>8, <1>9 DEF Next, rateLimitMiddleware

\* What the rows and the counters say of the calls let through, in every
\* reachable state.
THEOREM HistoriesKept == Spec => []HistoryInv
  <1>1. Init => HistoryInv
    BY InitHistories
  <1>2. IInv /\ HistoryInv /\ [Next]_vars => HistoryInv'
    BY HistoryStep
  <1> QED
    BY <1>1, <1>2, Invariance, PTL DEF Spec

\* Requests for one-time codes are spaced, for an address and for an e-mail,
\* whatever the limits and the windows, and however often the process restarts.
THEOREM CodesStaySpaced == Spec => []CodesAreSpaced
  <1>1. IInv /\ HistoryInv => CodesAreSpaced
    <2> SUFFICES ASSUME IInv, HistoryInv PROVE CodesAreSpaced
      OBVIOUS
    <2>1. /\ now \in 0..MaxTime
          /\ \A x \in Ips \union Emails : History(asked[x], now)
          /\ MemorySound(ipBuckets, IP_LIMIT) /\ MemorySound(emailBuckets, EMAIL_LIMIT)
          /\ \A x \in Ips : CounterKept(ipBuckets, x, IP_WINDOW, IP_LIMIT)
          /\ \A x \in Emails : CounterKept(emailBuckets, x, EMAIL_WINDOW, EMAIL_LIMIT)
      BY DEF IInv, HistoryInv, Histories, CountersKept
    <2>2. /\ IP_WINDOW \in Nat \ {0} /\ IP_LIMIT \in Nat \ {0}
          /\ EMAIL_WINDOW \in Nat \ {0} /\ EMAIL_LIMIT \in Nat \ {0}
      BY LimitsAssumption
    <2>3. \A x \in Ips : CalledBetween(asked[x], now - IP_WINDOW + 1, now) <= 2 * IP_LIMIT - 1
      BY <2>1, <2>2, Spaced
    <2>4. \A x \in Emails :
            CalledBetween(asked[x], now - EMAIL_WINDOW + 1, now) <= 2 * EMAIL_LIMIT - 1
      BY <2>1, <2>2, Spaced
    <2> QED
      BY <2>3, <2>4 DEF CodesAreSpaced
  <1> QED
    BY <1>1, Invariance, HistoriesKept, PTL

\* The arithmetic of a stretch that reaches into the window before: its calls
\* are those of the two windows at most, and the weight that the window before
\* had when the last call was admitted bounds them.
LEMMA Share ==
  ASSUME NEW before \in Nat, NEW current \in Nat, NEW window \in Nat \ {0}, NEW limit \in Nat,
         NEW elapsed \in Nat, NEW gap \in Nat, elapsed <= gap, elapsed < window,
         before <= limit, current <= limit,
         current > 0 => before * (window - elapsed) + (current - 1) * window < limit * window
  PROVE  window * (before + current) < limit * (window + gap) + window
  <1>1. window * (before + current) = before * window + current * window
    OBVIOUS
  <1>2. limit * (window + gap) = limit * window + limit * gap
    OBVIOUS
  <1>3. before * window <= limit * window /\ before * elapsed <= limit * gap
    <2>1. before * elapsed <= limit * elapsed /\ limit * elapsed <= limit * gap
      OBVIOUS
    <2>2. before * elapsed \in Int /\ limit * elapsed \in Int /\ limit * gap \in Int
      OBVIOUS
    <2>3. before * window <= limit * window
      OBVIOUS
    <2> QED
      BY <2>1, <2>2, <2>3
  <1>4. /\ before * window \in Int /\ current * window \in Int /\ limit * window \in Int
        /\ limit * gap \in Nat /\ before * elapsed \in Int
    OBVIOUS
  <1>5. CASE current = 0
    BY <1>1, <1>2, <1>3, <1>4, <1>5
  <1>6. CASE current > 0
    <2>1. before * (window - elapsed) = before * window - before * elapsed
      OBVIOUS
    <2>2. (current - 1) * window = current * window - window
      OBVIOUS
    <2> QED
      BY <1>1, <1>2, <1>3, <1>4, <1>6, <2>1, <2>2
  <1> QED
    BY <1>5, <1>6

LEMMA SmoothIs ==
  ASSUME now \in 0..MaxTime, NEW key, NEW window \in Nat \ {0}, NEW limit \in Nat,
         RowsSound, History(passed[key], now), RateKept(key, window, limit),
         \A start \in Int : readCount(key, window, start) <= limit
  PROVE  Smooth(passed[key], window, limit)
  <1> DEFINE start == bucketStart(now, window)
             U(t) == calledUntil(passed[key], t)
  <1>1. /\ \A t \in Int : U(t) \in Nat
        /\ \A s, t \in Int : s <= t => U(s) <= U(t)
    BY Counts
  <1>2. now \in Int
    BY LimitsAssumption
  <1>3. start \in Int /\ start <= now /\ now < start + window
    BY <1>2, StartIs, Zenon
  <1>4. /\ \E n \in Int : start = n * window
        /\ \E n \in Int : start - window = n * window
    BY <1>2, WindowBefore, Zenon
  <1> DEFINE before == U(start - 1) - U(start - window - 1)
             current == U(now) - U(start - 1)
             elapsed == now - start
  <1>5. before \in Nat /\ before <= limit
    <2>1. start - window \in Int /\ start - window + 2 * window >= now
      <3> HIDE DEF start
      <3> QED
        BY <1>2, <1>3
    <2>2. U(start - window + window - 1) - U(start - window - 1)
            <= readCount(key, window, start - window)
      BY <1>4, <2>1 DEF RateKept, RowsCount, CalledBetween
    <2>3. start - window + window - 1 = start - 1
      BY <1>3
    <2>4. U(start - 1) - U(start - window - 1) <= readCount(key, window, start - window)
      BY <2>2, <2>3
    <2>5. readCount(key, window, start - window) \in Nat
          /\ readCount(key, window, start - window) <= limit
      BY <2>1, CountIsNatural
    <2>6. /\ U(start - 1) \in Nat /\ U(start - window - 1) \in Nat
          /\ U(start - window - 1) <= U(start - 1)
      <3>1. start - 1 \in Int /\ start - window - 1 \in Int /\ start - window - 1 <= start - 1
        BY <1>3
      <3> HIDE DEF U, start
      <3> QED
        BY <1>1, <3>1
    <2> HIDE DEF U, start
    <2> QED
      BY <2>4, <2>5, <2>6
  <1>6. current \in Nat /\ current <= limit
    <2>1. start + 2 * window >= now /\ start + window - 1 \in Int
      <3> HIDE DEF start
      <3> QED
        BY <1>2, <1>3
    <2>2. U(start + window - 1) - U(start - 1) <= readCount(key, window, start)
      BY <1>3, <1>4, <2>1 DEF RateKept, RowsCount, CalledBetween
    <2>3. readCount(key, window, start) \in Nat /\ readCount(key, window, start) <= limit
      BY <1>3, CountIsNatural
    <2>4. /\ U(start - 1) \in Nat /\ U(now) \in Nat /\ U(start + window - 1) \in Nat
          /\ U(start - 1) <= U(now) /\ U(now) <= U(start + window - 1)
      <3> HIDE DEF U, start
      <3> QED
        BY <1>1, <1>2, <1>3, <2>1
    <2> HIDE DEF U, start
    <2> QED
      BY <2>2, <2>3, <2>4
  <1>7. current > 0 => before * (window - elapsed) + (current - 1) * window < limit * window
    BY DEF RateKept, WasAdmitted, CalledBetween
  <1>8. ASSUME NEW gap \in 0..(window - 1)
        PROVE  window * CalledBetween(passed[key], now - gap - 1, now)
                 < limit * (window + gap) + window
    <2> DEFINE since == now - gap - 1 - 1
               stretch == U(now) - U(since)
    <2>1. /\ since \in Int /\ gap \in Nat /\ gap < window /\ since <= now
          /\ elapsed \in Nat /\ elapsed < window
      <3> HIDE DEF start
      <3> QED
        BY <1>2, <1>3, <1>8
    <2>2. /\ U(since) \in Nat /\ U(now) \in Nat /\ U(since) <= U(now)
          /\ U(start - 1) \in Nat /\ U(start - window - 1) \in Nat
      <3>1. start - 1 \in Int /\ start - window - 1 \in Int
        BY <1>3
      <3> HIDE DEF U, start, since
      <3> QED
        BY <1>1, <1>2, <2>1, <3>1
    <2>3. CASE start - 1 <= since
      <3>1. stretch <= current
        <4>1. U(start - 1) <= U(since)
          <5> HIDE DEF U, start, since
          <5> QED
            BY <1>1, <1>3, <2>1, <2>3
        <4> HIDE DEF U, start, since
        <4> QED
          BY <2>2, <4>1
      <3>2. stretch \in Nat /\ stretch <= limit
        <4>1. stretch \in Nat
          <5> HIDE DEF U, start, since
          <5> QED
            BY <2>2
        <4> HIDE DEF stretch, current
        <4> QED
          BY <1>6, <3>1, <4>1
      <3> HIDE DEF stretch
      <3>3. window * stretch <= window * limit
        BY <3>2
      <3>4. limit * (window + gap) = window * limit + limit * gap
        BY <2>1
      <3>5. window * stretch \in Int /\ window * limit \in Int /\ limit * gap \in Nat
        BY <2>1, <3>2
      <3>6. window * stretch < limit * (window + gap) + window
        BY <3>3, <3>4, <3>5
      <3> QED
        BY <3>6 DEF stretch, CalledBetween
    <2>4. CASE ~(start - 1 <= since)
      <3>1. elapsed <= gap /\ start - window - 1 <= since
        <4> HIDE DEF start
        <4> QED
          BY <1>2, <1>3, <2>1, <2>4
      <3>2. stretch <= before + current
        <4>1. U(start - window - 1) <= U(since)
          <5> HIDE DEF U, since
          <5>1. start - window - 1 \in Int
            BY <1>3
          <5> HIDE DEF start
          <5> QED
            BY <1>1, <2>1, <3>1, <5>1
        <4> HIDE DEF U, start, since
        <4> QED
          BY <2>2, <4>1
      <3>3. stretch \in Nat
        <4> HIDE DEF U, start, since
        <4> QED
          BY <2>2
      <3> HIDE DEF stretch, before, current, elapsed
      <3>4. window * (before + current) < limit * (window + gap) + window
        BY <1>5, <1>6, <1>7, <2>1, <3>1, Share
      <3>5. window * stretch <= window * (before + current)
        BY <1>5, <1>6, <3>2, <3>3
      <3>6. /\ window * stretch \in Int /\ window * (before + current) \in Int
            /\ limit * (window + gap) \in Int
        BY <1>5, <1>6, <2>1, <3>3
      <3>7. window * stretch < limit * (window + gap) + window
        BY <3>4, <3>5, <3>6
      <3> QED
        BY <3>7 DEF stretch, CalledBetween
    <2> QED
      BY <2>3, <2>4
  <1> QED
    BY <1>8 DEF Smooth

\* No burst on the two sides of the end of a window: the estimate that weighs
\* the window before bounds, in every stretch up to a window's length, the calls
\* it lets through, whatever the windows, the limits and the changes that the
\* administrator makes to them, and although expired rows are deleted.  The
\* calls that skip the windows are bounded by nothing.
THEOREM BurstsStaySmooth == Spec => []BurstsAreSmooth
  <1>1. IInv /\ HistoryInv => BurstsAreSmooth
    <2> SUFFICES ASSUME IInv, HistoryInv PROVE BurstsAreSmooth
      OBVIOUS
    <2>1. RowsSound /\ now \in 0..MaxTime /\ \A k \in Keys : History(passed[k], now)
      BY DEF IInv, HistoryInv, Histories
    <2>2. \A b \in DOMAIN rate_limit_buckets : RowIsSound(b, rate_limit_buckets[b])
      BY <2>1 DEF RowsSound
    <2>3. \A k, w, start : readCount(k, w, start) \in Nat
      BY <2>1, CountIsNatural
    <2>4. ASSUME NEW u \in UserIds, NEW w \in Windows
          PROVE  Smooth(passed[u], w, HighestLimit(w))
      <3>1. w \in Nat \ {0} /\ HighestLimit(w) \in Nat /\ u \in Keys
        BY HighestIs, LimitsAssumption DEF Keys
      <3>2. ASSUME NEW start \in Int PROVE readCount(u, w, start) <= HighestLimit(w)
        <4>1. CASE <<u, w, start>> \in DOMAIN rate_limit_buckets
          <5>1. PICK limit \in LimitsOf(w) : readCount(u, w, start) <= limit
            BY <2>2, <4>1 DEF RowIsSound, readCount
          <5>2. limit \in Nat /\ limit <= HighestLimit(w)
            BY HighestIs
          <5>3. readCount(u, w, start) \in Nat
            BY <2>3
          <5> QED
            BY <3>1, <5>1, <5>2, <5>3
        <4>2. CASE <<u, w, start>> \notin DOMAIN rate_limit_buckets
          BY <3>1, <4>2 DEF readCount
        <4> QED
          BY <4>1, <4>2
      <3>3. RateKept(u, w, HighestLimit(w))
        BY DEF HistoryInv, RatesKept
      <3> QED
        BY <2>1, <3>1, <3>2, <3>3, SmoothIs
    <2>5. ASSUME NEW ip \in Ips
          PROVE  Smooth(passed[ip], RegisterWindow, RegisterLimit)
      <3>1. RegisterWindow \in Nat \ {0} /\ RegisterLimit \in Nat /\ ip \in Keys
        BY LimitsAssumption DEF Keys
      <3>2. ASSUME NEW start \in Int
            PROVE  readCount(ip, RegisterWindow, start) <= RegisterLimit
        <4>1. CASE <<ip, RegisterWindow, start>> \in DOMAIN rate_limit_buckets
          BY <2>2, <4>1 DEF RowIsSound, readCount
        <4>2. CASE <<ip, RegisterWindow, start>> \notin DOMAIN rate_limit_buckets
          BY <3>1, <4>2 DEF readCount
        <4> QED
          BY <4>1, <4>2
      <3>3. RateKept(ip, RegisterWindow, RegisterLimit)
        BY DEF HistoryInv, RatesKept
      <3> QED
        BY <2>1, <3>1, <3>2, <3>3, SmoothIs
    <2> QED
      BY <2>4, <2>5 DEF BurstsAreSmooth
  <1> QED
    BY <1>1, Invariance, HistoriesKept, PTL
=============================================================================
