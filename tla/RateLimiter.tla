----------------------------- MODULE RateLimiter -----------------------------
(***************************************************************************)
(* InMemoryRateLimiter of shared/src/security/rate-limiter.ts: counters in *)
(* a sliding window per key, with reservations for attempts whose outcome  *)
(* is still awaited.  A limiter is a value, [buckets, lastCleanup]; each   *)
(* method of the class is a function from the limiter it finds to the one  *)
(* it leaves, evaluated at the time t the clock shows.                     *)
(*                                                                         *)
(* A bucket holds two sets of events [by, at]: the counted attempts and    *)
(* the pending reservations.  `by`, the request the event belongs to,      *)
(* stands for the reservation's sequence number: a request reserves at     *)
(* most once.  The map has an entry exactly where a bucket holds an event. *)
(***************************************************************************)
EXTENDS Integers, FiniteSets, FiniteSetsExt

CONSTANTS
  Key,             \* keys of the buckets map
  Request,         \* who records and reserves
  Limit,           \* policy.limit of each key
  Window,          \* policy.windowMs of each key, in ticks
  ReservationMax,  \* RATE_LIMIT_RESERVATION_MAX_MS, in ticks
  CleanupInterval, \* RATE_LIMIT_CLEANUP_INTERVAL_MS, in ticks
  MaxKeys,         \* RATE_LIMIT_MAX_KEYS
  TicksPerSecond   \* resolution of the clock below Retry-After's seconds

ASSUME RequestAssumption == IsFiniteSet(Request)
ASSUME KeyAssumption == IsFiniteSet(Key)
ASSUME PolicyAssumption ==
  /\ Limit \in [Key -> Nat \ {0}]
  /\ Window \in [Key -> Nat \ {0}]
  /\ MaxKeys \in Nat \ {0}
  /\ TicksPerSecond \in Nat \ {0}

\* rate-limit-policy.ts: both intervals are a minute, the shortest window ten.
ASSUME IntervalAssumption ==
  /\ ReservationMax \in Nat \ {0}
  /\ CleanupInterval \in Nat \ {0}
  /\ \A k \in Key : ReservationMax <= Window[k] /\ CleanupInterval <= Window[k]

Event == [by : Request, at : Nat]
EventOf(r, t) == [by |-> r, at |-> t]
Bucket == [attempts : SUBSET Event, pending : SUBSET Event]
Limiter == [buckets : [Key -> Bucket], lastCleanup : Nat]

NoBucket == [attempts |-> {}, pending |-> {}]
NewLimiter == [buckets |-> [k \in Key |-> NoBucket], lastCleanup |-> 0]

Count(b) == Cardinality(b.attempts) + Cardinality(b.pending)

-----------------------------------------------------------------------------
Recent(events, age, t) == {e \in events : e.at > t - age}

\* pruneBucket: forget attempts outside the window and abandoned reservations.
PruneBucket(b, k, t) ==
  [attempts |-> Recent(b.attempts, Window[k], t),
   pending  |-> Recent(b.pending, ReservationMax, t)]

\* Mutant: the periodic cleanup never runs.
NeverDue(l, t) == FALSE

CleanupDue(l, t) == t - l.lastCleanup >= CleanupInterval

\* prune, when evaluate finds it due: every bucket, whatever its key.
Prune(l, t) ==
  IF CleanupDue(l, t)
  THEN [buckets |-> [k \in Key |-> PruneBucket(l.buckets[k], k, t)],
        lastCleanup |-> t]
  ELSE l

\* evaluate, up to its decision: what it forgets.
Evaluate(l, k, t) ==
  LET swept == Prune(l, t)
  IN  [swept EXCEPT !.buckets[k] = PruneBucket(@, k, t)]

\* Mutants: reservations do not count; the limit is exceeded by one.
AtLimitOfFailures(b, k) == Cardinality(b.attempts) >= Limit[k]
OverLimit(b, k) == Count(b) > Limit[k]

\* count >= policy.limit.
AtLimit(b, k) == Count(b) >= Limit[k]

\* A new key while the map is full.
NoRoom(buckets, k) ==
  /\ buckets[k] = NoBucket
  /\ Cardinality({j \in Key : buckets[j] # NoBucket}) >= MaxKeys

\* decision.allowed, of the buckets that evaluate leaves.
Allowed(l, k, t) ==
  LET buckets == Evaluate(l, k, t).buckets
  IN  ~AtLimit(buckets[k], k) /\ ~NoRoom(buckets, k)

\* Mutant: the last event to expire decides.
LatestExpiry(b, k) ==
  Max({e.at + Window[k] : e \in b.attempts} \cup
      {e.at + ReservationMax : e \in b.pending})

\* "The earliest expiring event determines when capacity returns."
Expiry(b, k) ==
  Min({e.at + Window[k] : e \in b.attempts} \cup
      {e.at + ReservationMax : e \in b.pending})

\* Math.ceil of a number of ticks in seconds.
Seconds(ticks) == (ticks + TicksPerSecond - 1) \div TicksPerSecond

\* decision.retryAfterSeconds of a request that is denied.
RetryAfter(l, k, t) ==
  LET b == Evaluate(l, k, t).buckets[k]
  IN  IF AtLimit(b, k) THEN Max({1, Seconds(Expiry(b, k) - t)})
                       ELSE Seconds(Window[k])

-----------------------------------------------------------------------------
\* record: an event that counts at once, unless it is denied.
Record(l, k, r, t) ==
  LET seen == Evaluate(l, k, t)
  IN  IF Allowed(l, k, t)
      THEN [seen EXCEPT !.buckets[k].attempts = @ \cup {EventOf(r, t)}]
      ELSE seen

\* reserve: capacity for an attempt whose outcome will be awaited.
Reserve(l, k, r, t) ==
  LET seen == Evaluate(l, k, t)
  IN  IF Allowed(l, k, t)
      THEN [seen EXCEPT !.buckets[k].pending = @ \cup {EventOf(r, t)}]
      ELSE seen

\* finish: a reservation that expired or was removed commits nothing.
Finish(l, k, r, outcome, t) ==
  LET b == l.buckets[k]
      mine == {e \in b.pending : e.by = r}
      counted == IF outcome = "failure" /\ mine # {}
                 THEN {EventOf(r, t)}
                 ELSE {}
  IN  [l EXCEPT !.buckets[k] = [attempts |-> b.attempts \cup counted,
                                pending  |-> b.pending \ mine]]

\* Mutant: a success also drops what other requests have reserved.
ClearAll(l, k) == [l EXCEPT !.buckets[k] = NoBucket]

\* clear: a success forgets past failures, not the reservations of others.
Clear(l, k) == [l EXCEPT !.buckets[k].attempts = {}]
=============================================================================
