----------------------------- MODULE SignInProofs -----------------------------
(***************************************************************************)
(* What TLAPS proves of sign-in.  First of RateLimiter and SignIn, for any *)
(* policies, any number of keys and concurrent requests, any size of the   *)
(* map and any clock: the types, both limits, the life of a reservation,   *)
(* what retryAfterSeconds promises, the size of the map, that every key    *)
(* reopens, and who gets a session.  Then of ProviderCredentials, which    *)
(* decides the pairs an external sign-in uses (second part).               *)
(*                                                                         *)
(* The argument: no bucket ever holds more events than its limit, and it   *)
(* holds every event of the history that is still in the window.           *)
(***************************************************************************)
EXTENDS SignIn, ProviderCredentials, FiniteSetTheorems, WellFoundedInduction, TLAPS

SoundBucket(b, k, t) ==
  /\ b \in Bucket
  /\ IsFiniteSet(b.attempts)
  /\ IsFiniteSet(b.pending)
  /\ Count(b) <= Limit[k]
  /\ \A e \in b.attempts \cup b.pending : e.at <= t

Sound(l, t) ==
  /\ l \in Limiter
  /\ l.lastCleanup <= t
  /\ \A k \in Key : SoundBucket(l.buckets[k], k, t)

\* From l to m no event is lost that can still matter at t.
Keeps(l, m, t) ==
  \A k \in Key :
    /\ Recent(l.buckets[k].attempts, Window[k], t) \subseteq m.buckets[k].attempts
    /\ Recent(l.buckets[k].pending, ReservationMax, t) \subseteq m.buckets[k].pending

PendingWithin(l, m) ==
  \A k \in Key : m.buckets[k].pending \subseteq l.buckets[k].pending

HistoryIsCounted ==
  /\ \A k \in {IpKey, RegisterKey} :
       InWindow(granted[k], k) \subseteq limiter.buckets[k].attempts
  /\ \A i \in Identity : InWindow(wrong[i], i) \subseteq limiter.buckets[i].attempts

\* The record a login read before its await: an enabled user, and what is
\* stored now unless the account was changed in between.
LoginsAreUsers ==
  \A r \in Request :
    login[r].state = "verifying" =>
      /\ login[r].identity \in Account
      /\ login[r].user.enabled
      /\ r \in outdated \/ account[login[r].identity] = login[r].user

AccountsTyped ==
  /\ account \in [Account -> Users]
  /\ login \in [Request -> LoginState]
  /\ \A r \in Request : login[r].state = "verifying" => login[r].since <= now
  /\ sessions \subseteq Session
  /\ granted \in [Key -> SUBSET Event]
  /\ wrong \in [Identity -> SUBSET Event]
  /\ outdated \subseteq Request

SignInInv ==
  /\ now \in Nat
  /\ Sound(limiter, now)
  /\ AccountsTyped
  /\ HistoryIsCounted
  /\ ReservationsAreHeld
  /\ LoginsAreUsers
  /\ SessionsMatchAccounts

-----------------------------------------------------------------------------
\* The keys of the three policies.
LEMMA Keys ==
  /\ IpKey \in Key /\ RegisterKey \in Key /\ Identity \subseteq Key
  /\ IpKey # RegisterKey /\ IpKey \notin Identity /\ RegisterKey \notin Identity
  /\ Account \subseteq Identity
BY KeysAssumption

\* A part of a sound bucket is sound.
LEMMA LessIsSound ==
  ASSUME NEW k \in Key, NEW t, NEW b, SoundBucket(b, k, t),
         NEW c \in Bucket, c.attempts \subseteq b.attempts, c.pending \subseteq b.pending
  PROVE  SoundBucket(c, k, t)
<1>1. /\ IsFiniteSet(c.attempts) /\ Cardinality(c.attempts) <= Cardinality(b.attempts)
      /\ IsFiniteSet(c.pending) /\ Cardinality(c.pending) <= Cardinality(b.pending)
  BY FS_Subset DEF SoundBucket
<1>2. /\ Cardinality(c.attempts) \in Nat /\ Cardinality(b.attempts) \in Nat
      /\ Cardinality(c.pending) \in Nat /\ Cardinality(b.pending) \in Nat
  BY <1>1, FS_CardinalityType DEF SoundBucket
<1>3. Limit[k] \in Nat
  BY PolicyAssumption
<1>4. Count(c) <= Limit[k]
  BY <1>1, <1>2, <1>3 DEF SoundBucket, Count
<1> QED
  BY <1>1, <1>4 DEF SoundBucket

\* Pruning leaves a part of the bucket; pruning twice does no more.
LEMMA PruneBucketPart ==
  ASSUME NEW k \in Key, NEW t \in Nat, NEW b \in Bucket
  PROVE  /\ PruneBucket(b, k, t) \in Bucket
         /\ PruneBucket(b, k, t).attempts = Recent(b.attempts, Window[k], t)
         /\ PruneBucket(b, k, t).pending = Recent(b.pending, ReservationMax, t)
         /\ PruneBucket(b, k, t).attempts \subseteq b.attempts
         /\ PruneBucket(b, k, t).pending \subseteq b.pending
         /\ PruneBucket(PruneBucket(b, k, t), k, t) = PruneBucket(b, k, t)
BY DEF PruneBucket, Recent, Bucket

\* What evaluate leaves of each bucket: itself or what pruning leaves of it.
LEMMA EvaluateBuckets ==
  ASSUME NEW l \in Limiter, NEW k \in Key, NEW t \in Nat
  PROVE  /\ Evaluate(l, k, t) \in Limiter
         /\ Evaluate(l, k, t).lastCleanup \in {l.lastCleanup, t}
         /\ \A j \in Key : Evaluate(l, k, t).buckets[j] \in
                             {l.buckets[j], PruneBucket(l.buckets[j], j, t)}
         /\ Evaluate(l, k, t).buckets[k] = PruneBucket(l.buckets[k], k, t)
<1> DEFINE swept == Prune(l, t)
           m == Evaluate(l, k, t)
<1>1. \A j \in Key : l.buckets[j] \in Bucket /\ PruneBucket(l.buckets[j], j, t) \in Bucket
  BY PruneBucketPart DEF Limiter
<1>2. /\ swept \in Limiter
      /\ swept.lastCleanup \in {l.lastCleanup, t}
      /\ \A j \in Key : swept.buckets[j] \in {l.buckets[j], PruneBucket(l.buckets[j], j, t)}
  BY <1>1 DEF Prune, Limiter
<1>3. PruneBucket(swept.buckets[k], k, t) = PruneBucket(l.buckets[k], k, t)
  BY <1>1, <1>2, PruneBucketPart
<1>4. m = [swept EXCEPT !.buckets[k] = PruneBucket(l.buckets[k], k, t)]
  BY <1>3 DEF Evaluate
<1> HIDE DEF swept, m
<1>5. /\ m.lastCleanup = swept.lastCleanup
      /\ m.buckets = [swept.buckets EXCEPT ![k] = PruneBucket(l.buckets[k], k, t)]
      /\ m \in Limiter
  BY <1>1, <1>2, <1>4 DEF Limiter
<1>6. \A j \in Key : m.buckets[j] = IF j = k THEN PruneBucket(l.buckets[k], k, t) ELSE swept.buckets[j]
  BY <1>2, <1>5 DEF Limiter
<1> QED
  BY <1>2, <1>5, <1>6 DEF m

LEMMA EvaluateSound ==
  ASSUME NEW l, NEW k \in Key, NEW t \in Nat, Sound(l, t)
  PROVE  /\ Sound(Evaluate(l, k, t), t)
         /\ Keeps(l, Evaluate(l, k, t), t)
         /\ PendingWithin(l, Evaluate(l, k, t))
<1> DEFINE m == Evaluate(l, k, t)
<1>1. l \in Limiter /\ l.lastCleanup <= t /\ \A j \in Key : l.buckets[j] \in Bucket
  BY DEF Sound, Limiter
<1>2. /\ m \in Limiter /\ m.lastCleanup \in {l.lastCleanup, t}
      /\ \A j \in Key : m.buckets[j] \in {l.buckets[j], PruneBucket(l.buckets[j], j, t)}
  BY <1>1, EvaluateBuckets
<1> HIDE DEF m
<1>3. \A j \in Key : /\ m.buckets[j] \in Bucket
                     /\ m.buckets[j].attempts \subseteq l.buckets[j].attempts
                     /\ m.buckets[j].pending \subseteq l.buckets[j].pending
  BY <1>1, <1>2, PruneBucketPart
<1>4. \A j \in Key : SoundBucket(m.buckets[j], j, t)
  BY <1>3, LessIsSound DEF Sound
<1>5. Sound(m, t)
  BY <1>1, <1>2, <1>4 DEF Sound, Limiter
<1>6. Keeps(l, m, t)
  BY <1>1, <1>2, PruneBucketPart DEF Keeps, Recent
<1> QED
  BY <1>3, <1>5, <1>6 DEF PendingWithin, m

\* A bucket below its limit has room for one more event.
LEMMA RoomForOne ==
  ASSUME NEW k \in Key, NEW t, NEW b, SoundBucket(b, k, t), ~AtLimit(b, k),
         NEW e \in Event, e.at <= t,
         NEW c \in Bucket,
         \/ c.attempts = b.attempts \cup {e} /\ c.pending = b.pending
         \/ c.pending = b.pending \cup {e} /\ c.attempts = b.attempts
  PROVE  SoundBucket(c, k, t)
<1>1. /\ Cardinality(b.attempts) \in Nat /\ Cardinality(b.pending) \in Nat /\ Limit[k] \in Nat
      /\ Cardinality(b.attempts) + Cardinality(b.pending) < Limit[k]
  BY FS_CardinalityType, PolicyAssumption DEF SoundBucket, AtLimit, Count
<1>2. /\ IsFiniteSet(c.attempts) /\ IsFiniteSet(c.pending)
      /\ \/ /\ Cardinality(c.attempts) \in {Cardinality(b.attempts), Cardinality(b.attempts) + 1}
            /\ Cardinality(c.pending) = Cardinality(b.pending)
         \/ /\ Cardinality(c.pending) \in {Cardinality(b.pending), Cardinality(b.pending) + 1}
            /\ Cardinality(c.attempts) = Cardinality(b.attempts)
  BY FS_AddElement DEF SoundBucket
<1>3. Count(c) <= Limit[k]
  BY <1>1, <1>2 DEF Count
<1>4. \A x \in c.attempts \cup c.pending : x.at <= t
  BY DEF SoundBucket
<1> QED
  BY <1>2, <1>3, <1>4 DEF SoundBucket

LEMMA RecordSound ==
  ASSUME NEW l, NEW k \in Key, NEW r \in Request, NEW t \in Nat, Sound(l, t)
  PROVE  LET m == Record(l, k, r, t)
         IN  /\ Sound(m, t)
             /\ Keeps(l, m, t)
             /\ PendingWithin(l, m)
             /\ Allowed(l, k, t) => EventOf(r, t) \in m.buckets[k].attempts
<1> DEFINE seen == Evaluate(l, k, t)
           e == EventOf(r, t)
           c == [seen.buckets[k] EXCEPT !.attempts = @ \cup {e}]
           m == Record(l, k, r, t)
<1>1. Sound(seen, t) /\ Keeps(l, seen, t) /\ PendingWithin(l, seen)
  BY EvaluateSound
<1>2. CASE ~Allowed(l, k, t)
  BY <1>1, <1>2 DEF Record
<1>3. CASE Allowed(l, k, t)
  <2>1. ~AtLimit(seen.buckets[k], k)
    BY <1>3 DEF Allowed
  <2>2. m = [seen EXCEPT !.buckets[k].attempts = @ \cup {e}]
    BY <1>3 DEF Record
  <2> HIDE DEF seen, m
  <2>3. e \in Event /\ e.at <= t /\ seen \in Limiter /\ seen.buckets[k] \in Bucket
    BY <1>1 DEF EventOf, Event, Sound, Limiter
  <2>4. /\ c \in Bucket
        /\ c.attempts = seen.buckets[k].attempts \cup {e}
        /\ c.pending = seen.buckets[k].pending
    BY <2>3 DEF Bucket
  <2>5. SoundBucket(c, k, t)
    BY <1>1, <2>1, <2>3, <2>4, RoomForOne DEF Sound
  <2>6. /\ m.lastCleanup = seen.lastCleanup
        /\ m.buckets = [seen.buckets EXCEPT ![k] = c]
        /\ m \in [buckets : [Key -> Bucket], lastCleanup : Nat]
    BY <2>2, <2>3, <2>4 DEF Limiter
  <2> HIDE DEF c, e
  <2>7. m.buckets[k] = c /\ \A j \in Key \ {k} : m.buckets[j] = seen.buckets[j]
    BY <2>3, <2>6 DEF Limiter
  <2>8. Sound(m, t)
    BY <1>1, <2>5, <2>6, <2>7 DEF Sound, Limiter
  <2>9. Keeps(l, m, t) /\ PendingWithin(l, m)
    BY <1>1, <2>4, <2>7 DEF Keeps, PendingWithin
  <2> QED
    BY <2>4, <2>7, <2>8, <2>9 DEF m, e
<1> QED
  BY <1>2, <1>3

LEMMA ReserveSound ==
  ASSUME NEW l, NEW k \in Key, NEW r \in Request, NEW t \in Nat, Sound(l, t)
  PROVE  LET m == Reserve(l, k, r, t)
         IN  /\ Sound(m, t)
             /\ Keeps(l, m, t)
             /\ ~Allowed(l, k, t) => PendingWithin(l, m)
             /\ \A j \in Key \ {k} : m.buckets[j].pending \subseteq l.buckets[j].pending
             /\ m.buckets[k].pending \subseteq l.buckets[k].pending \cup {EventOf(r, t)}
             /\ Allowed(l, k, t) => EventOf(r, t) \in m.buckets[k].pending
<1> DEFINE seen == Evaluate(l, k, t)
           e == EventOf(r, t)
           c == [seen.buckets[k] EXCEPT !.pending = @ \cup {e}]
           m == Reserve(l, k, r, t)
<1>1. Sound(seen, t) /\ Keeps(l, seen, t) /\ PendingWithin(l, seen)
  BY EvaluateSound
<1>2. CASE ~Allowed(l, k, t)
  BY <1>1, <1>2 DEF Reserve, PendingWithin
<1>3. CASE Allowed(l, k, t)
  <2>1. ~AtLimit(seen.buckets[k], k)
    BY <1>3 DEF Allowed
  <2>2. m = [seen EXCEPT !.buckets[k].pending = @ \cup {e}]
    BY <1>3 DEF Reserve
  <2> HIDE DEF seen, m
  <2>3. e \in Event /\ e.at <= t /\ seen \in Limiter /\ seen.buckets[k] \in Bucket
    BY <1>1 DEF EventOf, Event, Sound, Limiter
  <2>4. /\ c \in Bucket
        /\ c.pending = seen.buckets[k].pending \cup {e}
        /\ c.attempts = seen.buckets[k].attempts
    BY <2>3 DEF Bucket
  <2>5. SoundBucket(c, k, t)
    BY <1>1, <2>1, <2>3, <2>4, RoomForOne DEF Sound
  <2>6. /\ m.lastCleanup = seen.lastCleanup
        /\ m.buckets = [seen.buckets EXCEPT ![k] = c]
        /\ m \in [buckets : [Key -> Bucket], lastCleanup : Nat]
    BY <2>2, <2>3, <2>4 DEF Limiter
  <2> HIDE DEF c, e
  <2>7. m.buckets[k] = c /\ \A j \in Key \ {k} : m.buckets[j] = seen.buckets[j]
    BY <2>3, <2>6 DEF Limiter
  <2>8. Sound(m, t)
    BY <1>1, <2>5, <2>6, <2>7 DEF Sound, Limiter
  <2>9. Keeps(l, m, t)
    BY <1>1, <2>4, <2>7 DEF Keeps
  <2>10. /\ \A j \in Key \ {k} : m.buckets[j].pending \subseteq l.buckets[j].pending
         /\ m.buckets[k].pending \subseteq l.buckets[k].pending \cup {e}
         /\ e \in m.buckets[k].pending
    BY <1>1, <2>4, <2>7 DEF PendingWithin
  <2> QED
    BY <1>3, <2>8, <2>9, <2>10 DEF m, e
<1> QED
  BY <1>2, <1>3

\* A failure takes the place its own reservation held.
LEMMA FinishSound ==
  ASSUME NEW l, NEW k \in Key, NEW r \in Request, NEW t \in Nat, Sound(l, t),
         NEW outcome \in {"failure", "release"}
  PROVE  LET m == Finish(l, k, r, outcome, t)
             mine == {e \in l.buckets[k].pending : e.by = r}
         IN  /\ Sound(m, t)
             /\ \A j \in Key \ {k} : m.buckets[j] = l.buckets[j]
             /\ m.buckets[k].pending = l.buckets[k].pending \ mine
             /\ l.buckets[k].attempts \subseteq m.buckets[k].attempts
             /\ outcome = "failure" /\ mine # {} => EventOf(r, t) \in m.buckets[k].attempts
<1> DEFINE b == l.buckets[k]
           mine == {e \in b.pending : e.by = r}
           counted == IF outcome = "failure" /\ mine # {} THEN {EventOf(r, t)} ELSE {}
           c == [attempts |-> b.attempts \cup counted, pending |-> b.pending \ mine]
           m == Finish(l, k, r, outcome, t)
<1>1. m = [l EXCEPT !.buckets[k] = c]
  BY DEF Finish
<1>2. /\ b \in Bucket /\ SoundBucket(b, k, t) /\ l \in Limiter
      /\ EventOf(r, t) \in Event /\ EventOf(r, t).at <= t
  BY DEF Sound, Limiter, EventOf, Event
<1>3. c \in Bucket
  BY <1>2 DEF Bucket
<1>4. SoundBucket(c, k, t)
  <2>1. CASE counted = {}
    BY <1>2, <1>3, <2>1, LessIsSound
  <2>2. CASE counted # {}
    <3>1. PICK own \in b.pending : own.by = r
      BY <2>2
    <3>2. counted = {EventOf(r, t)}
      BY <2>2
    <3> DEFINE held == b.pending \ {own}
               without == [attempts |-> b.attempts, pending |-> held]
               more == [attempts |-> b.attempts \cup {EventOf(r, t)}, pending |-> held]
    <3>3. without \in Bucket /\ more \in Bucket
      BY <1>2 DEF Bucket
    <3>4. SoundBucket(without, k, t)
      BY <1>2, <3>3, LessIsSound
    <3>5. ~AtLimit(without, k)
      <4>1. /\ Cardinality(held) = Cardinality(b.pending) - 1
            /\ Cardinality(held) \in Nat /\ Cardinality(b.pending) \in Nat
            /\ Cardinality(b.attempts) \in Nat /\ Limit[k] \in Nat
        BY <1>2, <3>1, <3>4, FS_RemoveElement, FS_CardinalityType, PolicyAssumption DEF SoundBucket
      <4>2. Cardinality(b.attempts) + Cardinality(b.pending) <= Limit[k]
        BY <1>2 DEF SoundBucket, Count
      <4> HIDE DEF held
      <4>3. Count(without) = Cardinality(b.attempts) + Cardinality(held)
        BY DEF Count
      <4> QED
        BY <4>1, <4>2, <4>3 DEF AtLimit
    <3>6. c.attempts \subseteq more.attempts /\ c.pending \subseteq more.pending
      BY <3>1, <3>2
    <3>7. /\ more.attempts = without.attempts \cup {EventOf(r, t)}
          /\ more.pending = without.pending
      OBVIOUS
    <3> HIDE DEF more, without, c
    <3>8. SoundBucket(more, k, t)
      BY <1>2, <3>3, <3>4, <3>5, <3>7, RoomForOne
    <3> QED
      BY <1>3, <3>6, <3>8, LessIsSound
  <2> QED
    BY <2>1, <2>2
<1>5. /\ c.pending = b.pending \ mine /\ b.attempts \subseteq c.attempts
      /\ outcome = "failure" /\ mine # {} => EventOf(r, t) \in c.attempts
  OBVIOUS
<1> HIDE DEF c, m
<1>6. /\ m.lastCleanup = l.lastCleanup
      /\ m.buckets = [l.buckets EXCEPT ![k] = c]
      /\ m \in [buckets : [Key -> Bucket], lastCleanup : Nat]
  BY <1>1, <1>2, <1>3 DEF Limiter
<1>7. m.buckets[k] = c /\ \A j \in Key \ {k} : m.buckets[j] = l.buckets[j]
  BY <1>2, <1>6 DEF Limiter
<1>8. Sound(m, t)
  BY <1>4, <1>6, <1>7 DEF Sound, Limiter
<1> QED
  BY <1>5, <1>7, <1>8 DEF m

LEMMA ClearSound ==
  ASSUME NEW l, NEW k \in Key, NEW t \in Nat, Sound(l, t)
  PROVE  LET m == Clear(l, k)
         IN  /\ Sound(m, t)
             /\ \A j \in Key \ {k} : m.buckets[j] = l.buckets[j]
             /\ m.buckets[k].pending = l.buckets[k].pending
<1> DEFINE b == l.buckets[k]
           c == [b EXCEPT !.attempts = {}]
           m == Clear(l, k)
<1>1. b \in Bucket /\ l \in Limiter /\ c \in Bucket /\ c.attempts = {} /\ c.pending = b.pending
  BY DEF Sound, Limiter, Bucket
<1>2. SoundBucket(c, k, t)
  BY <1>1, LessIsSound DEF Sound
<1>3. /\ m.lastCleanup = l.lastCleanup
      /\ m.buckets = [l.buckets EXCEPT ![k] = c]
      /\ m \in [buckets : [Key -> Bucket], lastCleanup : Nat]
  BY <1>1 DEF Clear, Limiter
<1> HIDE DEF c, m
<1>4. m.buckets[k] = c /\ \A j \in Key \ {k} : m.buckets[j] = l.buckets[j]
  BY <1>1, <1>3 DEF Limiter
<1>5. Sound(m, t)
  BY <1>2, <1>3, <1>4 DEF Sound, Limiter
<1> QED
  BY <1>1, <1>4, <1>5 DEF m

-----------------------------------------------------------------------------
LEMMA InitSignIn == Init => SignInInv
<1> SUFFICES ASSUME Init PROVE SignInInv
  OBVIOUS
<1>1. now \in Nat /\ limiter = NewLimiter
  BY IntervalAssumption DEF Init
<1>2. \A k \in Key : SoundBucket(NoBucket, k, now)
  <2> SUFFICES ASSUME NEW k \in Key PROVE SoundBucket(NoBucket, k, now)
    OBVIOUS
  <2>1. Count(NoBucket) = 0 /\ Limit[k] \in Nat
    BY FS_EmptySet, PolicyAssumption DEF Count, NoBucket
  <2> QED
    BY <2>1, FS_EmptySet DEF SoundBucket, NoBucket, Bucket
<1>3. Sound(limiter, now)
  BY <1>1, <1>2 DEF Sound, NewLimiter, Limiter, SoundBucket
<1>4. AccountsTyped
  BY DEF Init, AccountsTyped, LoginState, Session
<1>5. HistoryIsCounted
  BY Keys DEF Init, HistoryIsCounted, InWindow, Recent
<1>6. ReservationsAreHeld
  BY Keys DEF Init, ReservationsAreHeld, NewLimiter, NoBucket
<1>7. LoginsAreUsers /\ SessionsMatchAccounts
  BY DEF Init, LoginsAreUsers, SessionsMatchAccounts
<1> QED
  BY <1>1, <1>3, <1>4, <1>5, <1>6, <1>7 DEF SignInInv

\* The history stays counted when the step forgets only what is out of the
\* window, and counts what it adds.
LEMMA StillCounted ==
  ASSUME HistoryIsCounted, now' = now,
         \A k \in {IpKey, RegisterKey} : \A e \in granted'[k] :
           \/ e \in limiter'.buckets[k].attempts
           \/ /\ e \in granted[k]
              /\ Recent(limiter.buckets[k].attempts, Window[k], now)
                   \subseteq limiter'.buckets[k].attempts,
         \A i \in Identity : \A e \in wrong'[i] :
           \/ e \in limiter'.buckets[i].attempts
           \/ /\ e \in wrong[i]
              /\ Recent(limiter.buckets[i].attempts, Window[i], now)
                   \subseteq limiter'.buckets[i].attempts
  PROVE  HistoryIsCounted'
BY DEF HistoryIsCounted, InWindow, Recent

NoneOf(l, r) == \A i \in Identity : \A e \in l.buckets[i].pending : e.by # r

\* From l to m only request r's own reservations come or go before their time.
OthersHeld(l, m, r) ==
  \A i \in Identity :
    /\ {e \in m.buckets[i].pending : e.by # r} \subseteq l.buckets[i].pending
    /\ {e \in Recent(l.buckets[i].pending, ReservationMax, now) : e.by # r}
         \subseteq m.buckets[i].pending

LEMMA NoneWhileIdle ==
  ASSUME ReservationsAreHeld, NEW r \in Request, login[r].state # "verifying"
  PROVE  NoneOf(limiter, r)
BY DEF ReservationsAreHeld, NoneOf

\* The reservations of the other requests' logins.
LEMMA OthersStillHeld ==
  ASSUME ReservationsAreHeld, AccountsTyped, now \in Nat, now' = now,
         NEW r \in Request, NEW q \in Request \ {r}, login'[q] = login[q],
         OthersHeld(limiter, limiter', r)
  PROVE  \A i \in Identity :
           /\ /\ login'[q].state = "verifying"
              /\ login'[q].identity = i
              /\ now' < login'[q].since + ReservationMax
              => EventOf(q, login'[q].since) \in limiter'.buckets[i].pending
           /\ (\E e \in limiter'.buckets[i].pending : e.by = q)
                => login'[q].state = "verifying" /\ login'[q].identity = i
<1> SUFFICES ASSUME NEW i \in Identity
             PROVE  /\ /\ login'[q].state = "verifying"
                       /\ login'[q].identity = i
                       /\ now' < login'[q].since + ReservationMax
                       => EventOf(q, login'[q].since) \in limiter'.buckets[i].pending
                    /\ (\E e \in limiter'.buckets[i].pending : e.by = q)
                         => login'[q].state = "verifying" /\ login'[q].identity = i
  OBVIOUS
<1>1. ASSUME login[q].state = "verifying", login[q].identity = i, now < login[q].since + ReservationMax
      PROVE  EventOf(q, login[q].since) \in limiter'.buckets[i].pending
  <2>1. EventOf(q, login[q].since) \in limiter.buckets[i].pending
    BY <1>1 DEF ReservationsAreHeld
  <2>2. login[q].since \in Nat /\ ReservationMax \in Nat
    BY <1>1, IntervalAssumption DEF AccountsTyped, LoginState, Ended
  <2>3. EventOf(q, login[q].since) \in Recent(limiter.buckets[i].pending, ReservationMax, now)
    BY <1>1, <2>1, <2>2 DEF Recent, EventOf
  <2> QED
    BY <2>3 DEF OthersHeld, EventOf
<1>2. (\E e \in limiter'.buckets[i].pending : e.by = q)
        => login[q].state = "verifying" /\ login[q].identity = i
  BY DEF OthersHeld, ReservationsAreHeld
<1> QED
  BY <1>1, <1>2

LEMMA StillHeldWhenEnded ==
  ASSUME ReservationsAreHeld, AccountsTyped, now \in Nat, now' = now,
         NEW r \in Request, \A q \in Request \ {r} : login'[q] = login[q],
         login'[r].state # "verifying", NoneOf(limiter', r),
         OthersHeld(limiter, limiter', r)
  PROVE  ReservationsAreHeld'
<1> SUFFICES ASSUME NEW q \in Request, NEW i \in Identity
             PROVE  /\ /\ login'[q].state = "verifying"
                       /\ login'[q].identity = i
                       /\ now' < login'[q].since + ReservationMax
                       => EventOf(q, login'[q].since) \in limiter'.buckets[i].pending
                    /\ (\E e \in limiter'.buckets[i].pending : e.by = q)
                         => login'[q].state = "verifying" /\ login'[q].identity = i
  BY DEF ReservationsAreHeld
<1>1. CASE q # r
  BY <1>1, OthersStillHeld
<1>2. CASE q = r
  BY <1>2 DEF NoneOf
<1> QED
  BY <1>1, <1>2

\* A request comes to its end, with or without a session.
LEMMA EndedInv ==
  ASSUME SignInInv, NEW r \in Request, UNCHANGED <<now, account, outdated>>,
         login' \in [Request -> LoginState],
         \A q \in Request \ {r} : login'[q] = login[q],
         login'[r].state # "verifying",
         \A s \in sessions' :
           \/ s \in sessions
           \/ s \in Session /\ (MatchesAccount(s) \/ s.by \in outdated),
         granted' \in [Key -> SUBSET Event], wrong' \in [Identity -> SUBSET Event],
         Sound(limiter', now), HistoryIsCounted',
         NoneOf(limiter', r), OthersHeld(limiter, limiter', r)
  PROVE  SignInInv'
<1> USE DEF SignInInv
<1>1. ReservationsAreHeld'
  BY StillHeldWhenEnded
<1>2. \A q \in Request : login'[q].state = "verifying" => login'[q] = login[q]
  OBVIOUS
<1>3. AccountsTyped' /\ LoginsAreUsers' /\ SessionsMatchAccounts'
  BY <1>2 DEF AccountsTyped, LoginsAreUsers, SessionsMatchAccounts, MatchesAccount
<1>4. Sound(limiter, now)'
  OBVIOUS
<1> QED
  BY <1>1, <1>3, <1>4

LEMMA KeptForOthers ==
  ASSUME NEW l, NEW m, NEW r, Keeps(l, m, now), Identity \subseteq Key,
         \A i \in Identity : {e \in m.buckets[i].pending : e.by # r} \subseteq l.buckets[i].pending
  PROVE  OthersHeld(l, m, r)
BY DEF Keeps, OthersHeld

\* A request that has not begun becomes one that has ended.
LEMMA EndOfIdle ==
  ASSUME SignInInv, NEW r \in Request, login[r].state = "idle", NEW s \in Ended,
         \/ login' = [login EXCEPT ![r].state = s]
         \/ login' = [login EXCEPT ![r] = [state |-> s]]
  PROVE  /\ login' \in [Request -> LoginState]
         /\ \A q \in Request \ {r} : login'[q] = login[q]
         /\ login'[r].state # "verifying"
<1>1. login \in [Request -> LoginState]
  BY DEF SignInInv, AccountsTyped
<1>2. login[r] \in [state : {"idle"} \cup Ended]
  BY <1>1 DEF LoginState
<1>3. [login[r] EXCEPT !.state = s] \in [state : Ended] /\ [state |-> s] \in [state : Ended]
  BY <1>2
<1>4. /\ login'[r] \in [state : Ended]
      /\ login' = [login EXCEPT ![r] = login'[r]]
  BY <1>1, <1>3
<1>5. s # "verifying" /\ login'[r].state = s
  BY <1>1, <1>2 DEF Ended
<1> QED
  BY <1>1, <1>4, <1>5 DEF LoginState

LEMMA RegisterInv ==
  ASSUME SignInInv, NEW r \in Request, Register(r)
  PROVE  SignInInv'
<1> DEFINE allowed == Allowed(limiter, RegisterKey, now)
           m == Record(limiter, RegisterKey, r, now)
<1> USE DEF SignInInv
<1>1. /\ login[r].state = "idle" /\ limiter' = m
      /\ UNCHANGED <<now, account, sessions, wrong, outdated>>
      /\ login' = [login EXCEPT ![r].state = IF allowed THEN "registered" ELSE "refused"]
      /\ granted' = IF allowed THEN [granted EXCEPT ![RegisterKey] = @ \cup {EventOf(r, now)}]
                               ELSE granted
  BY DEF Register
<1>2. /\ Sound(m, now) /\ Keeps(limiter, m, now) /\ PendingWithin(limiter, m)
      /\ allowed => EventOf(r, now) \in m.buckets[RegisterKey].attempts
  BY RecordSound, Keys
<1> HIDE DEF m, allowed
<1>3. /\ login' \in [Request -> LoginState]
      /\ \A q \in Request \ {r} : login'[q] = login[q]
      /\ login'[r].state # "verifying"
  <2>1. (IF allowed THEN "registered" ELSE "refused") \in Ended
    BY DEF Ended
  <2> QED
    BY <1>1, <2>1, EndOfIdle
<1>4. granted' \in [Key -> SUBSET Event]
  BY <1>1, Keys DEF AccountsTyped, Event, EventOf
<1>5. HistoryIsCounted'
  <2>1. \A k \in {IpKey, RegisterKey} : \A e \in granted'[k] :
          \/ e \in limiter'.buckets[k].attempts
          \/ /\ e \in granted[k]
             /\ Recent(limiter.buckets[k].attempts, Window[k], now)
                  \subseteq limiter'.buckets[k].attempts
    BY <1>1, <1>2, Keys DEF AccountsTyped, Keeps
  <2>2. \A i \in Identity : \A e \in wrong'[i] :
          \/ e \in limiter'.buckets[i].attempts
          \/ /\ e \in wrong[i]
             /\ Recent(limiter.buckets[i].attempts, Window[i], now)
                  \subseteq limiter'.buckets[i].attempts
    BY <1>1, <1>2, Keys DEF Keeps
  <2> QED
    BY <1>1, <2>1, <2>2, StillCounted
<1>6. NoneOf(limiter', r) /\ OthersHeld(limiter, limiter', r)
  BY <1>1, <1>2, Keys, NoneWhileIdle, KeptForOthers DEF PendingWithin, NoneOf
<1>7. wrong' \in [Identity -> SUBSET Event]
  BY <1>1 DEF AccountsTyped
<1> QED
  BY <1>1, <1>2, <1>3, <1>4, <1>5, <1>6, <1>7, EndedInv

LEMMA RefuseByAddressInv ==
  ASSUME SignInInv, NEW r \in Request, RefuseByAddress(r)
  PROVE  SignInInv'
<1> DEFINE m == Record(limiter, IpKey, r, now)
<1> USE DEF SignInInv
<1>1. /\ login[r].state = "idle" /\ limiter' = m
      /\ UNCHANGED <<now, account, sessions, granted, wrong, outdated>>
      /\ login' = [login EXCEPT ![r].state = "refused"]
  BY DEF RefuseByAddress, historyVars
<1>2. Sound(m, now) /\ Keeps(limiter, m, now) /\ PendingWithin(limiter, m)
  BY RecordSound, Keys
<1> HIDE DEF m
<1>3. /\ login' \in [Request -> LoginState]
      /\ \A q \in Request \ {r} : login'[q] = login[q]
      /\ login'[r].state # "verifying"
  <2>1. "refused" \in Ended
    BY DEF Ended
  <2> QED
    BY <1>1, <2>1, EndOfIdle
<1>4. granted' \in [Key -> SUBSET Event] /\ wrong' \in [Identity -> SUBSET Event]
  BY <1>1 DEF AccountsTyped
<1>5. HistoryIsCounted'
  BY <1>1, <1>2, Keys, StillCounted DEF Keeps
<1>6. NoneOf(limiter', r) /\ OthersHeld(limiter, limiter', r)
  BY <1>1, <1>2, Keys, NoneWhileIdle, KeptForOthers DEF PendingWithin, NoneOf
<1> QED
  BY <1>1, <1>2, <1>3, <1>4, <1>5, <1>6, EndedInv

\* The first limit lets a login through: it is counted for its address.
LEMMA CountedSound ==
  ASSUME SignInInv, NEW r \in Request, Allowed(limiter, IpKey, now)
  PROVE  /\ Sound(Counted(r), now)
         /\ Keeps(limiter, Counted(r), now)
         /\ PendingWithin(limiter, Counted(r))
         /\ EventOf(r, now) \in Counted(r).buckets[IpKey].attempts
BY RecordSound, Keys DEF SignInInv, Counted

\* What was in the window stays through two calls made at one time.
LEMMA KeepsTwice ==
  ASSUME NEW l, NEW m, NEW n, NEW t, Keeps(l, m, t), Keeps(m, n, t)
  PROVE  Keeps(l, n, t)
BY DEF Keeps, Recent

\* The history stays counted when one event is granted to the address and one
\* may be added to an identity's failures.
LEMMA CountedGrant ==
  ASSUME SignInInv, NEW r \in Request, now' = now, Keeps(limiter, limiter', now),
         granted' = [granted EXCEPT ![IpKey] = @ \cup {EventOf(r, now)}],
         EventOf(r, now) \in limiter'.buckets[IpKey].attempts,
         NEW i \in Identity,
         \/ wrong' = wrong
         \/ /\ wrong' = [wrong EXCEPT ![i] = @ \cup {EventOf(r, now)}]
            /\ EventOf(r, now) \in limiter'.buckets[i].attempts
  PROVE  /\ HistoryIsCounted'
         /\ granted' \in [Key -> SUBSET Event]
         /\ wrong' \in [Identity -> SUBSET Event]
<1> USE DEF SignInInv
<1>1. EventOf(r, now) \in Event
  BY DEF Event, EventOf
<1>2. granted' \in [Key -> SUBSET Event] /\ wrong' \in [Identity -> SUBSET Event]
  BY <1>1, Keys DEF AccountsTyped
<1>3. \A k \in {IpKey, RegisterKey} : \A e \in granted'[k] :
        \/ e \in limiter'.buckets[k].attempts
        \/ /\ e \in granted[k]
           /\ Recent(limiter.buckets[k].attempts, Window[k], now)
                \subseteq limiter'.buckets[k].attempts
  BY Keys DEF AccountsTyped, Keeps
<1>4. \A j \in Identity : \A e \in wrong'[j] :
        \/ e \in limiter'.buckets[j].attempts
        \/ /\ e \in wrong[j]
           /\ Recent(limiter.buckets[j].attempts, Window[j], now)
                \subseteq limiter'.buckets[j].attempts
  BY Keys DEF AccountsTyped, Keeps
<1> QED
  BY <1>2, <1>3, <1>4, StillCounted

LEMMA RefuseByIdentityInv ==
  ASSUME SignInInv, NEW r \in Request, NEW i \in Identity, RefuseByIdentity(r, i)
  PROVE  SignInInv'
<1> USE DEF SignInInv
<1>1. /\ login[r].state = "idle"
      /\ limiter' = Reserve(Counted(r), i, r, now)
      /\ UNCHANGED <<now, account, sessions, wrong, outdated>>
      /\ login' = [login EXCEPT ![r].state = "refused"]
      /\ granted' = [granted EXCEPT ![IpKey] = @ \cup {EventOf(r, now)}]
      /\ Allowed(limiter, IpKey, now) /\ ~Allowed(Counted(r), i, now)
  BY DEF RefuseByIdentity
<1>2. /\ Sound(Counted(r), now) /\ Keeps(limiter, Counted(r), now)
      /\ PendingWithin(limiter, Counted(r))
      /\ EventOf(r, now) \in Counted(r).buckets[IpKey].attempts
  BY <1>1, CountedSound
<1>3. /\ Sound(limiter', now) /\ Keeps(Counted(r), limiter', now)
      /\ PendingWithin(Counted(r), limiter')
  BY <1>1, <1>2, Keys, ReserveSound
<1>4. Keeps(limiter, limiter', now) /\ PendingWithin(limiter, limiter')
  BY <1>2, <1>3, KeepsTwice DEF PendingWithin
<1>5. EventOf(r, now) \in limiter'.buckets[IpKey].attempts
  <2>1. Window[IpKey] \in Nat \ {0}
    BY Keys, PolicyAssumption
  <2>2. EventOf(r, now) \in Recent(Counted(r).buckets[IpKey].attempts, Window[IpKey], now)
    BY <1>2, <2>1 DEF Recent, EventOf
  <2> QED
    BY <1>3, <2>2, Keys DEF Keeps
<1>6. /\ login' \in [Request -> LoginState]
      /\ \A q \in Request \ {r} : login'[q] = login[q]
      /\ login'[r].state # "verifying"
  <2>1. "refused" \in Ended
    BY DEF Ended
  <2> QED
    BY <1>1, <2>1, EndOfIdle
<1>7. /\ HistoryIsCounted'
      /\ granted' \in [Key -> SUBSET Event] /\ wrong' \in [Identity -> SUBSET Event]
  BY <1>1, <1>4, <1>5, CountedGrant
<1>8. NoneOf(limiter', r) /\ OthersHeld(limiter, limiter', r)
  BY <1>1, <1>4, Keys, NoneWhileIdle, KeptForOthers DEF PendingWithin, NoneOf
<1> QED
  BY <1>1, <1>3, <1>6, <1>7, <1>8, EndedInv

\* Both limits let a login through: it holds a reservation and nobody lost one.
LEMMA ReservedSound ==
  ASSUME SignInInv, NEW r \in Request, NEW i \in Identity, Admit(r, i)
  PROVE  LET m == Reserved(r, i)
         IN  /\ Sound(m, now)
             /\ Keeps(limiter, m, now)
             /\ EventOf(r, now) \in m.buckets[IpKey].attempts
             /\ EventOf(r, now) \in m.buckets[i].pending
             /\ \A j \in Key \ {i} : m.buckets[j].pending \subseteq limiter.buckets[j].pending
             /\ m.buckets[i].pending \subseteq limiter.buckets[i].pending \cup {EventOf(r, now)}
<1> DEFINE m == Reserved(r, i)
<1>1. /\ Sound(Counted(r), now) /\ Keeps(limiter, Counted(r), now)
      /\ PendingWithin(limiter, Counted(r))
      /\ EventOf(r, now) \in Counted(r).buckets[IpKey].attempts
  BY CountedSound DEF Admit
<1>2. /\ Sound(m, now) /\ Keeps(Counted(r), m, now)
      /\ \A j \in Key \ {i} : m.buckets[j].pending \subseteq Counted(r).buckets[j].pending
      /\ m.buckets[i].pending \subseteq Counted(r).buckets[i].pending \cup {EventOf(r, now)}
      /\ EventOf(r, now) \in m.buckets[i].pending
  BY <1>1, Keys, ReserveSound DEF Admit, Reserved, SignInInv
<1> HIDE DEF m
<1>3. Keeps(limiter, m, now)
  BY <1>1, <1>2, KeepsTwice
<1>4. EventOf(r, now) \in m.buckets[IpKey].attempts
  <2>1. Window[IpKey] \in Nat \ {0} /\ now \in Nat
    BY Keys, PolicyAssumption DEF SignInInv
  <2>2. EventOf(r, now) \in Recent(Counted(r).buckets[IpKey].attempts, Window[IpKey], now)
    BY <1>1, <2>1 DEF Recent, EventOf
  <2> QED
    BY <1>2, <2>2, Keys DEF Keeps
<1>5. /\ \A j \in Key \ {i} : m.buckets[j].pending \subseteq limiter.buckets[j].pending
      /\ m.buckets[i].pending \subseteq limiter.buckets[i].pending \cup {EventOf(r, now)}
  BY <1>1, <1>2, Keys DEF PendingWithin
<1> QED
  BY <1>2, <1>3, <1>4, <1>5 DEF m

LEMMA FailAtOnceInv ==
  ASSUME SignInInv, NEW r \in Request, NEW i \in Identity, FailAtOnce(r, i)
  PROVE  SignInInv'
<1> DEFINE m == Reserved(r, i)
           mine == {e \in m.buckets[i].pending : e.by = r}
<1> USE DEF SignInInv
<1>1. /\ login[r].state = "idle" /\ Admit(r, i)
      /\ limiter' = Finish(m, i, r, "failure", now)
      /\ UNCHANGED <<now, account, sessions, outdated>>
      /\ login' = [login EXCEPT ![r].state = "failed"]
      /\ granted' = [granted EXCEPT ![IpKey] = @ \cup {EventOf(r, now)}]
      /\ wrong' = [wrong EXCEPT ![i] = @ \cup {EventOf(r, now)}]
  BY DEF FailAtOnce, Admit
<1>2. /\ Sound(m, now) /\ Keeps(limiter, m, now)
      /\ EventOf(r, now) \in m.buckets[IpKey].attempts
      /\ EventOf(r, now) \in m.buckets[i].pending
      /\ \A j \in Key \ {i} : m.buckets[j].pending \subseteq limiter.buckets[j].pending
      /\ m.buckets[i].pending \subseteq limiter.buckets[i].pending \cup {EventOf(r, now)}
  BY <1>1, ReservedSound
<1>3. EventOf(r, now).by = r
  BY DEF EventOf
<1>4. /\ Sound(limiter', now)
      /\ \A j \in Key \ {i} : limiter'.buckets[j] = m.buckets[j]
      /\ limiter'.buckets[i].pending = m.buckets[i].pending \ mine
      /\ m.buckets[i].attempts \subseteq limiter'.buckets[i].attempts
      /\ mine # {} => EventOf(r, now) \in limiter'.buckets[i].attempts
  BY <1>1, <1>2, Keys, FinishSound
<1>5. EventOf(r, now) \in mine
  BY <1>2, <1>3
<1> HIDE DEF m
<1>6. \A k \in {IpKey, RegisterKey} : limiter'.buckets[k] = m.buckets[k]
  BY <1>4, Keys
<1>7. HistoryIsCounted'
  <2>1. \A k \in {IpKey, RegisterKey} : \A e \in granted'[k] :
          \/ e \in limiter'.buckets[k].attempts
          \/ /\ e \in granted[k]
             /\ Recent(limiter.buckets[k].attempts, Window[k], now)
                  \subseteq limiter'.buckets[k].attempts
    BY <1>1, <1>2, <1>6, Keys DEF AccountsTyped, Keeps
  <2>2. \A j \in Identity :
          Recent(limiter.buckets[j].attempts, Window[j], now) \subseteq limiter'.buckets[j].attempts
    BY <1>2, <1>4, Keys DEF Keeps
  <2>3. \A j \in Identity : \A e \in wrong'[j] :
          \/ e \in limiter'.buckets[j].attempts
          \/ /\ e \in wrong[j]
             /\ Recent(limiter.buckets[j].attempts, Window[j], now)
                  \subseteq limiter'.buckets[j].attempts
    BY <1>1, <1>4, <1>5, <2>2, Keys DEF AccountsTyped
  <2> QED
    BY <1>1, <2>1, <2>3, StillCounted
<1>8. granted' \in [Key -> SUBSET Event] /\ wrong' \in [Identity -> SUBSET Event]
  <2>1. EventOf(r, now) \in Event
    BY DEF Event, EventOf
  <2> QED
    BY <1>1, <2>1, Keys DEF AccountsTyped
<1>9. /\ login' \in [Request -> LoginState]
      /\ \A q \in Request \ {r} : login'[q] = login[q]
      /\ login'[r].state # "verifying"
  <2>1. "failed" \in Ended
    BY DEF Ended
  <2> QED
    BY <1>1, <2>1, EndOfIdle
<1>10. NoneOf(limiter, r)
  BY <1>1, NoneWhileIdle
<1>11. NoneOf(limiter', r)
  BY <1>2, <1>4, <1>10, Keys DEF NoneOf
<1>12. OthersHeld(limiter, limiter', r)
  BY <1>2, <1>3, <1>4, Keys DEF OthersHeld, Keeps
<1> QED
  BY <1>1, <1>4, <1>7, <1>8, <1>9, <1>11, <1>12, EndedInv

LEMMA StartVerificationInv ==
  ASSUME SignInInv, NEW r \in Request, NEW i \in Identity, StartVerification(r, i)
  PROVE  SignInInv'
<1> DEFINE m == Reserved(r, i)
           new == [state |-> "verifying", identity |-> i, since |-> now,
                   user |-> account[i]]
<1> USE DEF SignInInv
<1>1. /\ login[r].state = "idle" /\ Admit(r, i) /\ i \in Account /\ account[i].enabled
      /\ limiter' = m
      /\ UNCHANGED <<now, account, sessions, wrong, outdated>>
      /\ login' = [login EXCEPT ![r] = new]
      /\ granted' = [granted EXCEPT ![IpKey] = @ \cup {EventOf(r, now)}]
  BY DEF StartVerification, Admit, Eligible
<1>2. /\ Sound(m, now) /\ Keeps(limiter, m, now)
      /\ EventOf(r, now) \in m.buckets[IpKey].attempts
      /\ EventOf(r, now) \in m.buckets[i].pending
      /\ \A j \in Key \ {i} : m.buckets[j].pending \subseteq limiter.buckets[j].pending
      /\ m.buckets[i].pending \subseteq limiter.buckets[i].pending \cup {EventOf(r, now)}
  BY <1>1, ReservedSound
<1>3. EventOf(r, now).by = r
  BY DEF EventOf
<1> HIDE DEF m
<1>4. Sound(limiter, now)'
  BY <1>1, <1>2
<1>5. /\ HistoryIsCounted'
      /\ granted' \in [Key -> SUBSET Event] /\ wrong' \in [Identity -> SUBSET Event]
  BY <1>1, <1>2, CountedGrant
<1>6. new \in LoginState
  BY <1>1 DEF LoginState, AccountsTyped
<1>7. /\ login' \in [Request -> LoginState]
      /\ login'[r] = new
      /\ \A q \in Request \ {r} : login'[q] = login[q]
  BY <1>1, <1>6 DEF AccountsTyped
<1>8. new.state = "verifying" /\ new.identity = i /\ new.since = now
      /\ new.user = account[i]
  OBVIOUS
<1> HIDE DEF new
<1>9. AccountsTyped'
  BY <1>1, <1>5, <1>7, <1>8 DEF AccountsTyped
<1>10. LoginsAreUsers' /\ SessionsMatchAccounts'
  BY <1>1, <1>7, <1>8 DEF LoginsAreUsers, SessionsMatchAccounts, MatchesAccount
<1>11. NoneOf(limiter, r)
  BY <1>1, NoneWhileIdle
<1>12. OthersHeld(limiter, limiter', r)
  BY <1>1, <1>2, <1>3, Keys DEF OthersHeld, Keeps
<1>13. ReservationsAreHeld'
  <2> SUFFICES ASSUME NEW q \in Request, NEW j \in Identity
               PROVE  /\ /\ login'[q].state = "verifying"
                         /\ login'[q].identity = j
                         /\ now' < login'[q].since + ReservationMax
                         => EventOf(q, login'[q].since) \in limiter'.buckets[j].pending
                      /\ (\E e \in limiter'.buckets[j].pending : e.by = q)
                           => login'[q].state = "verifying" /\ login'[q].identity = j
    BY DEF ReservationsAreHeld
  <2>1. CASE q # r
    BY <1>1, <1>7, <1>12, <2>1, OthersStillHeld
  <2>2. CASE q = r
    BY <1>1, <1>2, <1>7, <1>8, <1>11, <2>2, Keys DEF NoneOf
  <2> QED
    BY <2>1, <2>2
<1> QED
  BY <1>1, <1>4, <1>5, <1>9, <1>10, <1>13

\* The password check of request r comes to an end: its reservation goes, and
\* the attempts of its identity are counted or cleared.
LEMMA EndOfVerification ==
  ASSUME SignInInv, NEW r \in Request, login[r].state = "verifying",
         NEW s \in Ended, login' = [login EXCEPT ![r] = [state |-> s]]
  PROVE  /\ login[r].identity \in Account /\ login[r].identity \in Identity
         /\ login[r].identity \in Key
         /\ login' \in [Request -> LoginState]
         /\ \A q \in Request \ {r} : login'[q] = login[q]
         /\ login'[r].state # "verifying"
<1>1. [state |-> s] \in LoginState /\ s # "verifying"
  BY DEF LoginState, Ended
<1> QED
  BY <1>1, Keys DEF SignInInv, AccountsTyped, LoginsAreUsers

LEMMA ReservationGone ==
  ASSUME SignInInv, NEW r \in Request, login[r].state = "verifying",
         NEW i \in Identity, i = login[r].identity, NEW m,
         \A j \in Key \ {i} : m.buckets[j] = limiter.buckets[j],
         m.buckets[i].pending =
           limiter.buckets[i].pending \ {e \in limiter.buckets[i].pending : e.by = r}
  PROVE  NoneOf(m, r) /\ OthersHeld(limiter, m, r)
<1>1. \A j \in Identity \ {i} : \A e \in limiter.buckets[j].pending : e.by # r
  BY DEF SignInInv, ReservationsAreHeld
<1>2. NoneOf(m, r)
  BY <1>1, Keys DEF NoneOf
<1>3. OthersHeld(limiter, m, r)
  BY Keys DEF OthersHeld, Recent
<1> QED
  BY <1>2, <1>3

LEMMA WrongPasswordInv ==
  ASSUME SignInInv, NEW r \in Request, WrongPassword(r)
  PROVE  SignInInv'
<1> DEFINE i == login[r].identity
           prompt == now < login[r].since + ReservationMax
           mine == {e \in limiter.buckets[i].pending : e.by = r}
<1> USE DEF SignInInv
<1>1. /\ login[r].state = "verifying"
      /\ limiter' = Finish(limiter, i, r, "failure", now)
      /\ UNCHANGED <<now, account, sessions, granted, outdated>>
      /\ login' = [login EXCEPT ![r] = [state |-> "failed"]]
      /\ wrong' = IF prompt THEN [wrong EXCEPT ![i] = @ \cup {EventOf(r, now)}] ELSE wrong
  BY DEF WrongPassword
<1>2. "failed" \in Ended
  BY DEF Ended
<1>3. /\ i \in Identity /\ i \in Key
      /\ login' \in [Request -> LoginState]
      /\ \A q \in Request \ {r} : login'[q] = login[q]
      /\ login'[r].state # "verifying"
  BY <1>1, <1>2, EndOfVerification
<1>4. /\ Sound(limiter', now)
      /\ \A j \in Key \ {i} : limiter'.buckets[j] = limiter.buckets[j]
      /\ limiter'.buckets[i].pending = limiter.buckets[i].pending \ mine
      /\ limiter.buckets[i].attempts \subseteq limiter'.buckets[i].attempts
      /\ mine # {} => EventOf(r, now) \in limiter'.buckets[i].attempts
  BY <1>1, <1>3, FinishSound
<1>5. prompt => EventOf(r, login[r].since) \in mine
  BY <1>1, <1>3 DEF ReservationsAreHeld, EventOf
<1>6. \A k \in Key : limiter.buckets[k].attempts \subseteq limiter'.buckets[k].attempts
  BY <1>3, <1>4
<1>7. granted' \in [Key -> SUBSET Event] /\ wrong' \in [Identity -> SUBSET Event]
  <2>1. EventOf(r, now) \in Event
    BY DEF Event, EventOf
  <2> QED
    BY <1>1, <1>3, <2>1 DEF AccountsTyped
<1>8. HistoryIsCounted'
  <2>1. \A k \in {IpKey, RegisterKey} : \A e \in granted'[k] :
          /\ e \in granted[k]
          /\ Recent(limiter.buckets[k].attempts, Window[k], now)
               \subseteq limiter'.buckets[k].attempts
    BY <1>1, <1>6, Keys DEF Recent
  <2>2. \A j \in Identity : \A e \in wrong'[j] :
          \/ e \in limiter'.buckets[j].attempts
          \/ /\ e \in wrong[j]
             /\ Recent(limiter.buckets[j].attempts, Window[j], now)
                  \subseteq limiter'.buckets[j].attempts
    BY <1>1, <1>3, <1>4, <1>5, <1>6, Keys DEF AccountsTyped, Recent
  <2> QED
    BY <1>1, <2>1, <2>2, StillCounted
<1>9. NoneOf(limiter', r) /\ OthersHeld(limiter, limiter', r)
  BY <1>1, <1>3, <1>4, ReservationGone
<1> QED
  BY <1>1, <1>3, <1>4, <1>7, <1>8, <1>9, EndedInv

LEMMA VerificationErrorInv ==
  ASSUME SignInInv, NEW r \in Request, VerificationError(r)
  PROVE  SignInInv'
<1> DEFINE i == login[r].identity
           mine == {e \in limiter.buckets[i].pending : e.by = r}
<1> USE DEF SignInInv
<1>1. /\ login[r].state = "verifying"
      /\ limiter' = Finish(limiter, i, r, "release", now)
      /\ UNCHANGED <<now, account, sessions, granted, wrong, outdated>>
      /\ login' = [login EXCEPT ![r] = [state |-> "error"]]
  BY DEF VerificationError, historyVars
<1>2. "error" \in Ended
  BY DEF Ended
<1>3. /\ i \in Identity /\ i \in Key
      /\ login' \in [Request -> LoginState]
      /\ \A q \in Request \ {r} : login'[q] = login[q]
      /\ login'[r].state # "verifying"
  BY <1>1, <1>2, EndOfVerification
<1>4. /\ Sound(limiter', now)
      /\ \A j \in Key \ {i} : limiter'.buckets[j] = limiter.buckets[j]
      /\ limiter'.buckets[i].pending = limiter.buckets[i].pending \ mine
      /\ limiter.buckets[i].attempts \subseteq limiter'.buckets[i].attempts
  BY <1>1, <1>3, FinishSound
<1>5. \A k \in Key : limiter.buckets[k].attempts \subseteq limiter'.buckets[k].attempts
  BY <1>3, <1>4
<1>6. granted' \in [Key -> SUBSET Event] /\ wrong' \in [Identity -> SUBSET Event]
  BY <1>1 DEF AccountsTyped
<1>7. HistoryIsCounted'
  BY <1>1, <1>5, Keys, StillCounted DEF Recent
<1>8. NoneOf(limiter', r) /\ OthersHeld(limiter, limiter', r)
  BY <1>1, <1>3, <1>4, ReservationGone
<1> QED
  BY <1>1, <1>3, <1>4, <1>6, <1>7, <1>8, EndedInv

LEMMA RightPasswordInv ==
  ASSUME SignInInv, NEW r \in Request, RightPassword(r)
  PROVE  SignInInv'
<1> DEFINE i == login[r].identity
           mine == {e \in limiter.buckets[i].pending : e.by = r}
           m == Finish(limiter, i, r, "release", now)
           token == [by |-> r, user |-> i, role |-> login[r].user.role,
                     expiresAt |-> now + Lifetime]
<1> USE DEF SignInInv
<1>1. /\ login[r].state = "verifying"
      /\ limiter' = Clear(m, i)
      /\ UNCHANGED <<now, account, granted, outdated>>
      /\ wrong' = [wrong EXCEPT ![i] = {}]
      /\ \/ /\ login[r].user.emailVerified
            /\ sessions' = Live \cup {token}
            /\ login' = [login EXCEPT ![r] = [state |-> "signedIn"]]
         \/ /\ sessions' = sessions
            /\ login' = [login EXCEPT ![r] = [state |-> "unverified"]]
  BY DEF RightPassword, MayHaveSession
<1>2. "signedIn" \in Ended /\ "unverified" \in Ended
  BY DEF Ended
<1>3. /\ i \in Account /\ i \in Identity /\ i \in Key
      /\ login' \in [Request -> LoginState]
      /\ \A q \in Request \ {r} : login'[q] = login[q]
      /\ login'[r].state # "verifying"
  BY <1>1, <1>2, EndOfVerification
<1>4. /\ Sound(m, now)
      /\ \A j \in Key \ {i} : m.buckets[j] = limiter.buckets[j]
      /\ m.buckets[i].pending = limiter.buckets[i].pending \ mine
  <2>1. Sound(limiter, now) /\ now \in Nat /\ i \in Key /\ "release" \in {"failure", "release"}
    BY <1>3
  <2> HIDE DEF i, SignInInv
  <2> QED
    BY <2>1, FinishSound
<1> HIDE DEF m
<1>5. /\ Sound(limiter', now)
      /\ \A j \in Key \ {i} : limiter'.buckets[j] = limiter.buckets[j]
      /\ limiter'.buckets[i].pending = limiter.buckets[i].pending \ mine
  BY <1>1, <1>3, <1>4, ClearSound
<1>6. granted' \in [Key -> SUBSET Event] /\ wrong' \in [Identity -> SUBSET Event]
  BY <1>1, <1>3 DEF AccountsTyped
<1>7. HistoryIsCounted'
  <2>1. \A k \in {IpKey, RegisterKey} : \A e \in granted'[k] :
          /\ e \in granted[k]
          /\ Recent(limiter.buckets[k].attempts, Window[k], now)
               \subseteq limiter'.buckets[k].attempts
    BY <1>1, <1>3, <1>5, Keys DEF Recent
  <2>2. \A j \in Identity : \A e \in wrong'[j] :
          /\ e \in wrong[j]
          /\ Recent(limiter.buckets[j].attempts, Window[j], now)
               \subseteq limiter'.buckets[j].attempts
    BY <1>1, <1>3, <1>5, Keys DEF AccountsTyped, Recent
  <2> QED
    BY <1>1, <2>1, <2>2, StillCounted
<1>8. NoneOf(limiter', r) /\ OthersHeld(limiter, limiter', r)
  BY <1>1, <1>3, <1>5, ReservationGone
<1>9. \A s \in sessions' :
        \/ s \in sessions
        \/ s \in Session /\ (MatchesAccount(s) \/ s.by \in outdated)
  <2>1. login[r].user \in Users
    BY <1>1 DEF AccountsTyped, LoginState, Ended
  <2>2. /\ token \in Session /\ token.user = i /\ token.by = r
        /\ token.role = login[r].user.role
    BY <1>3, <2>1, LifetimeAssumption DEF Session
  <2>3. login[r].user.enabled /\ (r \in outdated \/ account[i] = login[r].user)
    BY <1>1 DEF LoginsAreUsers
  <2> HIDE DEF token
  <2>4. ASSUME login[r].user.emailVerified
        PROVE  MatchesAccount(token) \/ token.by \in outdated
    BY <2>2, <2>3, <2>4 DEF MatchesAccount
  <2> QED
    BY <1>1, <2>2, <2>4 DEF Live
<1> QED
  BY <1>1, <1>3, <1>5, <1>6, <1>7, <1>8, <1>9, EndedInv

\* Sessions end; accounts change; nothing at all happens.
LEMMA OutsideInv ==
  ASSUME SignInInv, UNCHANGED <<now, limiter, login, granted, wrong>>,
         sessions' \subseteq sessions,
         account' \in [Account -> Users],
         outdated' \in SUBSET Request, outdated \subseteq outdated',
         \A i \in Account : account'[i] = account[i] \/ ReadersOf(i) \subseteq outdated'
  PROVE  SignInInv'
<1> USE DEF SignInInv
<1>1. Sound(limiter, now)' /\ HistoryIsCounted' /\ ReservationsAreHeld'
  BY DEF HistoryIsCounted, InWindow, ReservationsAreHeld
<1>2. AccountsTyped'
  BY DEF AccountsTyped
<1>3. LoginsAreUsers'
  <2> SUFFICES ASSUME NEW r \in Request, login[r].state = "verifying"
               PROVE  /\ login[r].identity \in Account
                      /\ login[r].user.enabled
                      /\ r \in outdated' \/ account'[login[r].identity] = login[r].user
    BY DEF LoginsAreUsers
  <2>1. /\ login[r].identity \in Account /\ login[r].user.enabled
        /\ r \in outdated \/ account[login[r].identity] = login[r].user
    BY DEF LoginsAreUsers
  <2>2. r \in ReadersOf(login[r].identity)
    BY DEF ReadersOf
  <2> QED
    BY <2>1, <2>2
<1>4. SessionsMatchAccounts'
  <2> SUFFICES ASSUME NEW s \in sessions
               PROVE  MatchesAccount(s)' \/ s.by \in outdated'
    BY DEF SessionsMatchAccounts
  <2>1. s.by \in ReadersOf(s.user) /\ s.user \in Account
    BY DEF ReadersOf, AccountsTyped, Session
  <2>2. MatchesAccount(s) \/ s.by \in outdated
    BY DEF SessionsMatchAccounts
  <2> QED
    BY <2>1, <2>2 DEF MatchesAccount
<1> QED
  BY <1>1, <1>2, <1>3, <1>4

LEMMA TickInv ==
  ASSUME SignInInv, Tick
  PROVE  SignInInv'
<1> USE DEF SignInInv
<1>1. /\ now' = now + 1 /\ now \in Nat
      /\ UNCHANGED <<limiter, account, login, sessions, granted, wrong, outdated>>
  BY DEF Tick, authVars, historyVars
<1>2. Sound(limiter, now)'
  BY <1>1 DEF Sound, SoundBucket, Limiter, Bucket, Event
<1>3. \A k \in Key : Window[k] \in Nat /\ granted[k] \in SUBSET Event
  BY PolicyAssumption DEF AccountsTyped
<1>4. \A i \in Identity : wrong[i] \in SUBSET Event /\ Window[i] \in Nat
  BY PolicyAssumption, Keys DEF AccountsTyped
<1>5. HistoryIsCounted'
  BY <1>1, <1>3, <1>4, Keys DEF HistoryIsCounted, InWindow, Recent, Event
<1>6. \A r \in Request : login[r].state = "verifying" => login[r].since \in Nat
  BY DEF AccountsTyped, LoginState, Ended
<1>7. ReservationsAreHeld'
  BY <1>1, <1>6, IntervalAssumption DEF ReservationsAreHeld
<1>8. AccountsTyped' /\ LoginsAreUsers' /\ SessionsMatchAccounts'
  BY <1>1, <1>6 DEF AccountsTyped, LoginsAreUsers, SessionsMatchAccounts, MatchesAccount
<1> QED
  BY <1>1, <1>2, <1>5, <1>7, <1>8

LEMMA NextSignIn ==
  ASSUME SignInInv, [Next]_vars
  PROVE  SignInInv'
<1>1. CASE Tick
  BY <1>1, TickInv
<1>2. CASE \E r \in Request : RequestNext(r)
  BY <1>2, RegisterInv, RefuseByAddressInv, RefuseByIdentityInv, FailAtOnceInv,
     StartVerificationInv, WrongPasswordInv, VerificationErrorInv, RightPasswordInv DEF RequestNext
<1>3. CASE \/ \E s \in sessions : PresentExpired(s) \/ Logout(s) \/ LogoutAll(s)
           \/ ListSessions
  <2>1. sessions' \subseteq sessions /\ UNCHANGED <<now, limiter, login, granted, wrong, account, outdated>>
    BY <1>3 DEF PresentExpired, Logout, LogoutAll, ListSessions, Live, historyVars
  <2> QED
    BY <2>1, OutsideInv DEF SignInInv, AccountsTyped
<1>4. CASE \E i \in Account, a \in Users : ChangeAccount(i, a)
  <2>1. /\ UNCHANGED <<now, limiter, login, sessions, granted, wrong>>
        /\ account' \in [Account -> Users]
        /\ outdated' \in SUBSET Request /\ outdated \subseteq outdated'
        /\ \A i \in Account : account'[i] = account[i] \/ ReadersOf(i) \subseteq outdated'
    BY <1>4 DEF ChangeAccount, SignInInv, AccountsTyped, ReadersOf, Session
  <2> QED
    BY <2>1, OutsideInv
<1>5. CASE UNCHANGED vars
  BY <1>5, OutsideInv DEF vars, authVars, historyVars, SignInInv, AccountsTyped
<1> QED
  BY <1>1, <1>2, <1>3, <1>4, <1>5 DEF Next

\* No bucket ever holds more than its limit, and it holds what of the history
\* is still in its window.
THEOREM SignInHolds == Spec => []SignInInv
<1> QED
  BY InitSignIn, NextSignIn, PTL DEF Spec

\* The limiter, the logins, the sessions and the history keep their types, and
\* nothing in the limiter is later than the clock.
THEOREM TypeCorrect == Spec => []TypeOK
<1>1. SignInInv => TypeOK
  BY DEF SignInInv, AccountsTyped, Session, Sound, SoundBucket, TypeOK
<1> QED
  BY <1>1, SignInHolds, PTL

\* What a sound bucket holds is at most its limit.
LEMMA WithinLimit ==
  ASSUME NEW k \in Key, NEW t, NEW b, SoundBucket(b, k, t),
         NEW events, events \subseteq b.attempts
  PROVE  Cardinality(events) <= Limit[k]
<1>1. /\ IsFiniteSet(events) /\ Cardinality(events) <= Cardinality(b.attempts)
      /\ Cardinality(b.attempts) \in Nat /\ Cardinality(b.pending) \in Nat
      /\ Cardinality(events) \in Nat /\ Limit[k] \in Nat
      /\ Cardinality(b.attempts) + Cardinality(b.pending) <= Limit[k]
  BY FS_Subset, FS_CardinalityType, PolicyAssumption DEF SoundBucket, Count
<1> QED
  BY <1>1

\* In no window does an address get more requests through than the policy
\* allows, whatever other keys the cleanup and the full map forget.
THEOREM RequestsLimited == Spec => []RequestsAreLimited
<1>1. SignInInv => RequestsAreLimited
  BY Keys, WithinLimit DEF SignInInv, Sound, HistoryIsCounted, RequestsAreLimited
<1> QED
  BY <1>1, SignInHolds, PTL

\* However many logins of one identity run at once, no window has more wrong
\* answers than the policy allows since the last success.
THEOREM FailuresLimited == Spec => []FailuresAreLimited
<1>1. SignInInv => FailuresAreLimited
  BY Keys, WithinLimit DEF SignInInv, Sound, HistoryIsCounted, FailuresAreLimited
<1> QED
  BY <1>1, SignInHolds, PTL

\* Nothing that other logins do takes a reservation away early, and none
\* outlives its login.
THEOREM ReservationsHold == Spec => []ReservationsAreHeld
<1>1. SignInInv => ReservationsAreHeld
  BY DEF SignInInv
<1> QED
  BY <1>1, SignInHolds, PTL

\* A session belongs to an enabled and verified account and has its role, unless
\* the account was changed, in whatever way, after the login read it.
THEOREM MatchingSessions == Spec => []SessionsMatchAccounts
<1>1. SignInInv => SessionsMatchAccounts
  BY DEF SignInInv
<1> QED
  BY <1>1, SignInHolds, PTL

\* After the longest window the cleanup leaves every bucket empty.
LEMMA AllForgotten ==
  ASSUME NEW l, NEW t \in Nat, Sound(l, t), NEW longest \in Key,
         \A j \in Key : Window[j] <= Window[longest]
  PROVE  \A k \in Key : Allowed(l, k, t + Window[longest])
<1> DEFINE later == t + Window[longest]
<1>1. \A j \in Key : /\ Window[j] \in Nat /\ ReservationMax \in Nat /\ CleanupInterval \in Nat
                     /\ ReservationMax <= Window[longest] /\ CleanupInterval <= Window[longest]
  BY PolicyAssumption, IntervalAssumption
<1>2. later \in Nat /\ l \in Limiter /\ l.lastCleanup \in Nat /\ l.lastCleanup <= t
  BY <1>1 DEF Sound, Limiter
<1>3. CleanupDue(l, later)
  BY <1>1, <1>2 DEF CleanupDue
<1>4. ASSUME NEW j \in Key PROVE PruneBucket(l.buckets[j], j, later) = NoBucket
  <2>1. l.buckets[j] \in Bucket /\ SoundBucket(l.buckets[j], j, t)
    BY DEF Sound, Limiter
  <2>2. \A e \in l.buckets[j].attempts \cup l.buckets[j].pending : e.at \in Nat /\ e.at <= t
    BY <2>1 DEF SoundBucket, Bucket, Event
  <2>3. /\ Recent(l.buckets[j].attempts, Window[j], later) = {}
        /\ Recent(l.buckets[j].pending, ReservationMax, later) = {}
    BY <1>1, <2>2 DEF Recent
  <2> QED
    BY <2>3 DEF PruneBucket, NoBucket
<1>5. PruneBucket(NoBucket, longest, later) = NoBucket
  BY DEF PruneBucket, NoBucket, Recent
<1> SUFFICES ASSUME NEW k \in Key PROVE Allowed(l, k, later)
  OBVIOUS
<1> DEFINE m == Evaluate(l, k, later)
<1> HIDE DEF later
<1>6. /\ Prune(l, later).buckets = [j \in Key |-> NoBucket]
      /\ PruneBucket(NoBucket, k, later) = NoBucket
  BY <1>3, <1>4 DEF Prune, PruneBucket, NoBucket, Recent
<1>7. m.buckets = [j \in Key |-> NoBucket]
  BY <1>3, <1>6 DEF Evaluate, Prune
<1>8. ~AtLimit(NoBucket, k)
  BY FS_EmptySet, PolicyAssumption DEF AtLimit, Count, NoBucket
<1>9. {j \in Key : m.buckets[j] # NoBucket} = {}
  BY <1>7
<1>10. ~NoRoom(m.buckets, k)
  BY <1>9, FS_EmptySet, PolicyAssumption DEF NoRoom
<1> QED
  BY <1>7, <1>8, <1>10 DEF Allowed

\* Every key is open again after the longest window without requests.
THEOREM KeysReopen == Spec => []AlwaysReopens
<1>1. SignInInv => AlwaysReopens
  BY AllForgotten DEF SignInInv, AlwaysReopens
<1> QED
  BY <1>1, SignInHolds, PTL

-----------------------------------------------------------------------------
\* Numbers.

\* Any set of numbers has a least one.
LEMMA LeastNumber ==
  ASSUME NEW S \in SUBSET Nat, S # {}
  PROVE  Min(S) \in S /\ \A y \in S : Min(S) <= y
<1>1. \E x \in S : \A y \in S : ~ (<<y, x>> \in OpToRel(<, Nat))
  BY NatLessThanWellFounded, WFMin
<1>2. \A x, y \in Nat : y < x => <<y, x>> \in OpToRel(<, Nat)
  BY DEF OpToRel
<1>3. PICK Less : /\ \E x \in S : \A y \in S : <<y, x>> \notin Less
                  /\ \A x, y \in Nat : y < x => <<y, x>> \in Less
  BY <1>1, <1>2, Zenon
<1>4. PICK x \in S : \A y \in S : <<y, x>> \notin Less
  BY <1>3
<1>5. ASSUME NEW y \in S PROVE x <= y
  <2>1. x \in Nat /\ y \in Nat /\ (y < x => <<y, x>> \in Less) /\ <<y, x>> \notin Less
    BY <1>3, <1>4
  <2> QED
    BY <2>1
<1> QED
  BY <1>5 DEF Min

\* Rounding up to whole seconds.
LEMMA WholeSeconds ==
  ASSUME NEW ticks \in Nat \ {0}
  PROVE  /\ Seconds(ticks) \in Nat \ {0}
         /\ TicksPerSecond * Seconds(ticks) \in Nat
         /\ TicksPerSecond * Seconds(ticks) >= ticks
         /\ TicksPerSecond * (Seconds(ticks) - 1) \in Nat
         /\ TicksPerSecond * (Seconds(ticks) - 1) < ticks
<1> DEFINE T == TicksPerSecond
           a == ticks + T - 1
           q == a \div T
<1>1. T \in Nat \ {0} /\ a \in Nat /\ a >= T
  BY PolicyAssumption
<1> HIDE DEF T, a
<1>2. q \in Int /\ T * q <= a /\ a < T * q + T
  BY <1>1
<1> HIDE DEF q
<1>3. q >= 1
  BY <1>1, <1>2
<1>4. T * (q - 1) = T * q - T /\ T * q \in Int
  BY <1>1, <1>2
<1>5. T * (q - 1) >= 0
  BY <1>1, <1>2, <1>3
<1> QED
  BY <1>1, <1>2, <1>3, <1>4, <1>5 DEF Seconds, q, a, T
-----------------------------------------------------------------------------
\* The map of buckets.

\* The entries of the buckets map.
Filled(l) == {j \in Key : l.buckets[j] # NoBucket}

\* RATE_LIMIT_MAX_KEYS: the map never has more entries.
Fits(l) == Cardinality(Filled(l)) <= MaxKeys
MapFits == Fits(limiter)

LEMMA FewerFilled ==
  ASSUME NEW l, NEW m, Filled(m) \subseteq Filled(l)
  PROVE  /\ Cardinality(Filled(l)) \in Nat /\ Cardinality(Filled(m)) \in Nat
         /\ Cardinality(Filled(m)) <= Cardinality(Filled(l))
         /\ Fits(l) => Fits(m)
<1>1. IsFiniteSet(Filled(l)) /\ IsFiniteSet(Filled(m))
  BY KeyAssumption, FS_Subset DEF Filled
<1>2. /\ Cardinality(Filled(l)) \in Nat /\ Cardinality(Filled(m)) \in Nat
      /\ Cardinality(Filled(m)) <= Cardinality(Filled(l))
  BY <1>1, FS_Subset, FS_CardinalityType
<1> QED
  BY <1>2, PolicyAssumption DEF Fits

\* Pruning fills nothing.
LEMMA PrunedEmpty ==
  ASSUME NEW k \in Key, NEW t
  PROVE  PruneBucket(NoBucket, k, t) = NoBucket
BY DEF PruneBucket, NoBucket, Recent

LEMMA EvaluateFills ==
  ASSUME NEW l \in Limiter, NEW k \in Key, NEW t \in Nat
  PROVE  Filled(Evaluate(l, k, t)) \subseteq Filled(l)
<1> DEFINE m == Evaluate(l, k, t)
<1>1. \A j \in Key : m.buckets[j] \in {l.buckets[j], PruneBucket(l.buckets[j], j, t)}
  BY EvaluateBuckets
<1> HIDE DEF m
<1> QED
  BY <1>1, PrunedEmpty DEF Filled, m

\* A key that is let through has an entry already or finds room for one.
LEMMA RoomForKey ==
  ASSUME NEW l, NEW k \in Key, NEW t \in Nat, Sound(l, t), Fits(l), Allowed(l, k, t),
         NEW m, \A j \in Key \ {k} : m.buckets[j] = Evaluate(l, k, t).buckets[j]
  PROVE  Fits(m)
<1> DEFINE seen == Evaluate(l, k, t)
<1>1. l \in Limiter
  BY DEF Sound
<1>2. Fits(seen) /\ ~NoRoom(seen.buckets, k)
  BY <1>1, EvaluateFills, FewerFilled DEF Allowed
<1> HIDE DEF seen
<1>3. Filled(m) \subseteq Filled(seen) \cup {k}
  BY DEF Filled, seen
<1>4. CASE k \in Filled(seen)
  BY <1>2, <1>3, <1>4, FewerFilled
<1>5. CASE k \notin Filled(seen)
  <2>1. seen.buckets[k] = NoBucket
    BY <1>5 DEF Filled
  <2>2. ~ (Cardinality(Filled(seen)) >= MaxKeys)
    BY <1>2, <2>1 DEF NoRoom, Filled
  <2>3. IsFiniteSet(Filled(seen))
    BY KeyAssumption, FS_Subset DEF Filled
  <2>4. /\ Cardinality(Filled(seen)) \in Nat
        /\ IsFiniteSet(Filled(seen) \cup {k})
        /\ Cardinality(Filled(seen) \cup {k}) = Cardinality(Filled(seen)) + 1
    BY <1>5, <2>3, FS_AddElement, FS_CardinalityType
  <2>5. Cardinality(Filled(m)) \in Nat /\ Cardinality(Filled(m)) <= Cardinality(Filled(seen) \cup {k})
    BY <1>3, <2>4, FS_Subset, FS_CardinalityType
  <2> QED
    BY <2>2, <2>4, <2>5, PolicyAssumption DEF Fits
<1> QED
  BY <1>4, <1>5

\* One method of the limiter after another, the map fits.
LEMMA MethodsFit ==
  ASSUME NEW l, NEW k \in Key, NEW r \in Request, NEW t \in Nat, Sound(l, t), Fits(l)
  PROVE  /\ Fits(Record(l, k, r, t))
         /\ Fits(Reserve(l, k, r, t))
         /\ \A outcome \in {"failure", "release"} : Fits(Finish(l, k, r, outcome, t))
         /\ Fits(Clear(l, k))
<1> DEFINE seen == Evaluate(l, k, t)
<1>1. l \in Limiter /\ seen \in Limiter
  BY EvaluateBuckets DEF Sound
<1>2. Fits(seen)
  BY <1>1, EvaluateFills, FewerFilled
<1>3. Fits(Record(l, k, r, t))
  <2> DEFINE m == Record(l, k, r, t)
  <2>1. CASE Allowed(l, k, t)
    <3>1. m = [seen EXCEPT !.buckets[k].attempts = @ \cup {EventOf(r, t)}]
      BY <2>1 DEF Record
    <3> HIDE DEF m, seen
    <3>2. \A j \in Key \ {k} : m.buckets[j] = seen.buckets[j]
      BY <1>1, <3>1 DEF Limiter
    <3> QED
      BY <2>1, <3>2, RoomForKey DEF m, seen
  <2>2. CASE ~Allowed(l, k, t)
    BY <1>2, <2>2 DEF Record
  <2> QED
    BY <2>1, <2>2
<1>4. Fits(Reserve(l, k, r, t))
  <2> DEFINE m == Reserve(l, k, r, t)
  <2>1. CASE Allowed(l, k, t)
    <3>1. m = [seen EXCEPT !.buckets[k].pending = @ \cup {EventOf(r, t)}]
      BY <2>1 DEF Reserve
    <3> HIDE DEF m, seen
    <3>2. \A j \in Key \ {k} : m.buckets[j] = seen.buckets[j]
      BY <1>1, <3>1 DEF Limiter
    <3> QED
      BY <2>1, <3>2, RoomForKey DEF m, seen
  <2>2. CASE ~Allowed(l, k, t)
    BY <1>2, <2>2 DEF Reserve
  <2> QED
    BY <2>1, <2>2
<1>5. ASSUME NEW outcome \in {"failure", "release"} PROVE Fits(Finish(l, k, r, outcome, t))
  <2> DEFINE b == l.buckets[k]
             mine == {e \in b.pending : e.by = r}
             counted == IF outcome = "failure" /\ mine # {} THEN {EventOf(r, t)} ELSE {}
             c == [attempts |-> b.attempts \cup counted, pending |-> b.pending \ mine]
             m == Finish(l, k, r, outcome, t)
  <2>1. m = [l EXCEPT !.buckets[k] = c]
    BY DEF Finish
  <2>2. b = NoBucket => c = NoBucket
    BY DEF NoBucket
  <2> HIDE DEF c, m
  <2>3. m.buckets[k] = c /\ \A j \in Key \ {k} : m.buckets[j] = l.buckets[j]
    BY <1>1, <2>1 DEF Limiter
  <2>4. Filled(m) \subseteq Filled(l)
    BY <2>2, <2>3 DEF Filled
  <2> QED
    BY <2>4, FewerFilled DEF m
<1>6. Fits(Clear(l, k))
  <2> DEFINE b == l.buckets[k]
             c == [b EXCEPT !.attempts = {}]
             m == Clear(l, k)
  <2>1. b = NoBucket => c = NoBucket
    BY DEF NoBucket
  <2>2. m = [l EXCEPT !.buckets[k].attempts = {}]
    BY DEF Clear
  <2> HIDE DEF m
  <2>3. m.buckets[k] = c /\ \A j \in Key \ {k} : m.buckets[j] = l.buckets[j]
    BY <1>1, <2>2 DEF Limiter
  <2>4. Filled(m) \subseteq Filled(l)
    BY <2>1, <2>3 DEF Filled
  <2> QED
    BY <2>4, FewerFilled DEF m
<1> QED
  BY <1>3, <1>4, <1>5, <1>6

LEMMA RequestFits ==
  ASSUME SignInInv, MapFits, NEW r \in Request, RequestNext(r)
  PROVE  MapFits'
<1>1. Sound(limiter, now) /\ now \in Nat /\ Fits(limiter)
  BY DEF SignInInv, MapFits
<1>2. CASE Register(r) \/ RefuseByAddress(r)
  BY <1>1, <1>2, Keys, MethodsFit DEF Register, RefuseByAddress, MapFits
<1>3. Allowed(limiter, IpKey, now) => Sound(Counted(r), now) /\ Fits(Counted(r))
  BY <1>1, Keys, CountedSound, MethodsFit DEF Counted
<1>4. ASSUME NEW i \in Identity, RefuseByIdentity(r, i)
      PROVE  MapFits'
  BY <1>1, <1>3, <1>4, Keys, MethodsFit DEF RefuseByIdentity, MapFits
<1>5. ASSUME NEW i \in Identity, Admit(r, i)
      PROVE  Sound(Reserved(r, i), now) /\ Fits(Reserved(r, i))
  BY <1>1, <1>3, <1>5, Keys, ReservedSound, MethodsFit DEF Admit, Reserved
<1>6. ASSUME NEW i \in Identity, FailAtOnce(r, i)
      PROVE  MapFits'
  BY <1>1, <1>5, <1>6, Keys, MethodsFit DEF FailAtOnce, MapFits
<1>7. ASSUME NEW i \in Identity, StartVerification(r, i)
      PROVE  MapFits'
  BY <1>5, <1>7 DEF StartVerification, MapFits
<1>8. CASE WrongPassword(r) \/ VerificationError(r) \/ RightPassword(r)
  <2> DEFINE i == login[r].identity
  <2>1. i \in Key
    BY <1>8, Keys DEF WrongPassword, VerificationError, RightPassword, SignInInv, LoginsAreUsers
  <2> HIDE DEF i
  <2>2. \A outcome \in {"failure", "release"} :
          /\ Sound(Finish(limiter, i, r, outcome, now), now)
          /\ Fits(Finish(limiter, i, r, outcome, now))
    BY <1>1, <2>1, FinishSound, MethodsFit
  <2>3. Fits(Clear(Finish(limiter, i, r, "release", now), i))
    BY <1>1, <2>1, <2>2, MethodsFit
  <2> QED
    BY <1>8, <2>2, <2>3 DEF WrongPassword, VerificationError, RightPassword, MapFits, i
<1> QED
  BY <1>2, <1>4, <1>6, <1>7, <1>8 DEF RequestNext

\* The map of buckets is never larger than it may be.
THEOREM MapBounded == Spec => []MapFits
<1>1. Init => MapFits
  <2>1. Filled(NewLimiter) = {}
    BY DEF Filled, NewLimiter
  <2>2. Fits(NewLimiter)
    BY <2>1, FS_EmptySet, PolicyAssumption DEF Fits
  <2>3. Init => limiter = NewLimiter
    BY DEF Init
  <2> QED
    BY <2>2, <2>3 DEF MapFits
<1>2. SignInInv /\ MapFits /\ [Next]_vars => MapFits'
  <2> SUFFICES ASSUME SignInInv, MapFits, [Next]_vars
               PROVE  MapFits'
    OBVIOUS
  <2>1. CASE \E r \in Request : RequestNext(r)
    BY <2>1, RequestFits
  <2>2. CASE limiter' = limiter
    BY <2>2 DEF MapFits, Fits, Filled
  <2> QED
    BY <2>1, <2>2 DEF Next, Tick, PresentExpired, ListSessions, Logout, LogoutAll, ChangeAccount,
       vars
<1> QED
  BY <1>1, <1>2, SignInHolds, PTL DEF Spec

-----------------------------------------------------------------------------
\* Retry-After.

\* The times at which the events of a bucket leave it.
Departures(b, k) ==
  {e.at + Window[k] : e \in b.attempts} \cup {e.at + ReservationMax : e \in b.pending}

\* A bucket at its limit: the first of its events leaves it at Expiry.
LEMMA FirstDeparture ==
  ASSUME NEW l, NEW k \in Key, NEW t \in Nat, Sound(l, t),
         AtLimit(PruneBucket(l.buckets[k], k, t), k)
  PROVE  LET b == PruneBucket(l.buckets[k], k, t)
         IN  /\ SoundBucket(b, k, t)
             /\ Expiry(b, k) \in Departures(b, k)
             /\ \A y \in Departures(b, k) : Expiry(b, k) <= y
             /\ Expiry(b, k) \in Nat /\ Expiry(b, k) > t
<1> DEFINE b == PruneBucket(l.buckets[k], k, t)
<1>1. /\ l.buckets[k] \in Bucket /\ SoundBucket(l.buckets[k], k, t)
      /\ Window[k] \in Nat /\ ReservationMax \in Nat /\ Limit[k] \in Nat \ {0}
  BY PolicyAssumption, IntervalAssumption DEF Sound, Limiter
<1>2. /\ b \in Bucket /\ SoundBucket(b, k, t)
      /\ b.attempts = Recent(l.buckets[k].attempts, Window[k], t)
      /\ b.pending = Recent(l.buckets[k].pending, ReservationMax, t)
  BY <1>1, PruneBucketPart, LessIsSound
<1> HIDE DEF b
<1>3. /\ \A e \in b.attempts : e.at \in Nat /\ e.at + Window[k] > t
      /\ \A e \in b.pending : e.at \in Nat /\ e.at + ReservationMax > t
  BY <1>1, <1>2 DEF Recent, Bucket, Event
<1>4. Departures(b, k) \in SUBSET Nat /\ \A y \in Departures(b, k) : y > t
  BY <1>1, <1>3 DEF Departures
<1>5. Departures(b, k) # {}
  <2>1. SUFFICES ASSUME b.attempts = {}, b.pending = {} PROVE FALSE
    BY DEF Departures
  <2>2. Count(b) = 0
    BY <2>1, FS_EmptySet DEF Count
  <2> QED
    BY <1>1, <2>2 DEF AtLimit, b
<1>6. Expiry(b, k) = Min(Departures(b, k))
  BY DEF Expiry, Departures
<1> QED
  BY <1>2, <1>4, <1>5, <1>6, LeastNumber DEF b

\* Later pruning forgets nothing before Expiry, and something from then on.
LEMMA PrunedLater ==
  ASSUME NEW l, NEW k \in Key, NEW t \in Nat, Sound(l, t),
         AtLimit(PruneBucket(l.buckets[k], k, t), k), NEW u \in Nat, u >= t
  PROVE  LET b == PruneBucket(l.buckets[k], k, t)
         IN  /\ u < Expiry(b, k) => PruneBucket(l.buckets[k], k, u) = b
             /\ u >= Expiry(b, k) => ~AtLimit(PruneBucket(l.buckets[k], k, u), k)
<1> DEFINE a == l.buckets[k]
           b == PruneBucket(a, k, t)
           c == PruneBucket(a, k, u)
           x == Expiry(b, k)
<1>1. /\ a \in Bucket /\ a.attempts \subseteq Event /\ a.pending \subseteq Event
      /\ Window[k] \in Nat /\ ReservationMax \in Nat
  BY PolicyAssumption, IntervalAssumption DEF Sound, Limiter, Bucket
<1>2. /\ b = [attempts |-> b.attempts, pending |-> b.pending]
      /\ c = [attempts |-> c.attempts, pending |-> c.pending]
      /\ b.attempts = {e \in a.attempts : e.at > t - Window[k]}
      /\ b.pending = {e \in a.pending : e.at > t - ReservationMax}
      /\ c.attempts = {e \in a.attempts : e.at > u - Window[k]}
      /\ c.pending = {e \in a.pending : e.at > u - ReservationMax}
  BY DEF PruneBucket, Recent
<1>3. /\ SoundBucket(b, k, t) /\ x \in Nat /\ x > t
      /\ x \in Departures(b, k)
      /\ \A y \in Departures(b, k) : x <= y
  BY FirstDeparture
<1> HIDE DEF a, b, c, x
<1>4. /\ c.attempts = {e \in b.attempts : e.at + Window[k] > u}
      /\ c.pending = {e \in b.pending : e.at + ReservationMax > u}
      /\ \A e \in b.attempts \cup b.pending : e.at \in Nat
  BY <1>1, <1>2 DEF Event
<1>5. ASSUME u < x PROVE c = b
  <2>1. /\ \A e \in b.attempts : x <= e.at + Window[k]
        /\ \A e \in b.pending : x <= e.at + ReservationMax
    BY <1>3 DEF Departures
  <2>2. /\ \A e \in b.attempts : e.at + Window[k] > u
        /\ \A e \in b.pending : e.at + ReservationMax > u
    BY <1>1, <1>3, <1>4, <1>5, <2>1
  <2>3. c.attempts = b.attempts /\ c.pending = b.pending
    BY <1>4, <2>2
  <2> QED
    BY <1>2, <2>3
<1>6. ASSUME u >= x PROVE ~AtLimit(c, k)
  <2>1. /\ IsFiniteSet(b.attempts) /\ IsFiniteSet(b.pending)
        /\ c.attempts \subseteq b.attempts /\ c.pending \subseteq b.pending
    BY <1>3, <1>4 DEF SoundBucket
  <2>2. c.attempts # b.attempts \/ c.pending # b.pending
    <3>1. CASE \E e \in b.attempts : x = e.at + Window[k]
      BY <1>4, <1>6, <3>1, <1>1
    <3>2. CASE \E e \in b.pending : x = e.at + ReservationMax
      BY <1>4, <1>6, <3>2, <1>1
    <3> QED
      BY <1>3, <3>1, <3>2 DEF Departures
  <2>3. /\ Cardinality(c.attempts) <= Cardinality(b.attempts)
        /\ Cardinality(c.pending) <= Cardinality(b.pending)
        /\ \/ Cardinality(c.attempts) < Cardinality(b.attempts)
           \/ Cardinality(c.pending) < Cardinality(b.pending)
    BY <2>1, <2>2, FS_Subset, FS_CardinalityType
  <2>4. /\ Cardinality(b.attempts) \in Nat /\ Cardinality(b.pending) \in Nat
        /\ Cardinality(c.attempts) \in Nat /\ Cardinality(c.pending) \in Nat
        /\ Limit[k] \in Nat
    BY <2>1, FS_Subset, FS_CardinalityType, PolicyAssumption
  <2> QED
    BY <1>3, <2>3, <2>4 DEF SoundBucket, Count, AtLimit
<1> QED
  BY <1>5, <1>6 DEF a, b, c, x

\* A key that has left its limit finds room: its own entry was in the map.
LEMMA RoomAgain ==
  ASSUME NEW l, NEW k \in Key, NEW t \in Nat, Sound(l, t), Fits(l),
         l.buckets[k] # NoBucket, NEW u \in Nat,
         ~AtLimit(PruneBucket(l.buckets[k], k, u), k)
  PROVE  Allowed(l, k, u)
<1> DEFINE m == Evaluate(l, k, u)
<1>1. l \in Limiter
  BY DEF Sound
<1>2. /\ m.buckets[k] = PruneBucket(l.buckets[k], k, u)
      /\ Filled(m) \subseteq Filled(l)
  BY <1>1, EvaluateBuckets, EvaluateFills
<1>3. Allowed(l, k, u) <=> ~AtLimit(m.buckets[k], k) /\ ~NoRoom(m.buckets, k)
  BY DEF Allowed
<1> HIDE DEF m
<1>4. ASSUME NoRoom(m.buckets, k) PROVE FALSE
  <2>1. k \in Filled(l) /\ k \notin Filled(m) /\ Cardinality(Filled(m)) >= MaxKeys
    BY <1>4 DEF NoRoom, Filled
  <2>2. IsFiniteSet(Filled(l)) /\ IsFiniteSet(Filled(m))
    BY KeyAssumption, FS_Subset DEF Filled
  <2>3. Cardinality(Filled(m)) < Cardinality(Filled(l))
    BY <1>2, <2>1, <2>2, FS_Subset, FS_CardinalityType
  <2>4. Cardinality(Filled(m)) \in Nat /\ Cardinality(Filled(l)) \in Nat
    BY <2>2, FS_CardinalityType
  <2> QED
    BY <2>1, <2>3, <2>4, PolicyAssumption DEF Fits
<1> QED
  BY <1>2, <1>3, <1>4

\* Retry-After, of any sound limiter.
LEMMA ExactRetry ==
  ASSUME NEW l, NEW k \in Key, NEW t \in Nat, Sound(l, t), Fits(l),
         AtLimit(Evaluate(l, k, t).buckets[k], k)
  PROVE  LET after == RetryAfter(l, k, t)
         IN  /\ Allowed(l, k, t + TicksPerSecond * after)
             /\ after > 1 => ~Allowed(l, k, t + TicksPerSecond * (after - 1))
<1> DEFINE b == PruneBucket(l.buckets[k], k, t)
           x == Expiry(b, k)
           s == Seconds(x - t)
<1>1. l \in Limiter /\ Evaluate(l, k, t).buckets[k] = b
  BY EvaluateBuckets DEF Sound
<1>2. AtLimit(b, k) /\ x \in Nat /\ x > t
  BY <1>1, FirstDeparture
<1>3. RetryAfter(l, k, t) = Max({1, s})
  BY <1>1, <1>2 DEF RetryAfter
<1>4. l.buckets[k] # NoBucket
  <2>1. SUFFICES ASSUME l.buckets[k] = NoBucket PROVE FALSE
    OBVIOUS
  <2>2. Count(b) = 0
    BY <2>1, PrunedEmpty, FS_EmptySet DEF Count, NoBucket
  <2> QED
    BY <1>2, <2>2, PolicyAssumption DEF AtLimit
<1> HIDE DEF b, x
<1>5. x - t \in Nat \ {0}
  BY <1>2
<1>6. /\ s \in Nat \ {0}
      /\ TicksPerSecond * s \in Nat /\ TicksPerSecond * s >= x - t
      /\ TicksPerSecond * (s - 1) \in Nat /\ TicksPerSecond * (s - 1) < x - t
  BY <1>5, WholeSeconds
<1> HIDE DEF s
<1>7. Max({1, s}) = s
  BY <1>6 DEF Max
<1>8. Allowed(l, k, t + TicksPerSecond * s)
  <2> DEFINE u == t + TicksPerSecond * s
  <2>1. u \in Nat /\ u >= t /\ u >= x
    BY <1>2, <1>6
  <2> HIDE DEF u
  <2>2. ~AtLimit(PruneBucket(l.buckets[k], k, u), k)
    BY <1>2, <2>1, PrunedLater DEF b, x
  <2> QED
    BY <1>4, <2>1, <2>2, RoomAgain DEF u
<1>9. ~Allowed(l, k, t + TicksPerSecond * (s - 1))
  <2> DEFINE u == t + TicksPerSecond * (s - 1)
  <2>1. u \in Nat /\ u >= t /\ u < x
    BY <1>2, <1>6
  <2> HIDE DEF u
  <2>2. PruneBucket(l.buckets[k], k, u) = b
    BY <1>2, <2>1, PrunedLater DEF b, x
  <2>3. Evaluate(l, k, u).buckets[k] = b
    BY <1>1, <2>1, <2>2, EvaluateBuckets
  <2> QED
    BY <1>2, <2>3 DEF Allowed, u
<1> QED
  BY <1>3, <1>7, <1>8, <1>9

\* Retry-After is neither too short nor a second too long.
THEOREM RetryAfterHolds == Spec => []RetryAfterIsExact
<1>1. SignInInv /\ MapFits => RetryAfterIsExact
  BY ExactRetry DEF SignInInv, MapFits, RetryAfterIsExact
<1> QED
  BY <1>1, SignInHolds, MapBounded, PTL

-----------------------------------------------------------------------------
(***************************************************************************)
(* External providers: ProviderCredentials, for any providers, pairs and   *)
(* editor pages, any number of requests in progress and any bounds on the  *)
(* changes of records and the tests.                                       *)
(*                                                                         *)
(* The argument: wherever a test may be remembered - the session, the copy *)
(* a request works on, the page that waits for it - a success of it means  *)
(* that the provider has accepted that test's pair, and a client that has  *)
(* read a stored pair still finds it under the version it read, or none.   *)
(***************************************************************************)

Test == [provider : Provider, id : 0..MaxWrites, pair : Pair]
Entry ==
  [id : 1..writes, pair : Pair \cup {None}, stamp : 0..writes, verified : BOOLEAN, enabled : BOOLEAN]
Runtime == [Provider -> Pair \cup {None}]
TestStatus == {"pending", "verified", "failed"}

\* A test is verified, in whatever copy of the session, only if the provider
\* has accepted its pair.
SoundCopy(c) ==
  /\ c \in [test : DOMAIN tests, status : TestStatus]
  /\ c.status = "verified" => <<tests[c.test].provider, tests[c.test].pair>> \in accepted

SoundPage(f) ==
  /\ f \in [provider : Provider, id : 0..writes, stored : BOOLEAN, locked : BOOLEAN,
            testsStored : BOOLEAN, pair : Pair \cup {None},
            action : {"unchanged", "replace", "remove"}, proof : {Unknown} \cup DOMAIN tests,
            saving : BOOLEAN, polling : SUBSET DOMAIN tests, overlays : Nat]
  /\ f.stored \/ f.testsStored \/ f.action = "remove" => f.id # Unknown

SoundRequest(q) ==
  /\ q = [kind |-> q.kind, tab |-> q.tab, provider |-> q.provider, test |-> q.test,
          copy |-> q.copy, body |-> q.body, at |-> q.at, offer |-> q.offer]
  /\ q.tab # None => q.tab \in Tab /\ SoundPage(form[q.tab])
  /\ q.copy = None \/ SoundCopy(q.copy)
  /\ q.kind = "callback" => SoundCopy(q.copy)
  /\ q.kind = "poll" => q.test \in DOMAIN tests
  /\ q.kind = "start" =>
       /\ q.provider \in Provider /\ q.body.id \in 0..writes /\ q.body.pair \in Pair \cup {None}
       /\ q.body.pair = None => q.body.id # Unknown
  /\ q.kind = "save" =>
       /\ q.provider \in Provider /\ q.body.id \in 0..writes /\ q.body.pair \in Pair \cup {None}
       /\ q.body.action = "remove" => q.body.id # Unknown
  /\ q.kind = "signin" => q.provider \in Provider /\ q.tab = None
  /\ q.at = "refreshed" => q.offer \in Runtime

\* A client that has read a pair finds that pair under its version, or none.
SoundVerifier(v) ==
  /\ v.provider \in Provider /\ v.id \in 1..writes /\ v.stamp \in 0..writes /\ v.pair \in Pair
  /\ record[v.provider] # None =>
       LET e == record[v.provider]
       IN  e.pair # None /\ e.stamp = v.stamp => e.pair = v.pair

Starts == {r \in Slot : In(r, "start", "sent")}
RecordsInv == writes \in 0..MaxWrites /\ record \in [Provider -> {None} \cup Entry]
TestsInv == tests \in Seq(Test) /\ Len(tests) + Cardinality(Starts) <= MaxTests
SessionInv == pending = None \/ SoundCopy(pending)
PagesInv ==
  /\ form = [t \in Tab |-> form[t]]
  /\ \A t \in Tab : form[t] = None \/ SoundPage(form[t])
RequestsInv ==
  /\ request = [r \in Slot |-> request[r]]
  /\ \A r \in Slot : request[r] = None \/ SoundRequest(request[r])
VerifierInv == verifier = None \/ SoundVerifier(verifier)

\* What the answer on its way to a sign-in says was true since its request,
\* and what is true now is true since its request.
OffersInv ==
  /\ offered = [r \in Slot |-> offered[r]]
  /\ \A r \in Slot : request[r] # None /\ request[r].kind = "signin" =>
       /\ request[r].provider \in Provider
       /\ Offer(record)[request[r].provider] \in offered[r]
       /\ request[r].at = "refreshed" => request[r].offer[request[r].provider] \in offered[r]

Records == RecordsInv /\ VerifierInv /\ VerifiedPairsPassed
Browser == TestsInv /\ SessionInv /\ PagesInv /\ RequestsInv /\ registry \in Runtime
CredentialsInv == Records /\ Browser /\ OffersInv

-----------------------------------------------------------------------------
\* Histories, tests and the clock of the records only grow.
Grows ==
  /\ writes \in Nat /\ writes' \in Nat /\ writes <= writes'
  /\ accepted \subseteq accepted'
  /\ DOMAIN tests \subseteq DOMAIN tests'
  /\ \A n \in DOMAIN tests : tests'[n] = tests[n]

StartsKept == \A r \in Slot : In(r, "start", "sent")' => In(r, "start", "sent")
SignInsKept ==
  \A r \in Slot : request'[r] # None /\ request'[r].kind = "signin" =>
    /\ request[r] # None /\ request[r].kind = "signin"
    /\ request'[r].provider = request[r].provider
    /\ request'[r].at = request[r].at /\ request'[r].offer = request[r].offer

LEMMA CopyStaysSound ==
  ASSUME Grows, NEW c, SoundCopy(c)
  PROVE  SoundCopy(c)'
  BY DEF Grows, SoundCopy

LEMMA PageStaysSound ==
  ASSUME Grows, NEW f, SoundPage(f)
  PROVE  SoundPage(f)'
<1>1. 0..writes \subseteq 0..writes'
  BY DEF Grows
<1> QED
  BY <1>1 DEF Grows, SoundPage

PagesKept == \A t \in Tab : SoundPage(form[t]) => SoundPage(form[t])'

LEMMA RequestStaysSound ==
  ASSUME Grows, NEW q, SoundRequest(q), q.tab # None => SoundPage(form[q.tab])'
  PROVE  SoundRequest(q)'
<1>1. 0..writes \subseteq 0..writes' /\ DOMAIN tests \subseteq DOMAIN tests'
  BY DEF Grows
<1>2. SoundCopy(q.copy) => SoundCopy(q.copy)'
  BY CopyStaysSound
<1> QED
  BY <1>1, <1>2 DEF SoundRequest, Runtime

LEMMA RequestsKeep ==
  ASSUME RequestsInv, Grows, PagesKept, request' = [r \in Slot |-> request'[r]],
         \A r \in Slot : \/ request'[r] \in {None, request[r]}
                         \/ SoundRequest(request[r])'
  PROVE  RequestsInv'
<1> SUFFICES ASSUME NEW r \in Slot, request[r] # None, request'[r] = request[r]
             PROVE  SoundRequest(request[r])'
  BY DEF RequestsInv
<1>1. SoundRequest(request[r])
  BY DEF RequestsInv
<1>2. request[r].tab # None => SoundPage(form[request[r].tab])'
  BY <1>1 DEF SoundRequest, PagesKept
<1> QED
  BY <1>1, <1>2, RequestStaysSound

LEMMA SessionStays ==
  ASSUME SessionInv, Grows, pending' = pending
  PROVE  SessionInv'
  BY CopyStaysSound DEF SessionInv

LEMMA PagesStay ==
  ASSUME PagesInv, Grows, form' = form
  PROVE  PagesInv' /\ PagesKept
  BY PageStaysSound DEF PagesInv, PagesKept

\* A page of one tab changes.
LEMMA PageChanges ==
  ASSUME PagesInv, Grows, NEW t \in Tab, NEW page, SoundPage(page)',
         form' = [form EXCEPT ![t] = page]
  PROVE  PagesInv' /\ PagesKept
<1>1. \A u \in Tab : form'[u] = IF u = t THEN page ELSE form[u]
  BY DEF PagesInv
<1>2. form' = [u \in Tab |-> form'[u]]
  BY DEF PagesInv
<1> QED
  BY <1>1, <1>2, PageStaysSound DEF PagesInv, PagesKept

\* The page that asked hears the answer, if it is there.
LEMMA PageHears ==
  ASSUME PagesInv, RequestsInv, Grows, NEW r \in Slot, request[r] # None,
         NEW page, request[r].tab # None => SoundPage(page)', Tell(request[r].tab, page)
  PROVE  PagesInv' /\ PagesKept
<1>1. SoundRequest(request[r])
  BY DEF RequestsInv
<1>2. CASE request[r].tab = None
  BY <1>2, PagesStay DEF Tell
<1>3. CASE request[r].tab # None
  <2>1. request[r].tab \in Tab
    BY <1>1, <1>3 DEF SoundRequest
  <2> QED
    BY <1>3, <2>1, PageChanges DEF Tell
<1> QED
  BY <1>2, <1>3

LEMMA Sends ==
  ASSUME RequestsInv, NEW r \in Slot, NEW q, Send(r, q)
  PROVE  /\ request[r] = None
         /\ request' = [s \in Slot |-> request'[s]]
         /\ \A s \in Slot : request'[s] = IF s = r THEN q ELSE request[s]
         /\ q.kind \notin {"start", "signin"} => StartsKept /\ SignInsKept
         /\ q.kind # "signin" => SignInsKept
         /\ q.kind # "start" => StartsKept
  BY DEF Send, RequestsInv, StartsKept, SignInsKept, In

LEMMA Answers ==
  ASSUME RequestsInv, NEW r \in Slot, Ends(r)
  PROVE  /\ request' = [s \in Slot |-> request'[s]]
         /\ \A s \in Slot : request'[s] = IF s = r THEN None ELSE request[s]
         /\ StartsKept /\ SignInsKept
  BY DEF Ends, RequestsInv, StartsKept, SignInsKept, In

LEMMA TestsStay ==
  ASSUME TestsInv, StartsKept, tests' = tests
  PROVE  TestsInv'
<1>1. IsFiniteSet(Starts) /\ Starts' \subseteq Starts
  BY CredentialBounds, FS_Subset DEF Starts, StartsKept
<1>2. IsFiniteSet(Starts') /\ Cardinality(Starts') <= Cardinality(Starts)
  BY <1>1, FS_Subset
<1>3. Cardinality(Starts) \in Nat /\ Cardinality(Starts') \in Nat
  BY <1>1, <1>2, FS_CardinalityType
<1> QED
  BY <1>2, <1>3, CredentialBounds DEF TestsInv

LEMMA OffersStay ==
  ASSUME OffersInv, SignInsKept, UNCHANGED <<record, offered>>
  PROVE  OffersInv'
  BY DEF OffersInv, SignInsKept, Offer, Ready

\* A step of the browser or the UI server that leaves the records alone.
LEMMA RecordsStay ==
  ASSUME Records, UNCHANGED <<record, writes, verifier>>, accepted \subseteq accepted'
  PROVE  Records'
  BY DEF Records, RecordsInv, VerifierInv, VerifiedPairsPassed, Entry, SoundVerifier

LEMMA NothingGrows ==
  ASSUME CredentialsInv, UNCHANGED <<writes, tests>>, accepted \subseteq accepted'
  PROVE  Grows
  BY CredentialBounds DEF CredentialsInv, Records, RecordsInv, Grows

-----------------------------------------------------------------------------
(* Changes of the records.                                                 *)

\* What a change may leave of the record of a provider: a pair has the version
\* of the change, or the version it had.
Becomes(p, e) ==
  \/ e = None
  \/ /\ e \in Entry'
     /\ e.verified => <<p, e.pair>> \in accepted
     /\ e.pair # None =>
          \/ e.stamp = writes + 1
          \/ record[p] # None /\ e.pair = record[p].pair /\ e.stamp = record[p].stamp

LEMMA RecordChanges ==
  ASSUME Records, NEW p \in Provider, NEW e,
         Change([record EXCEPT ![p] = e]), Becomes(p, e), UNCHANGED <<verifier, accepted>>
  PROVE  Records' /\ writes' = writes + 1 /\ writes \in Nat
<1>1. /\ writes \in 0..MaxWrites /\ writes < MaxWrites /\ writes' = writes + 1
      /\ record' = [record EXCEPT ![p] = e] /\ record \in [Provider -> {None} \cup Entry]
  BY DEF Change, Records, RecordsInv
<1>2. \A q \in Provider : record'[q] = IF q = p THEN e ELSE record[q]
  BY <1>1
<1>3. 0..writes \subseteq 0..writes' /\ 1..writes \subseteq 1..writes'
  BY <1>1
<1>4. Entry \subseteq Entry'
  BY <1>3 DEF Entry
<1>5. RecordsInv'
  <2>1. writes' \in 0..MaxWrites
    BY <1>1, CredentialBounds
  <2>2. record' \in [Provider -> {None} \cup Entry']
    BY <1>1, <1>4 DEF Becomes
  <2> QED
    BY <2>1, <2>2 DEF RecordsInv, Entry
<1>6. VerifierInv'
  <2> SUFFICES ASSUME verifier # None PROVE SoundVerifier(verifier)'
    BY DEF VerifierInv
  <2>1. SoundVerifier(verifier)
    BY DEF Records, VerifierInv
  <2>2. verifier.stamp \in 0..writes /\ verifier.provider \in Provider
    BY <2>1 DEF SoundVerifier
  <2>3. verifier.provider = p => (SoundVerifier(verifier)!2)'
    BY <1>1, <1>2, <2>1, <2>2 DEF SoundVerifier, Becomes
  <2> QED
    BY <1>2, <1>3, <2>1, <2>2, <2>3 DEF SoundVerifier
<1>7. VerifiedPairsPassed'
  BY <1>2 DEF VerifiedPairsPassed, Becomes, Records
<1> QED
  BY <1>1, <1>5, <1>6, <1>7 DEF Records

LEMMA PairIsWritten ==
  ASSUME Records, NEW p \in Provider, NEW id \in 0..writes, NEW pair \in Pair \cup {None},
         NEW verified \in BOOLEAN, NEW enabled \in BOOLEAN,
         verified => <<p, pair>> \in accepted,
         Change(Written(p, id, pair, verified, enabled)), UNCHANGED <<verifier, accepted>>
  PROVE  Records' /\ writes' = writes + 1 /\ writes \in Nat
<1> DEFINE e == [id |-> IF id = Unknown THEN writes + 1 ELSE id,
                 pair |-> pair,
                 stamp |-> IF pair = None THEN Unknown ELSE writes + 1,
                 verified |-> verified,
                 enabled |-> enabled]
<1>1. Change([record EXCEPT ![p] = e])
  BY DEF Written
<1>2. Becomes(p, e)
  <2>1. writes' = writes + 1 /\ writes \in Nat
    BY CredentialBounds DEF Change, Records, RecordsInv
  <2>2. /\ e.id \in 1..writes' /\ e.stamp \in 0..writes' /\ e.pair \in Pair \cup {None}
    BY <2>1 DEF Unknown
  <2>3. e \in Entry'
    BY <2>2 DEF Entry
  <2>4. e.pair # None => e.stamp = writes + 1
    OBVIOUS
  <2> QED
    BY <2>3, <2>4 DEF Becomes
<1> HIDE DEF e
<1> QED
  BY <1>1, <1>2, RecordChanges

LEMMA PairIsRemoved ==
  ASSUME Records, NEW p \in Provider, record[p] # None,
         Change(Emptied(p)), UNCHANGED <<verifier, accepted>>
  PROVE  Records' /\ writes' = writes + 1 /\ writes \in Nat
<1> DEFINE e == [record[p] EXCEPT !.pair = None, !.stamp = Unknown, !.verified = FALSE,
                                  !.enabled = FALSE]
<1>1. writes' = writes + 1 /\ writes \in Nat /\ record[p] \in Entry
  BY CredentialBounds DEF Change, Records, RecordsInv
<1>2. Change([record EXCEPT ![p] = e])
  BY DEF Emptied, Records, RecordsInv
<1>3. e \in [id : 1..writes, pair : {None}, stamp : {Unknown}, verified : {FALSE}, enabled : {FALSE}]
  BY <1>1 DEF Entry
<1> HIDE DEF e
<1>4. 1..writes \subseteq 1..writes' /\ Unknown \in 0..writes'
  BY <1>1 DEF Unknown
<1>5. e \in Entry' /\ e.pair = None /\ ~e.verified
  BY <1>3, <1>4 DEF Entry
<1>6. Becomes(p, e)
  BY <1>5 DEF Becomes
<1> QED
  BY <1>2, <1>6, RecordChanges

LEMMA RecordIsPatched ==
  ASSUME Records, NEW p \in Provider, record[p] # None, NEW enabled \in BOOLEAN,
         Change(Patched(p, enabled)), UNCHANGED <<verifier, accepted>>
  PROVE  Records' /\ writes' = writes + 1 /\ writes \in Nat
<1> DEFINE e == [record[p] EXCEPT !.enabled = enabled]
<1>1. writes' = writes + 1 /\ writes \in Nat /\ record[p] \in Entry
  BY CredentialBounds DEF Change, Records, RecordsInv
<1>2. Change([record EXCEPT ![p] = e])
  BY DEF Patched, Records, RecordsInv
<1>3. /\ e \in Entry' /\ e.pair = record[p].pair /\ e.stamp = record[p].stamp
      /\ e.verified = record[p].verified
  BY <1>1 DEF Entry
<1>4. Becomes(p, e)
  BY <1>3 DEF Becomes, Records, VerifiedPairsPassed
<1> HIDE DEF e
<1> QED
  BY <1>2, <1>4, RecordChanges

\* A proof is a test of that very pair, and the provider has accepted it.
LEMMA ProofIsSound ==
  ASSUME NEW q, SoundRequest(q), ProofMatches(q)
  PROVE  <<q.provider, q.body.pair>> \in accepted
<1>1. SoundCopy(q.copy) /\ q.copy.status = "verified"
  BY DEF SoundRequest, ProofMatches
<1>2. tests[q.copy.test].provider = q.provider /\ tests[q.copy.test].pair = q.body.pair
  BY DEF ProofMatches
<1> QED
  BY <1>1, <1>2 DEF SoundCopy

LEMMA SaveWritesRecords ==
  ASSUME Records, NEW q, SoundRequest(q), q.kind = "save", NEW enabled \in BOOLEAN,
         NEW old \in BOOLEAN, Accepts(q), Change(Saved(q, enabled, old)),
         UNCHANGED <<verifier, accepted>>
  PROVE  Records' /\ writes' = writes + 1 /\ writes \in Nat
<1>1. /\ q.provider \in Provider /\ q.body.id \in 0..writes /\ q.body.pair \in Pair \cup {None}
      /\ q.body.action = "remove" => q.body.id # Unknown
      /\ q.body.id # Unknown => record[q.provider] # None
      /\ q.body.action = "replace" => q.body.pair # None
  BY DEF SoundRequest, Accepts, Addressed
<1>2. CASE q.body.action = "remove"
  <2>1. Saved(q, enabled, old) = Emptied(q.provider)
    BY <1>2 DEF Saved
  <2>2. Change(Emptied(q.provider))
    BY <2>1
  <2> QED
    BY <1>1, <1>2, <2>2, PairIsRemoved
<1>3. CASE q.body.action = "replace"
  <2> DEFINE verified == ProofMatches(q) /\ ~old
  <2>0. Saved(q, enabled, old) = Written(q.provider, q.body.id, q.body.pair, verified, enabled)
    BY <1>3 DEF Saved
  <2>1. Change(Written(q.provider, q.body.id, q.body.pair, verified, enabled))
    BY <2>0
  <2>2. verified => <<q.provider, q.body.pair>> \in accepted
    BY ProofIsSound
  <2>3. verified \in BOOLEAN
    OBVIOUS
  <2> HIDE DEF verified
  <2> QED
    BY <1>1, <2>1, <2>2, <2>3, PairIsWritten
<1>4. CASE q.body.action \notin {"remove", "replace"} /\ q.body.id = Unknown
  <2>1. Change(Written(q.provider, q.body.id, None, FALSE, enabled))
    BY <1>4 DEF Saved
  <2> QED
    BY <1>1, <2>1, PairIsWritten
<1>5. CASE q.body.action \notin {"remove", "replace"} /\ q.body.id # Unknown
  <2>1. Change(Patched(q.provider, enabled))
    BY <1>5 DEF Saved
  <2> QED
    BY <1>1, <1>5, <2>1, RecordIsPatched
<1> QED
  BY <1>2, <1>3, <1>4, <1>5

LEMMA MaterialIsRead ==
  ASSUME Records, NEW p \in Provider, ReadMaterial(p)
  PROVE  Records'
<1>1. /\ record[p] # None /\ record[p].pair # None /\ UNCHANGED <<record, writes, accepted>>
      /\ verifier' = [provider |-> p, id |-> record[p].id, client |-> record[p].pair.client,
                      pair |-> record[p].pair, stamp |-> record[p].stamp]
  BY DEF ReadMaterial
<1>2. record[p] \in Entry
  BY <1>1 DEF Records, RecordsInv
<1>3. SoundVerifier(verifier)'
  BY <1>1, <1>2 DEF SoundVerifier, Entry
<1>4. RecordsInv' /\ VerifiedPairsPassed'
  BY <1>1 DEF Records, RecordsInv, VerifiedPairsPassed, Entry
<1> QED
  BY <1>3, <1>4 DEF Records, VerifierInv

LEMMA MaterialIsVerified ==
  ASSUME Records, MarkVerified
  PROVE  Records'
<1> DEFINE p == verifier.provider
<1>1. /\ verifier # None /\ writes' = writes
      /\ accepted' = accepted \cup {<<p, verifier.pair>>} /\ verifier' = None
      /\ record' = IF Addressed(p, verifier.id) /\ SameVersion(record[p], verifier)
                   THEN [record EXCEPT ![p].verified = TRUE]
                   ELSE record
  BY DEF MarkVerified
<1>2. SoundVerifier(verifier) /\ p \in Provider /\ verifier.id # Unknown
  BY <1>1 DEF Records, VerifierInv, SoundVerifier, Unknown
<1>3. CASE Addressed(p, verifier.id) /\ SameVersion(record[p], verifier)
  <2>1. /\ record[p] # None /\ record[p] \in Entry
        /\ record[p].pair # None /\ record[p].stamp = verifier.stamp
    BY <1>2, <1>3 DEF Addressed, SameVersion, Records, RecordsInv
  <2>2. record[p].pair = verifier.pair
    BY <1>2, <2>1 DEF SoundVerifier
  <2>3. record' = [record EXCEPT ![p].verified = TRUE]
    BY <1>1, <1>3
  <2>4. \A q \in Provider :
          record'[q] = IF q = p THEN [record[p] EXCEPT !.verified = TRUE] ELSE record[q]
    BY <2>3 DEF Records, RecordsInv
  <2>5. record'[p].pair = verifier.pair /\ record'[p] \in Entry
    BY <1>2, <2>1, <2>2, <2>4 DEF Entry
  <2>6. record' \in [Provider -> {None} \cup Entry]
    BY <1>2, <2>3, <2>5 DEF Records, RecordsInv
  <2>7. RecordsInv'
    BY <1>1, <2>6 DEF Records, RecordsInv, Entry
  <2>8. VerifiedPairsPassed'
    BY <1>1, <2>4, <2>5 DEF Records, VerifiedPairsPassed
  <2> QED
    BY <1>1, <2>7, <2>8 DEF Records, VerifierInv
<1>4. CASE ~(Addressed(p, verifier.id) /\ SameVersion(record[p], verifier))
  BY <1>1, <1>4 DEF Records, RecordsInv, VerifierInv, VerifiedPairsPassed, Entry
<1> QED
  BY <1>3, <1>4

-----------------------------------------------------------------------------
(* Steps of the pages and of the session.                                  *)

LEMMA SendsSoundly ==
  ASSUME RequestsInv, Grows, PagesKept, NEW r \in Slot, NEW q, Send(r, q), SoundRequest(q)'
  PROVE  RequestsInv'
  BY Sends, RequestsKeep

LEMMA AnswersSoundly ==
  ASSUME RequestsInv, Grows, PagesKept, NEW r \in Slot, Ends(r)
  PROVE  RequestsInv'
  BY Answers, RequestsKeep

LEMMA AskIsSound ==
  ASSUME NEW kind, NEW copy, copy = None \/ SoundCopy(copy),
         kind \in {"other", "cancel", "delete"}
  PROVE  SoundRequest(Ask(kind, copy))
  BY DEF Ask, SoundRequest

\* The records are left alone and so are the sign-ins.
LEMMA BrowserSteps ==
  ASSUME CredentialsInv, UNCHANGED <<record, writes, verifier, offered>>,
         accepted \subseteq accepted', SignInsKept, Browser'
  PROVE  CredentialsInv'
  BY RecordsStay, OffersStay DEF CredentialsInv

LEMMA OtherRequestKeeps ==
  ASSUME CredentialsInv, NEW r \in Slot, NEW copy \in {pending, None}, OtherRequest(r, copy)
  PROVE  CredentialsInv'
<1>1. Grows
  BY NothingGrows DEF OtherRequest
<1>2. SoundRequest(Ask("other", copy))
  BY AskIsSound DEF CredentialsInv, Browser, SessionInv
<1>3. SoundRequest(Ask("other", copy))'
  BY <1>1, <1>2, RequestStaysSound DEF Ask
<1>4. PagesInv' /\ PagesKept /\ SessionInv'
  BY <1>1, PagesStay, SessionStays DEF CredentialsInv, Browser, OtherRequest
<1>5. RequestsInv' /\ StartsKept /\ SignInsKept
  BY <1>1, <1>3, <1>4, SendsSoundly, Sends DEF CredentialsInv, Browser, OtherRequest, Ask
<1>6. Browser'
  BY <1>4, <1>5, TestsStay DEF CredentialsInv, Browser, OtherRequest, Runtime
<1> QED
  BY <1>5, <1>6, BrowserSteps DEF OtherRequest

LEMMA OtherEndsKeeps ==
  ASSUME CredentialsInv, NEW r \in Slot, OtherEnds(r)
  PROVE  CredentialsInv'
<1>1. Grows
  BY NothingGrows DEF OtherEnds
<1>2. request[r] # None /\ SoundRequest(request[r])
  BY DEF CredentialsInv, Browser, RequestsInv, OtherEnds, In
<1>3. SessionInv'
  BY <1>1, <1>2, CopyStaysSound DEF SoundRequest, SessionInv, OtherEnds
<1>4. PagesInv' /\ PagesKept
  BY <1>1, PagesStay DEF CredentialsInv, Browser, OtherEnds
<1>5. RequestsInv' /\ StartsKept /\ SignInsKept
  BY <1>1, <1>4, AnswersSoundly, Answers DEF CredentialsInv, Browser, OtherEnds
<1>6. Browser'
  BY <1>3, <1>4, <1>5, TestsStay DEF CredentialsInv, Browser, OtherEnds, Runtime
<1> QED
  BY <1>5, <1>6, BrowserSteps DEF OtherEnds

\* Only a page changes.
LEMMA PageSteps ==
  ASSUME CredentialsInv, NEW t \in Tab, NEW page, SoundPage(page),
         form' = [form EXCEPT ![t] = page],
         UNCHANGED <<record, writes, tests, pending, request, registry, verifier, accepted, offered>>
  PROVE  CredentialsInv'
<1>1. Grows
  BY NothingGrows
<1>2. PagesInv' /\ PagesKept
  BY <1>1, PageStaysSound, PageChanges DEF CredentialsInv, Browser
<1>3. StartsKept /\ SignInsKept
  BY DEF StartsKept, SignInsKept, In
<1>4. RequestsInv'
  <2>1. request' = [r \in Slot |-> request'[r]] /\ \A r \in Slot : request'[r] \in {None, request[r]}
    BY DEF CredentialsInv, Browser, RequestsInv
  <2> QED
    BY <1>1, <1>2, <2>1, RequestsKeep DEF CredentialsInv, Browser
<1>5. Browser'
  BY <1>1, <1>2, <1>3, <1>4, TestsStay, SessionStays DEF CredentialsInv, Browser, Runtime
<1> QED
  BY <1>3, <1>5, BrowserSteps

LEMMA OpenEditorKeeps ==
  ASSUME CredentialsInv, NEW t \in Tab, NEW p \in Provider, OpenEditor(t, p)
  PROVE  CredentialsInv'
<1>1. record[p] # None => record[p].id \in 1..writes
  BY DEF CredentialsInv, Records, RecordsInv, Entry
<1>2. writes \in Nat
  BY CredentialBounds DEF CredentialsInv, Records, RecordsInv
<1>3. SoundPage(Loaded(p))
  <2> DEFINE stored == record[p] # None /\ record[p].pair # None
             id == IF record[p] = None THEN Unknown ELSE record[p].id
  <2>1. Loaded(p) = [provider |-> p, id |-> id, stored |-> stored, locked |-> stored,
                     testsStored |-> stored, pair |-> None, action |-> "unchanged",
                     proof |-> Unknown, saving |-> FALSE, polling |-> {}, overlays |-> 0]
    BY DEF Loaded
  <2>2. id \in 0..writes /\ stored \in BOOLEAN /\ (stored => id # Unknown)
    BY <1>1, <1>2 DEF Unknown
  <2> HIDE DEF stored, id
  <2>3. Loaded(p).action # "remove" /\ Loaded(p).stored = stored
        /\ Loaded(p).testsStored = stored /\ Loaded(p).id = id
    BY <2>1
  <2>4. Loaded(p) \in [provider : Provider, id : 0..writes, stored : BOOLEAN, locked : BOOLEAN,
            testsStored : BOOLEAN, pair : Pair \cup {None},
            action : {"unchanged", "replace", "remove"}, proof : {Unknown} \cup DOMAIN tests,
            saving : BOOLEAN, polling : SUBSET DOMAIN tests, overlays : Nat]
    BY <2>1, <2>2
  <2> QED
    BY <2>2, <2>3, <2>4 DEF SoundPage
<1> QED
  BY <1>3, PageSteps DEF OpenEditor

LEMMA PageOfTab ==
  ASSUME CredentialsInv, NEW t \in Tab, form[t] # None
  PROVE  SoundPage(form[t])
  BY DEF CredentialsInv, Browser, PagesInv

LEMMA EnterPairKeeps ==
  ASSUME CredentialsInv, NEW t \in Tab, NEW pair \in Pair, EnterPair(t, pair)
  PROVE  CredentialsInv'
<1> DEFINE page == [form[t] EXCEPT
       !.pair = pair, !.action = "replace", !.proof = Unknown, !.locked = FALSE,
       !.testsStored = IF form[t].locked THEN FALSE ELSE @]
<1>1. SoundPage(form[t])
  BY PageOfTab DEF EnterPair, Usable
<1>2. SoundPage(page)
  BY <1>1 DEF SoundPage
<1> QED
  BY <1>2, PageSteps DEF EnterPair, Edit

LEMMA RemovePairKeeps ==
  ASSUME CredentialsInv, NEW t \in Tab, RemovePair(t)
  PROVE  CredentialsInv'
<1> DEFINE page == [form[t] EXCEPT
       !.pair = None, !.action = "remove", !.proof = Unknown, !.locked = FALSE]
<1>1. SoundPage(form[t]) /\ form[t].stored
  BY PageOfTab DEF RemovePair, Usable
<1>2. SoundPage(page)
  BY <1>1 DEF SoundPage
<1> QED
  BY <1>2, PageSteps DEF RemovePair, Edit

LEMMA NoLongerIsSound ==
  ASSUME NEW f, SoundPage(f), NEW n
  PROVE  SoundPage(NoLonger(f, n))
<1> DEFINE polling == f.polling \ {n}
           overlays == IF f.overlays = 0 THEN 0 ELSE f.overlays - 1
<1>1. polling \in SUBSET DOMAIN tests /\ overlays \in Nat
  BY DEF SoundPage
<1>2. NoLonger(f, n) = [f EXCEPT !.polling = polling, !.overlays = overlays]
  BY DEF NoLonger, SoundPage
<1> HIDE DEF polling, overlays
<1> QED
  BY <1>1, <1>2 DEF SoundPage

LEMMA GiveUpKeeps ==
  ASSUME CredentialsInv, NEW t \in Tab, NEW n \in DOMAIN tests, GiveUp(t, n)
  PROVE  CredentialsInv'
<1>1. SoundPage(NoLonger(form[t], n))
  BY PageOfTab, NoLongerIsSound DEF GiveUp
<1>2. form' = [form EXCEPT ![t] = NoLonger(form[t], n)]
  BY DEF GiveUp, CredentialsInv, Browser, PagesInv
<1> QED
  BY <1>1, <1>2, PageSteps DEF GiveUp

LEMMA RequestLosesPage ==
  ASSUME NEW q, SoundRequest(q)
  PROVE  LET d == [q EXCEPT !.tab = None]
         IN  /\ SoundRequest(d) /\ d.tab = None
             /\ d.kind = q.kind /\ d.at = q.at /\ d.provider = q.provider /\ d.offer = q.offer
<1> DEFINE d == [q EXCEPT !.tab = None]
<1>1. q = [kind |-> q.kind, tab |-> q.tab, provider |-> q.provider, test |-> q.test,
           copy |-> q.copy, body |-> q.body, at |-> q.at, offer |-> q.offer]
  BY DEF SoundRequest
<1>2. /\ d.kind = q.kind /\ d.at = q.at /\ d.provider = q.provider /\ d.offer = q.offer
      /\ d.tab = None /\ d.test = q.test /\ d.copy = q.copy /\ d.body = q.body
      /\ d = [kind |-> d.kind, tab |-> d.tab, provider |-> d.provider, test |-> d.test,
              copy |-> d.copy, body |-> d.body, at |-> d.at, offer |-> d.offer]
  BY <1>1
<1> HIDE DEF d
<1>3. SoundRequest(d)
  BY <1>2 DEF SoundRequest
<1> QED
  BY <1>2, <1>3 DEF d

\* A page is left, and what it waited for finds nobody.
LEMMA PageLeaves ==
  ASSUME RequestsInv, PagesInv, Grows, NEW t \in Tab \cup {None},
         form' = [form EXCEPT ![t] = None],
         request' = [r \in Slot |-> request'[r]],
         \A r \in Slot : request'[r] \in {None, Deserted(t)[r]}
  PROVE  RequestsInv' /\ PagesInv' /\ StartsKept /\ SignInsKept
<1>1. form' = [u \in Tab |-> form'[u]] /\ \A u \in Tab : form'[u] = IF u = t THEN None ELSE form[u]
  BY DEF PagesInv
<1>2. PagesInv'
  BY <1>1, PageStaysSound DEF PagesInv
<1>3. ASSUME NEW r \in Slot, request'[r] # None
      PROVE  /\ SoundRequest(request[r])'
             /\ request[r] # None /\ request'[r].kind = request[r].kind
             /\ request'[r].at = request[r].at /\ request'[r].provider = request[r].provider
             /\ request'[r].offer = request[r].offer
  <2>1. request'[r] = IF request[r] # None /\ request[r].tab = t
                      THEN [request[r] EXCEPT !.tab = None] ELSE request[r]
    BY <1>3 DEF Deserted
  <2>2. request[r] # None /\ SoundRequest(request[r])
    BY <1>3, <2>1 DEF RequestsInv
  <2>0. PICK q : q = IF request[r].tab = t THEN [request[r] EXCEPT !.tab = None] ELSE request[r]
    OBVIOUS
  <2>3. /\ SoundRequest(q) /\ (q.tab # None => q.tab # t)
        /\ q.kind = request[r].kind /\ q.at = request[r].at
        /\ q.provider = request[r].provider /\ q.offer = request[r].offer
    BY <2>0, <2>2, RequestLosesPage
  <2>4. request'[r] = q
    BY <2>0, <2>1, <2>2
  <2>5. q.tab # None => q.tab \in Tab /\ SoundPage(form[q.tab])
    BY <2>3 DEF SoundRequest
  <2>6. q.tab # None => SoundPage(form[q.tab])'
    <3> SUFFICES ASSUME q.tab # None PROVE SoundPage(form[q.tab])'
      OBVIOUS
    <3>1. SoundPage(form[q.tab]) /\ form'[q.tab] = form[q.tab]
      BY <1>1, <2>3, <2>5
    <3> QED
      BY <3>1, PageStaysSound
  <2>7. SoundRequest(q)'
    BY <2>3, <2>6, RequestStaysSound
  <2> QED
    BY <2>2, <2>3, <2>4, <2>7
<1>4. RequestsInv'
  BY <1>3 DEF RequestsInv
<1> QED
  BY <1>2, <1>3, <1>4 DEF StartsKept, SignInsKept, In

LEMMA CloseEditorKeeps ==
  ASSUME CredentialsInv, NEW t \in Tab, CloseEditor(t)
  PROVE  CredentialsInv'
<1>1. Grows
  BY NothingGrows DEF CloseEditor
<1>2. request' = [r \in Slot |-> request'[r]] /\ \A r \in Slot : request'[r] = Deserted(t)[r]
  BY DEF CloseEditor, Deserted
<1>3. RequestsInv' /\ PagesInv' /\ StartsKept /\ SignInsKept
  BY <1>1, <1>2, PageLeaves DEF CredentialsInv, Browser, CloseEditor
<1>4. Browser'
  BY <1>1, <1>3, TestsStay, SessionStays DEF CredentialsInv, Browser, CloseEditor, Runtime
<1> QED
  BY <1>3, <1>4, BrowserSteps DEF CloseEditor

\* A request is sent by a page or the browser, about the session as it is.
LEMMA SendingKeeps ==
  ASSUME CredentialsInv, NEW r \in Slot, NEW q, Send(r, q), SoundRequest(q),
         q.kind \notin {"start", "signin"},
         UNCHANGED <<record, writes, tests, form, registry, verifier, accepted, offered>>,
         SessionInv'
  PROVE  CredentialsInv'
<1>1. Grows
  BY NothingGrows
<1>2. PagesInv' /\ PagesKept
  BY <1>1, PagesStay DEF CredentialsInv, Browser
<1>3. SoundRequest(q)'
  <2>1. q.tab # None => SoundPage(form[q.tab])'
    BY <1>1, PageStaysSound DEF SoundRequest
  <2> QED
    BY <1>1, <2>1, RequestStaysSound
<1>4. RequestsInv' /\ StartsKept /\ SignInsKept
  BY <1>1, <1>2, <1>3, SendsSoundly, Sends DEF CredentialsInv, Browser
<1>5. Browser'
  BY <1>2, <1>4, TestsStay DEF CredentialsInv, Browser, Runtime
<1> QED
  BY <1>4, <1>5, BrowserSteps

LEMMA SessionIsKept ==
  ASSUME CredentialsInv, UNCHANGED <<writes, tests, pending>>, accepted \subseteq accepted'
  PROVE  SessionInv'
  BY NothingGrows, SessionStays DEF CredentialsInv, Browser

LEMMA CallbackArrivesKeeps ==
  ASSUME CredentialsInv, NEW r \in Slot, CallbackArrives(r)
  PROVE  CredentialsInv'
<1>1. SoundCopy(pending)
  BY DEF CredentialsInv, Browser, SessionInv, CallbackArrives, Active
<1>2. SoundRequest(Ask("callback", pending)) /\ Ask("callback", pending).kind = "callback"
  BY <1>1 DEF Ask, SoundRequest
<1> QED
  BY <1>2, SendingKeeps, SessionIsKept DEF CallbackArrives

LEMMA PollKeeps ==
  ASSUME CredentialsInv, NEW t \in Tab, NEW r \in Slot, NEW n \in DOMAIN tests, Poll(t, r, n)
  PROVE  CredentialsInv'
<1> DEFINE q == [Ask("poll", pending) EXCEPT !.tab = t, !.test = n]
<1>1. SoundPage(form[t]) /\ (pending = None \/ SoundCopy(pending))
  BY PageOfTab DEF Poll, CredentialsInv, Browser, SessionInv
<1>2. SoundRequest(q) /\ q.kind = "poll"
  <2>1. q \in [kind : {"poll"}, tab : {t}, provider : {None}, test : {n}, copy : {pending},
               body : {None}, at : {"sent"}, offer : {None}]
    BY DEF Ask
  <2> HIDE DEF q
  <2> QED
    BY <1>1, <2>1 DEF SoundRequest
<1> QED
  BY <1>2, SendingKeeps, SessionIsKept DEF Poll

LEMMA CancelKeeps ==
  ASSUME CredentialsInv, NEW t \in Tab, NEW r \in Slot, NEW n \in DOMAIN tests,
         NEW heard \in BOOLEAN, Cancel(t, r, n, heard)
  PROVE  CredentialsInv'
<1> DEFINE q == [Ask("cancel", None) EXCEPT !.tab = t, !.test = n]
<1>1. SoundPage(form[t])
  BY PageOfTab DEF Cancel
<1>2. SoundRequest(q) /\ q.kind = "cancel"
  <2>1. q \in [kind : {"cancel"}, tab : {t}, provider : {None}, test : {n}, copy : {None},
               body : {None}, at : {"sent"}, offer : {None}]
    BY DEF Ask
  <2> HIDE DEF q
  <2> QED
    BY <1>1, <2>1 DEF SoundRequest
<1>3. SessionInv'
  <2>1. Grows
    BY NothingGrows DEF Cancel
  <2> QED
    BY <2>1, CopyStaysSound DEF Cancel, SessionInv, CredentialsInv, Browser
<1> QED
  BY <1>2, <1>3, SendingKeeps DEF Cancel

\* A request is answered, and its page hears of it.
LEMMA AnsweringKeeps ==
  ASSUME CredentialsInv, NEW r \in Slot, Ends(r), PagesInv', PagesKept, SessionInv',
         UNCHANGED <<record, writes, tests, registry, verifier, offered>>,
         accepted \subseteq accepted'
  PROVE  CredentialsInv'
<1>1. Grows
  BY NothingGrows
<1>2. RequestsInv' /\ StartsKept /\ SignInsKept
  BY <1>1, AnswersSoundly, Answers DEF CredentialsInv, Browser
<1>3. Browser'
  BY <1>2, TestsStay DEF CredentialsInv, Browser, Runtime
<1> QED
  BY <1>2, <1>3, BrowserSteps

LEMMA TestRefusedKeeps ==
  ASSUME CredentialsInv, NEW r \in Slot, TestRefused(r)
  PROVE  CredentialsInv'
  BY AnsweringKeeps, NothingGrows, PagesStay, SessionIsKept
  DEF TestRefused, CredentialsInv, Browser

LEMMA CallbackEndsKeeps ==
  ASSUME CredentialsInv, NEW r \in Slot, NEW status \in {"verified", "failed"},
         CallbackEnds(r, status)
  PROVE  CredentialsInv'
<1> DEFINE copy == request[r].copy
           pair == <<tests[copy.test].provider, tests[copy.test].pair>>
<1>1. /\ accepted' = IF status = "verified" THEN accepted \cup {pair} ELSE accepted
      /\ pending' = Settled(copy, status) /\ Ends(r)
      /\ UNCHANGED <<record, writes, tests, form, registry, verifier, offered>>
  BY DEF CallbackEnds
<1>2. SoundCopy(copy)
  BY DEF CredentialsInv, Browser, RequestsInv, SoundRequest, CallbackEnds, In
<1>3. accepted \subseteq accepted' /\ Grows
  BY <1>1, NothingGrows
<1>4. SoundCopy(pending)'
  BY <1>1, <1>2 DEF SoundCopy, Settled, TestStatus
<1> QED
  BY <1>1, <1>3, <1>4, AnsweringKeeps, PagesStay DEF CredentialsInv, Browser, SessionInv

LEMMA PollEndsKeeps ==
  ASSUME CredentialsInv, NEW r \in Slot, NEW old \in BOOLEAN, PollEnds(r, old)
  PROVE  CredentialsInv'
<1> DEFINE q == request[r]
           page == form[q.tab]
<1>1. /\ SoundRequest(q) /\ q # None /\ q.test \in DOMAIN tests
      /\ UNCHANGED <<record, writes, tests, registry, verifier, accepted, offered>> /\ Ends(r)
      /\ pending' = IF Status(q, old) = "failed" /\ Active(q.copy)
                    THEN Settled(q.copy, "failed") ELSE pending
  BY DEF CredentialsInv, Browser, RequestsInv, SoundRequest, PollEnds, In
<1>2. Grows
  BY <1>1, NothingGrows
<1>3. SessionInv'
  <2>1. CASE pending' = pending
    BY <1>1, <2>1, SessionIsKept
  <2>2. CASE Active(q.copy) /\ pending' = Settled(q.copy, "failed")
    <3>1. SoundCopy(q.copy)
      BY <1>1, <2>2 DEF SoundRequest, Active
    <3>2. SoundCopy(pending)'
      BY <1>1, <2>2, <3>1 DEF SoundCopy, Settled, TestStatus
    <3> QED
      BY <3>2 DEF SessionInv
  <2> QED
    BY <1>1, <2>1, <2>2
<1>4. \E new : /\ Tell(q.tab, new)
               /\ new \in {page, NoLonger(page, q.test),
                           [NoLonger(page, q.test) EXCEPT !.proof = q.test, !.action = "replace"]}
  <2>1. CASE Status(q, old) = "verified"
    BY <2>1 DEF PollEnds
  <2>2. CASE Status(q, old) = "failed"
    BY <2>2 DEF PollEnds
  <2>3. CASE Status(q, old) \notin {"verified", "failed"}
    BY <2>3 DEF PollEnds
  <2> QED
    BY <2>1, <2>2, <2>3
<1>5. PICK new : /\ Tell(q.tab, new)
                 /\ new \in {page, NoLonger(page, q.test),
                             [NoLonger(page, q.test) EXCEPT !.proof = q.test, !.action = "replace"]}
  BY <1>4
<1>6. q.tab # None => SoundPage(new)
  <2> SUFFICES ASSUME q.tab # None PROVE SoundPage(new)
    OBVIOUS
  <2>1. SoundPage(page)
    BY <1>1 DEF SoundRequest
  <2>2. SoundPage(NoLonger(page, q.test))
    BY <2>1, NoLongerIsSound
  <2> DEFINE n == NoLonger(page, q.test)
  <2>3. SoundPage([n EXCEPT !.proof = q.test, !.action = "replace"])
    BY <1>1, <2>2 DEF SoundPage
  <2> QED
    BY <1>5, <2>1, <2>2, <2>3
<1>7. PagesInv' /\ PagesKept
  <2>1. q.tab # None => SoundPage(new)'
    BY <1>2, <1>6, PageStaysSound
  <2> QED
    BY <1>1, <1>2, <1>5, <2>1, PageHears DEF CredentialsInv, Browser
<1> QED
  BY <1>1, <1>3, <1>7, AnsweringKeeps

LEMMA CancelEndsKeeps ==
  ASSUME CredentialsInv, NEW r \in Slot, CancelEnds(r)
  PROVE  CredentialsInv'
<1>1. PICK page : page = NoLonger(form[request[r].tab], request[r].test)
  OBVIOUS
<1>2. /\ request[r] # None /\ SoundRequest(request[r]) /\ Tell(request[r].tab, page) /\ Ends(r)
  BY <1>1 DEF CredentialsInv, Browser, RequestsInv, CancelEnds, In
<1>3. Grows
  BY NothingGrows DEF CancelEnds
<1>4. request[r].tab # None => SoundPage(page)
  BY <1>1, <1>2, NoLongerIsSound DEF SoundRequest
<1>5. request[r].tab # None => SoundPage(page)'
  BY <1>3, <1>4, PageStaysSound
<1> QED
  BY <1>2, <1>3, <1>5, PageHears, AnsweringKeeps, SessionIsKept
  DEF CredentialsInv, Browser, CancelEnds

-----------------------------------------------------------------------------
(* Steps that send something of their own.                                 *)

LEMMA StartTestKeeps ==
  ASSUME CredentialsInv, NEW t \in Tab, NEW r \in Slot, StartTest(t, r)
  PROVE  CredentialsInv'
<1> DEFINE pair == IF form[t].testsStored THEN None ELSE form[t].pair
           body == [id |-> form[t].id, pair |-> pair]
           sent == [Ask("start", None) EXCEPT !.tab = t, !.provider = form[t].provider,
                                              !.body = body]
<1>0. PICK q : q = sent
  OBVIOUS
<1>1. /\ SoundPage(form[t]) /\ Send(r, q)
      /\ form[t].testsStored \/ form[t].pair # None
      /\ Len(tests) + Cardinality(Starts) < MaxTests
      /\ UNCHANGED <<record, writes, tests, pending, form, registry, verifier, accepted, offered>>
  BY <1>0, PageOfTab DEF StartTest, Usable, Starts
<1>2. /\ pair \in Pair \cup {None} /\ (pair = None => form[t].id # Unknown)
      /\ form[t].id \in 0..writes /\ form[t].provider \in Provider
  BY <1>0, <1>1 DEF SoundPage
<1>3. q \in [kind : {"start"}, tab : {t}, provider : {form[t].provider}, test : {Unknown},
             copy : {None}, body : {body}, at : {"sent"}, offer : {None}]
  BY <1>0 DEF Ask
<1>4. body.id = form[t].id /\ body.pair = pair
  OBVIOUS
<1> HIDE DEF sent, body, pair
<1>5. SoundRequest(q) /\ q.kind = "start"
  BY <1>1, <1>2, <1>3, <1>4 DEF SoundRequest
<1>6. Grows
  BY <1>1, NothingGrows
<1>7. PagesInv' /\ PagesKept /\ SessionInv'
  BY <1>1, <1>6, PagesStay, SessionStays DEF CredentialsInv, Browser
<1>8. SoundRequest(q)'
  BY <1>1, <1>3, <1>5, <1>6, RequestStaysSound, PageStaysSound
<1>9. RequestsInv' /\ SignInsKept
  BY <1>1, <1>5, <1>6, <1>7, <1>8, SendsSoundly, Sends DEF CredentialsInv, Browser
<1>10. TestsInv'
  <2>1. Starts' \subseteq Starts \cup {r} /\ IsFiniteSet(Starts)
    <3>1. \A s \in Slot : s # r => request'[s] = request[s]
      BY <1>1, Sends DEF CredentialsInv, Browser
    <3> QED
      BY <3>1, CredentialBounds, FS_Subset DEF Starts, In
  <2>2. IsFiniteSet(Starts \cup {r}) /\ Cardinality(Starts \cup {r}) <= Cardinality(Starts) + 1
        /\ Cardinality(Starts) \in Nat
    <3>1. /\ IsFiniteSet(Starts \cup {r}) /\ Cardinality(Starts) \in Nat
          /\ Cardinality(Starts \cup {r})
               = IF r \in Starts THEN Cardinality(Starts) ELSE Cardinality(Starts) + 1
      BY <2>1, FS_AddElement, FS_CardinalityType
    <3> QED
      BY <3>1
  <2>3. Cardinality(Starts') <= Cardinality(Starts) + 1 /\ Cardinality(Starts') \in Nat
    BY <2>1, <2>2, FS_Subset, FS_CardinalityType
  <2> QED
    BY <1>1, <2>2, <2>3, CredentialBounds DEF TestsInv, CredentialsInv, Browser, Test
<1>11. Browser'
  BY <1>1, <1>7, <1>9, <1>10 DEF CredentialsInv, Browser, Runtime
<1> QED
  BY <1>1, <1>9, <1>11, BrowserSteps

LEMMA SaveKeeps ==
  ASSUME CredentialsInv, NEW t \in Tab, NEW r \in Slot, Save(t, r)
  PROVE  CredentialsInv'
<1> DEFINE body == [id |-> form[t].id, locked |-> form[t].locked, pair |-> form[t].pair,
                    action |-> form[t].action, proof |-> form[t].proof]
           sent == [Ask("save", pending) EXCEPT !.tab = t, !.provider = form[t].provider,
                                                !.body = body]
<1>0. PICK q, page : q = sent /\ page = [form[t] EXCEPT !.saving = TRUE]
  OBVIOUS
<1>1. /\ SoundPage(form[t]) /\ Send(r, q) /\ form' = [form EXCEPT ![t] = page]
      /\ UNCHANGED <<record, writes, tests, pending, registry, verifier, accepted, offered>>
      /\ pending = None \/ SoundCopy(pending)
  BY <1>0, PageOfTab DEF Save, Usable, CredentialsInv, Browser, SessionInv, PagesInv
<1>2. SoundPage(page)
  BY <1>0, <1>1 DEF SoundPage
<1>3. q \in [kind : {"save"}, tab : {t}, provider : {form[t].provider}, test : {Unknown},
             copy : {pending}, body : {body}, at : {"sent"}, offer : {None}]
  BY <1>0 DEF Ask
<1>4. /\ body.id \in 0..writes /\ body.pair \in Pair \cup {None} /\ form[t].provider \in Provider
      /\ body.action = "remove" => body.id # Unknown
  BY <1>1 DEF SoundPage
<1> HIDE DEF sent, body
<1>5. SoundRequest(q) /\ q.kind = "save"
  BY <1>1, <1>3, <1>4 DEF SoundRequest
<1>6. Grows
  BY <1>1, NothingGrows
<1>7. PagesInv' /\ PagesKept /\ SoundPage(page)'
  <2>1. SoundPage(page)'
    BY <1>2, <1>6, PageStaysSound
  <2> QED
    BY <1>1, <1>6, <2>1, PageChanges DEF CredentialsInv, Browser
<1>8. SoundRequest(q)'
  <2>1. SoundPage(form[t])'
    BY <1>1, <1>7 DEF PagesKept
  <2> QED
    BY <1>3, <1>5, <1>6, <2>1, RequestStaysSound
<1>9. RequestsInv' /\ SignInsKept /\ StartsKept
  BY <1>1, <1>5, <1>6, <1>7, <1>8, SendsSoundly, Sends DEF CredentialsInv, Browser
<1>10. Browser'
  BY <1>1, <1>6, <1>7, <1>9, SessionStays, TestsStay DEF CredentialsInv, Browser, Runtime
<1> QED
  BY <1>1, <1>9, <1>10, BrowserSteps

\* The page that saved, if it is there, may be used again.
LEMMA SavingIsOver ==
  ASSUME PagesInv, Grows, NEW q, SoundRequest(q),
         form' = [form EXCEPT ![q.tab].saving = FALSE]
  PROVE  PagesInv' /\ PagesKept
<1>1. PICK page : page = [form[q.tab] EXCEPT !.saving = FALSE]
  OBVIOUS
<1>2. form' = [form EXCEPT ![q.tab] = page]
  BY <1>1 DEF PagesInv
<1>3. CASE q.tab \in Tab
  <2>1. SoundPage(form[q.tab])
    BY <1>3, TabAssumption DEF SoundRequest
  <2>2. SoundPage(page)
    BY <1>1, <2>1 DEF SoundPage
  <2>3. SoundPage(page)'
    BY <2>2, PageStaysSound
  <2> QED
    BY <1>2, <1>3, <2>3, PageChanges
<1>4. CASE q.tab \notin Tab
  <2>1. form' = form
    BY <1>2, <1>4 DEF PagesInv
  <2> QED
    BY <2>1, PagesStay
<1> QED
  BY <1>3, <1>4

\* A request is refused, and its page is told so.
LEMMA SaveRefusedKeeps ==
  ASSUME CredentialsInv, NEW r \in Slot, SaveRefused(r)
  PROVE  CredentialsInv'
<1>1. /\ request[r] # None /\ SoundRequest(request[r]) /\ Ends(r)
      /\ form' = [form EXCEPT ![request[r].tab].saving = FALSE]
      /\ UNCHANGED <<record, writes, tests, pending, registry, verifier, accepted, offered>>
  BY DEF CredentialsInv, Browser, RequestsInv, SaveRefused, In
<1>2. Grows
  BY <1>1, NothingGrows
<1>3. PagesInv' /\ PagesKept
  BY <1>1, <1>2, SavingIsOver DEF CredentialsInv, Browser
<1> QED
  BY <1>1, <1>3, AnsweringKeeps, SessionIsKept


LEMMA TestStartsKeeps ==
  ASSUME CredentialsInv, NEW r \in Slot, TestStarts(r)
  PROVE  CredentialsInv'
<1> DEFINE tested == Tested(request[r])
           test == [provider |-> request[r].provider, id |-> request[r].body.id, pair |-> tested]
           polling == form[request[r].tab].polling \cup {Len(tests) + 1}
           overlays == form[request[r].tab].overlays + 1
<1>0. PICK q, n, page : /\ q = request[r] /\ n = Len(tests) + 1
                        /\ page = [form[q.tab] EXCEPT !.polling = polling, !.overlays = overlays]
  OBVIOUS
<1>1. /\ q # None /\ SoundRequest(q) /\ In(r, "start", "sent") /\ Ends(r)
      /\ q.kind = "start" /\ tested # None /\ tests' = Append(tests, test) /\ pending' = Pending(n)
      /\ UNCHANGED <<record, writes, registry, verifier, accepted, offered>>
  BY <1>0 DEF CredentialsInv, Browser, RequestsInv, TestStarts, In
<1>2. Tell(q.tab, page)
  BY <1>0 DEF TestStarts
<1>3. q.provider \in Provider /\ q.body.id \in 0..MaxWrites /\ tested \in Pair
  <2>1. /\ q.provider \in Provider /\ q.body.id \in 0..writes /\ q.body.pair \in Pair \cup {None}
        /\ q.body.pair = None => q.body.id # Unknown
    BY <1>1 DEF SoundRequest
  <2>2. writes \in 0..MaxWrites /\ (record[q.provider] # None => record[q.provider] \in Entry)
    BY <2>1 DEF CredentialsInv, Records, RecordsInv
  <2>3. tested \in Pair
    BY <1>0, <1>1, <2>1, <2>2 DEF Tested, Addressed, Entry
  <2> QED
    BY <2>1, <2>2, <2>3, CredentialBounds
<1>4. test \in Test
  BY <1>0, <1>3 DEF Test
<1> HIDE DEF test
<1>5. /\ tests \in Seq(Test) /\ tests' \in Seq(Test) /\ Len(tests') = n /\ Len(tests) \in Nat
      /\ n \in DOMAIN tests' /\ n \in Nat
      /\ DOMAIN tests \subseteq DOMAIN tests' /\ \A m \in DOMAIN tests : tests'[m] = tests[m]
  BY <1>0, <1>1, <1>4 DEF CredentialsInv, Browser, TestsInv
<1>6. Grows
  BY <1>1, <1>5, CredentialBounds DEF Grows, CredentialsInv, Records, RecordsInv
<1>7. SessionInv'
  BY <1>1, <1>5 DEF SessionInv, SoundCopy, Pending, TestStatus
<1>8. q.tab # None => SoundPage(page)'
  <2> SUFFICES ASSUME q.tab # None PROVE SoundPage(page)'
    OBVIOUS
  <2>1. PICK old : old = form[q.tab]
    OBVIOUS
  <2>2. SoundPage(old)
    BY <1>1, <2>1 DEF SoundRequest
  <2>3. SoundPage(old)'
    BY <1>6, <2>2, PageStaysSound
  <2>4. polling \subseteq DOMAIN tests' /\ overlays \in Nat
    BY <1>0, <1>5, <2>1, <2>2 DEF SoundPage
  <2>5. page = [old EXCEPT !.polling = polling, !.overlays = overlays]
    BY <1>0, <2>1
  <2>6. PICK p, o : p = polling /\ o = overlays
    OBVIOUS
  <2>7. p \in SUBSET DOMAIN tests' /\ o \in Nat /\ page = [old EXCEPT !.polling = p, !.overlays = o]
    BY <2>4, <2>5, <2>6
  <2> QED
    BY <2>3, <2>7 DEF SoundPage
<1>9. PagesInv' /\ PagesKept
  BY <1>0, <1>1, <1>2, <1>6, <1>8, PageHears DEF CredentialsInv, Browser
<1>10. RequestsInv' /\ StartsKept /\ SignInsKept
  BY <1>1, <1>6, <1>9, AnswersSoundly, Answers DEF CredentialsInv, Browser
<1>11. TestsInv'
  <2>1. Starts' \subseteq Starts \ {r} /\ r \in Starts /\ IsFiniteSet(Starts)
    <3>1. \A s \in Slot : request'[s] = IF s = r THEN None ELSE request[s]
      BY <1>1, Answers DEF CredentialsInv, Browser
    <3> QED
      BY <1>1, <3>1, CredentialBounds, FS_Subset DEF Starts, In
  <2>2. /\ IsFiniteSet(Starts \ {r}) /\ Cardinality(Starts) \in Nat
        /\ Cardinality(Starts \ {r}) = Cardinality(Starts) - 1
    BY <2>1, FS_RemoveElement, FS_CardinalityType
  <2>3. Cardinality(Starts') <= Cardinality(Starts \ {r}) /\ Cardinality(Starts') \in Nat
    BY <2>1, <2>2, FS_Subset, FS_CardinalityType
  <2>4. Len(tests) + Cardinality(Starts) <= MaxTests
    BY DEF CredentialsInv, Browser, TestsInv
  <2> QED
    BY <1>0, <1>5, <2>2, <2>3, <2>4, CredentialBounds DEF TestsInv, Test
<1>12. Browser'
  BY <1>1, <1>7, <1>9, <1>10, <1>11 DEF CredentialsInv, Browser, Runtime
<1> QED
  BY <1>1, <1>10, <1>12, BrowserSteps

-----------------------------------------------------------------------------
(* Steps of the records, of the sign-ins and of the registry.              *)

\* Every sign-in in progress has been offered what the records now say.
LEMMA OffersFollow ==
  ASSUME OffersInv, SignInsKept, Offering(record')
  PROVE  OffersInv'
<1>1. offered' = [r \in Slot |-> offered'[r]]
  BY DEF Offering
<1>2. ASSUME NEW r \in Slot, request'[r] # None, request'[r].kind = "signin"
      PROVE  /\ request'[r].provider \in Provider
             /\ Offer(record')[request'[r].provider] \in offered'[r]
             /\ request'[r].at = "refreshed" =>
                  request'[r].offer[request'[r].provider] \in offered'[r]
  <2>1. /\ request[r] # None /\ request[r].kind = "signin"
        /\ request'[r].provider = request[r].provider
        /\ request'[r].at = request[r].at /\ request'[r].offer = request[r].offer
    BY <1>2 DEF SignInsKept
  <2>2. offered'[r] = offered[r] \cup {Offer(record')[request[r].provider]}
    BY <2>1 DEF Offering
  <2> QED
    BY <2>1, <2>2 DEF OffersInv
<1>3. \A p \in Provider : Offer(record)'[p] = Offer(record')[p]
  BY DEF Offer, Ready
<1> QED
  BY <1>1, <1>2, <1>3 DEF OffersInv

\* The records change, and the pages and the session are left alone.
LEMMA RecordSteps ==
  ASSUME CredentialsInv, Records', writes \in Nat, writes' \in Nat, writes <= writes',
         accepted \subseteq accepted', Offering(record'), StartsKept, SignInsKept,
         UNCHANGED <<tests, pending, form, registry>>,
         request' = [s \in Slot |-> request'[s]],
         \A s \in Slot : request'[s] \in {None, request[s]} \/ SoundRequest(request'[s])
  PROVE  CredentialsInv'
<1>1. Grows
  BY DEF Grows
<1>2. PagesInv' /\ PagesKept /\ SessionInv'
  BY <1>1, PagesStay, SessionStays DEF CredentialsInv, Browser
<1>3. RequestsInv'
  <2> SUFFICES ASSUME NEW s \in Slot, request'[s] # None
               PROVE  SoundRequest(request[s])'
    BY DEF RequestsInv
  <2>1. PICK q : q = request'[s]
    OBVIOUS
  <2>2. SoundRequest(q)
    BY <2>1 DEF CredentialsInv, Browser, RequestsInv
  <2>3. q.tab # None => SoundPage(form[q.tab])'
    BY <1>1, <2>2, PageStaysSound DEF SoundRequest
  <2>4. SoundRequest(q)'
    BY <1>1, <2>2, <2>3, RequestStaysSound
  <2> QED
    BY <2>1, <2>4
<1>4. TestsInv' /\ OffersInv'
  BY TestsStay, OffersFollow DEF CredentialsInv, Browser
<1> QED
  BY <1>2, <1>3, <1>4 DEF CredentialsInv, Browser, Runtime

\* Other clients of the API change the records, and no request moves.
LEMMA OthersKeep ==
  ASSUME CredentialsInv, Records', writes \in Nat, writes' \in Nat, writes <= writes',
         accepted \subseteq accepted', Offering(record'),
         UNCHANGED <<tests, pending, form, request, registry>>
  PROVE  CredentialsInv'
<1>1. StartsKept /\ SignInsKept
  BY DEF StartsKept, SignInsKept, In
<1>2. request' = [s \in Slot |-> request'[s]]
  BY DEF CredentialsInv, Browser, RequestsInv
<1> QED
  BY <1>1, <1>2, RecordSteps

LEMMA OtherStoresKeeps ==
  ASSUME CredentialsInv, NEW p \in Provider, NEW pair \in Pair, OtherStores(p, pair)
  PROVE  CredentialsInv'
<1>1. PICK id : id = IF record[p] = None THEN Unknown ELSE record[p].id
  OBVIOUS
<1>2. id \in 0..writes
  BY <1>1, CredentialBounds DEF CredentialsInv, Records, RecordsInv, Entry, Unknown
<1>3. Change(Written(p, id, pair, FALSE, TRUE)) /\ UNCHANGED <<verifier, accepted>>
  BY <1>1 DEF OtherStores
<1>4. Records' /\ writes' = writes + 1 /\ writes \in Nat
  BY <1>2, <1>3, PairIsWritten DEF CredentialsInv
<1>5. Offering(record')
  BY <1>3 DEF Change
<1> QED
  BY <1>4, <1>5, OthersKeep DEF OtherStores

LEMMA OtherRemovesKeeps ==
  ASSUME CredentialsInv, NEW p \in Provider, OtherRemoves(p)
  PROVE  CredentialsInv'
<1>1. Change(Emptied(p)) /\ record[p] # None /\ UNCHANGED <<verifier, accepted>>
  BY DEF OtherRemoves
<1>2. Records' /\ writes' = writes + 1 /\ writes \in Nat
  BY <1>1, PairIsRemoved DEF CredentialsInv
<1>3. Offering(record')
  BY <1>1 DEF Change
<1> QED
  BY <1>2, <1>3, OthersKeep DEF OtherRemoves

LEMMA OtherTogglesKeeps ==
  ASSUME CredentialsInv, NEW p \in Provider, OtherToggles(p)
  PROVE  CredentialsInv'
<1>1. PICK enabled : enabled = ~record[p].enabled
  OBVIOUS
<1>2. Change(Patched(p, enabled)) /\ record[p] # None /\ UNCHANGED <<verifier, accepted>>
  BY <1>1 DEF OtherToggles
<1>3. enabled \in BOOLEAN
  BY <1>1
<1>4. Records' /\ writes' = writes + 1 /\ writes \in Nat
  BY <1>2, <1>3, RecordIsPatched DEF CredentialsInv
<1>5. Offering(record')
  BY <1>2 DEF Change
<1> QED
  BY <1>4, <1>5, OthersKeep DEF OtherToggles

LEMMA ReadMaterialKeeps ==
  ASSUME CredentialsInv, NEW p \in Provider, ReadMaterial(p)
  PROVE  CredentialsInv'
<1>1. Records'
  BY MaterialIsRead DEF CredentialsInv
<1>2. Grows
  BY NothingGrows DEF ReadMaterial
<1>3. PagesInv' /\ PagesKept /\ SessionInv'
  BY <1>2, PagesStay, SessionStays DEF CredentialsInv, Browser, ReadMaterial
<1>4. StartsKept /\ SignInsKept
  BY DEF StartsKept, SignInsKept, In, ReadMaterial
<1>5. RequestsInv'
  <2>1. request' = [s \in Slot |-> request'[s]] /\ \A s \in Slot : request'[s] \in {None, request[s]}
    BY DEF CredentialsInv, Browser, RequestsInv, ReadMaterial
  <2> QED
    BY <1>2, <1>3, <2>1, RequestsKeep DEF CredentialsInv, Browser
<1>6. TestsInv' /\ OffersInv'
  BY <1>4, TestsStay, OffersStay DEF CredentialsInv, Browser, ReadMaterial
<1> QED
  BY <1>1, <1>3, <1>5, <1>6 DEF CredentialsInv, Browser, Runtime, ReadMaterial

LEMMA MarkVerifiedKeeps ==
  ASSUME CredentialsInv, MarkVerified
  PROVE  CredentialsInv'
<1>1. Records' /\ writes \in Nat
  BY MaterialIsVerified, CredentialBounds DEF CredentialsInv, Records, RecordsInv
<1>2. accepted \subseteq accepted' /\ Offering(record') /\ writes' = writes
  BY DEF MarkVerified
<1> QED
  BY <1>1, <1>2, OthersKeep DEF MarkVerified

\* A request goes on to another state with all it holds, and so does one that
\* has been told what the API offers.
LEMMA RequestGoesOn ==
  ASSUME NEW q, SoundRequest(q), NEW at, at # "refreshed", NEW d, d = [q EXCEPT !.at = at]
  PROVE  SoundRequest(d) /\ d.kind = q.kind /\ d.at = at
<1>1. q = [kind |-> q.kind, tab |-> q.tab, provider |-> q.provider, test |-> q.test,
           copy |-> q.copy, body |-> q.body, at |-> q.at, offer |-> q.offer]
  BY DEF SoundRequest
<1>2. /\ d.kind = q.kind /\ d.at = at /\ d.provider = q.provider /\ d.offer = q.offer
      /\ d.tab = q.tab /\ d.test = q.test /\ d.copy = q.copy /\ d.body = q.body
      /\ d = [kind |-> d.kind, tab |-> d.tab, provider |-> d.provider, test |-> d.test,
              copy |-> d.copy, body |-> d.body, at |-> d.at, offer |-> d.offer]
  BY <1>1
<1> QED
  BY <1>2 DEF SoundRequest

Told(q, offer, d) ==
  \E e : e = [q EXCEPT !.at = "refreshed"] /\ d = [e EXCEPT !.offer = offer]

LEMMA RequestIsOffered ==
  ASSUME NEW q, SoundRequest(q), NEW offer \in Runtime,
         NEW d, Told(q, offer, d)
  PROVE  /\ SoundRequest(d) /\ d.kind = q.kind /\ d.provider = q.provider
         /\ d.at = "refreshed" /\ d.offer = offer /\ d.tab = q.tab
<1>1. q = [kind |-> q.kind, tab |-> q.tab, provider |-> q.provider, test |-> q.test,
           copy |-> q.copy, body |-> q.body, at |-> q.at, offer |-> q.offer]
  BY DEF SoundRequest
<1>0. PICK e : e = [q EXCEPT !.at = "refreshed"] /\ d = [e EXCEPT !.offer = offer]
  BY DEF Told
<1>2. /\ e.kind = q.kind /\ e.at = "refreshed" /\ e.provider = q.provider
      /\ e.tab = q.tab /\ e.test = q.test /\ e.copy = q.copy /\ e.body = q.body
      /\ e = [kind |-> e.kind, tab |-> e.tab, provider |-> e.provider, test |-> e.test,
              copy |-> e.copy, body |-> e.body, at |-> e.at, offer |-> e.offer]
  BY <1>0, <1>1
<1>3. /\ d.kind = e.kind /\ d.at = e.at /\ d.provider = e.provider /\ d.offer = offer
      /\ d.tab = e.tab /\ d.test = e.test /\ d.copy = e.copy /\ d.body = e.body
      /\ d = [kind |-> d.kind, tab |-> d.tab, provider |-> d.provider, test |-> d.test,
              copy |-> d.copy, body |-> d.body, at |-> d.at, offer |-> d.offer]
  BY <1>0, <1>2
<1> QED
  BY <1>2, <1>3 DEF SoundRequest

LEMMA DeleteRecordKeeps ==
  ASSUME CredentialsInv, NEW r \in Slot, NEW p \in Provider, DeleteRecord(r, p)
  PROVE  CredentialsInv'
<1> DEFINE sent == [Ask("delete", None) EXCEPT !.provider = p, !.at = "refreshing"]
<1>1. PICK q : q = sent
  OBVIOUS
<1>2. /\ Change([record EXCEPT ![p] = None]) /\ Send(r, q)
      /\ UNCHANGED <<tests, pending, form, registry, verifier, accepted>>
  BY <1>1 DEF DeleteRecord
<1>3. q \in [kind : {"delete"}, tab : {None}, provider : {p}, test : {Unknown}, copy : {None},
             body : {None}, at : {"refreshing"}, offer : {None}]
  BY <1>1 DEF Ask
<1> HIDE DEF sent
<1>4. SoundRequest(q) /\ q.kind = "delete"
  BY <1>3 DEF SoundRequest
<1>5. Records' /\ writes' = writes + 1 /\ writes \in Nat
  BY <1>2, RecordChanges DEF Becomes, CredentialsInv
<1>6. Offering(record')
  BY <1>2 DEF Change
<1>7. /\ request' = [s \in Slot |-> request'[s]]
      /\ \A s \in Slot : request'[s] = IF s = r THEN q ELSE request[s]
      /\ StartsKept /\ SignInsKept
  BY <1>2, <1>4, Sends DEF CredentialsInv, Browser
<1> QED
  BY <1>2, <1>4, <1>5, <1>6, <1>7, RecordSteps

LEMMA SaveReachesApiKeeps ==
  ASSUME CredentialsInv, NEW r \in Slot, NEW enabled \in BOOLEAN, NEW old \in BOOLEAN,
         SaveReachesApi(r, enabled, old)
  PROVE  CredentialsInv'
<1>1. PICK q, d : q = request[r] /\ d = [q EXCEPT !.at = "refreshing"]
  OBVIOUS
<1>2. /\ q # None /\ SoundRequest(q) /\ q.kind = "save" /\ q.at = "sent" /\ Accepts(q)
      /\ Change(Saved(q, enabled, old))
      /\ UNCHANGED <<tests, pending, form, registry, verifier, accepted>>
  BY <1>1 DEF CredentialsInv, Browser, RequestsInv, SaveReachesApi, In
<1>3. /\ request' = [s \in Slot |-> request'[s]]
      /\ \A s \in Slot : request'[s] = IF s = r THEN d ELSE request[s]
  BY <1>1 DEF CredentialsInv, Browser, RequestsInv, SaveReachesApi
<1>4. SoundRequest(d) /\ d.kind = "save" /\ d.at = "refreshing"
  BY <1>1, <1>2, RequestGoesOn
<1>5. StartsKept /\ SignInsKept
  BY <1>2, <1>3, <1>4 DEF StartsKept, SignInsKept, In
<1>6. Records' /\ writes' = writes + 1 /\ writes \in Nat
  BY <1>2, SaveWritesRecords DEF CredentialsInv
<1>7. Offering(record')
  BY <1>2 DEF Change
<1> QED
  BY <1>2, <1>3, <1>4, <1>5, <1>6, <1>7, RecordSteps

LEMMA SignInKeeps ==
  ASSUME CredentialsInv, NEW r \in Slot, NEW p \in Provider, SignIn(r, p)
  PROVE  CredentialsInv'
<1> DEFINE sent == [Ask("signin", None) EXCEPT !.provider = p, !.at = "refreshing"]
<1>1. PICK q : q = sent
  OBVIOUS
<1>2. /\ Send(r, q) /\ offered' = [offered EXCEPT ![r] = {Offer(record)[p]}]
      /\ UNCHANGED <<record, writes, tests, pending, form, registry, verifier, accepted>>
  BY <1>1 DEF SignIn
<1>3. q \in [kind : {"signin"}, tab : {None}, provider : {p}, test : {Unknown}, copy : {None},
             body : {None}, at : {"refreshing"}, offer : {None}]
  BY <1>1 DEF Ask
<1> HIDE DEF sent
<1>4. SoundRequest(q) /\ q.kind = "signin" /\ q.provider = p /\ q.at = "refreshing" /\ q.tab = None
  BY <1>3 DEF SoundRequest
<1>5. Grows
  BY <1>2, NothingGrows
<1>6. PagesInv' /\ PagesKept /\ SessionInv'
  BY <1>2, <1>5, PagesStay, SessionStays DEF CredentialsInv, Browser
<1>7. SoundRequest(q)'
  BY <1>4, <1>5, RequestStaysSound
<1>8. RequestsInv' /\ StartsKept
  BY <1>2, <1>4, <1>5, <1>6, <1>7, SendsSoundly, Sends DEF CredentialsInv, Browser
<1>9. OffersInv'
  <2>1. \A s \in Slot : request'[s] = IF s = r THEN q ELSE request[s]
    BY <1>2, Sends DEF CredentialsInv, Browser
  <2>2. /\ offered' = [s \in Slot |-> offered'[s]]
        /\ \A s \in Slot : offered'[s] = IF s = r THEN {Offer(record)[p]} ELSE offered[s]
    BY <1>2 DEF CredentialsInv, OffersInv
  <2>3. Offer(record)' = Offer(record)
    BY <1>2 DEF Offer, Ready
  <2>4. ASSUME NEW s \in Slot, request'[s] # None, request'[s].kind = "signin"
        PROVE  /\ request'[s].provider \in Provider
               /\ Offer(record)[request'[s].provider] \in offered'[s]
               /\ request'[s].at = "refreshed" =>
                    request'[s].offer[request'[s].provider] \in offered'[s]
    BY <1>4, <2>1, <2>2, <2>4 DEF CredentialsInv, OffersInv
  <2> QED
    BY <2>2, <2>3, <2>4 DEF OffersInv
<1>10. Records' /\ TestsInv'
  BY <1>2, <1>8, RecordsStay, TestsStay DEF CredentialsInv, Browser
<1> QED
  BY <1>2, <1>6, <1>8, <1>9, <1>10 DEF CredentialsInv, Browser, Runtime

LEMMA RuntimeReadKeeps ==
  ASSUME CredentialsInv, NEW r \in Slot, RuntimeRead(r)
  PROVE  CredentialsInv'
<1>1. PICK q, offer : q = request[r] /\ offer = Offer(record)
  OBVIOUS
<1>2. PICK d : d = [q EXCEPT !.at = "refreshed", !.offer = offer]
  OBVIOUS
<1>0. Told(q, offer, d)
  BY <1>2 DEF Told
<1>3. /\ q # None /\ SoundRequest(q) /\ q.at = "refreshing"
      /\ UNCHANGED <<record, writes, tests, pending, form, registry, verifier, accepted, offered>>
  BY <1>1 DEF CredentialsInv, Browser, RequestsInv, RuntimeRead
<1>4. /\ request' = [s \in Slot |-> request'[s]]
      /\ \A s \in Slot : request'[s] = IF s = r THEN d ELSE request[s]
  BY <1>1, <1>2 DEF CredentialsInv, Browser, RequestsInv, RuntimeRead
<1>5. offer \in Runtime
  <2>1. record \in [Provider -> {None} \cup Entry]
    BY DEF CredentialsInv, Records, RecordsInv
  <2> QED
    BY <1>1, <2>1 DEF Offer, Ready, Entry, Runtime
<1>6. /\ SoundRequest(d) /\ d.kind = q.kind /\ d.provider = q.provider
      /\ d.at = "refreshed" /\ d.offer = offer /\ d.tab = q.tab
  BY <1>0, <1>3, <1>5, RequestIsOffered
<1>7. StartsKept
  BY <1>4, <1>6 DEF StartsKept, In
<1>8. Grows
  BY <1>3, NothingGrows
<1>9. PagesInv' /\ PagesKept /\ SessionInv'
  BY <1>3, <1>8, PagesStay, SessionStays DEF CredentialsInv, Browser
<1>10. RequestsInv'
  <2>1. d.tab # None => SoundPage(form[d.tab])'
    <3>1. d.tab # None => d.tab \in Tab /\ SoundPage(form[d.tab])
      BY <1>6 DEF SoundRequest
    <3> QED
      BY <1>9, <3>1 DEF PagesKept
  <2>2. SoundRequest(d)'
    BY <1>6, <1>8, <2>1, RequestStaysSound
  <2>3. \A s \in Slot : request'[s] \in {None, request[s]} \/ SoundRequest(request[s])'
    BY <1>4, <2>2
  <2> QED
    BY <1>4, <1>8, <1>9, <2>3, RequestsKeep DEF CredentialsInv, Browser
<1>11. OffersInv'
  <2>1. Offer(record)' = Offer(record)
    BY <1>3 DEF Offer, Ready
  <2>2. ASSUME NEW s \in Slot, request'[s] # None, request'[s].kind = "signin"
        PROVE  /\ request'[s].provider \in Provider
               /\ Offer(record)[request'[s].provider] \in offered'[s]
               /\ request'[s].at = "refreshed" =>
                    request'[s].offer[request'[s].provider] \in offered'[s]
    BY <1>1, <1>3, <1>4, <1>6, <2>2 DEF CredentialsInv, OffersInv
  <2> QED
    BY <1>3, <2>1, <2>2 DEF OffersInv, CredentialsInv
<1>12. Records' /\ TestsInv'
  BY <1>3, <1>7, RecordsStay, TestsStay DEF CredentialsInv, Browser
<1> QED
  BY <1>3, <1>9, <1>10, <1>11, <1>12 DEF CredentialsInv, Browser, Runtime

\* A refresh ends, with or without a new registry, and its request with it.
LEMMA RefreshEnds ==
  ASSUME CredentialsInv, NEW r \in Slot, request'[r] = None,
         PagesInv', RequestsInv', StartsKept, SignInsKept,
         pending' = Consumed(request[r]), registry' \in Runtime,
         offered' = [offered EXCEPT ![r] = {}],
         UNCHANGED <<record, writes, tests, verifier, accepted>>
  PROVE  CredentialsInv'
<1>1. Grows
  BY NothingGrows
<1>2. SessionInv'
  BY <1>1, CopyStaysSound DEF Consumed, CredentialsInv, Browser, SessionInv
<1>3. OffersInv'
  <2>1. /\ offered' = [s \in Slot |-> offered'[s]]
        /\ \A s \in Slot : s # r => offered'[s] = offered[s]
    BY DEF CredentialsInv, OffersInv
  <2>2. Offer(record)' = Offer(record)
    BY DEF Offer, Ready
  <2>3. ASSUME NEW s \in Slot, request'[s] # None, request'[s].kind = "signin"
        PROVE  /\ request'[s].provider \in Provider
               /\ Offer(record)[request'[s].provider] \in offered'[s]
               /\ request'[s].at = "refreshed" =>
                    request'[s].offer[request'[s].provider] \in offered'[s]
    <3>1. /\ s # r /\ request[s] # None /\ request[s].kind = "signin"
          /\ request'[s].provider = request[s].provider
          /\ request'[s].at = request[s].at /\ request'[s].offer = request[s].offer
      BY <2>3 DEF SignInsKept
    <3> QED
      BY <2>1, <3>1 DEF CredentialsInv, OffersInv
  <2> QED
    BY <2>1, <2>2, <2>3 DEF OffersInv
<1>4. Records' /\ TestsInv'
  BY RecordsStay, TestsStay DEF CredentialsInv, Browser
<1> QED
  BY <1>2, <1>3, <1>4 DEF CredentialsInv, Browser, Runtime

LEMMA RefreshFailsKeeps ==
  ASSUME CredentialsInv, NEW r \in Slot, RefreshFails(r)
  PROVE  CredentialsInv'
<1>1. /\ request[r] # None /\ SoundRequest(request[r]) /\ Ends(r)
      /\ UNCHANGED <<record, writes, tests, registry, verifier, accepted>>
      /\ pending' = Consumed(request[r]) /\ offered' = [offered EXCEPT ![r] = {}]
      /\ registry \in Runtime
  BY DEF CredentialsInv, Browser, RequestsInv, RefreshFails
<1>2. Grows
  BY <1>1, NothingGrows
<1>3. PagesInv' /\ PagesKept
  BY <1>1, <1>2, SavingIsOver, PagesStay DEF CredentialsInv, Browser, RefreshFails
<1>4. RequestsInv' /\ StartsKept /\ SignInsKept /\ request'[r] = None
  BY <1>1, <1>2, <1>3, AnswersSoundly, Answers DEF CredentialsInv, Browser
<1> QED
  BY <1>1, <1>3, <1>4, RefreshEnds

LEMMA RegistryRefreshedKeeps ==
  ASSUME CredentialsInv, NEW r \in Slot, RegistryRefreshed(r)
  PROVE  CredentialsInv'
<1>1. PICK q : q = request[r]
  OBVIOUS
<1>2. /\ q # None /\ SoundRequest(q) /\ q.at = "refreshed" /\ registry' = q.offer
      /\ UNCHANGED <<record, writes, tests, verifier, accepted>>
      /\ pending' = Consumed(request[r]) /\ offered' = [offered EXCEPT ![r] = {}]
  BY <1>1 DEF CredentialsInv, Browser, RequestsInv, RegistryRefreshed, Refilled
<1>3. registry' \in Runtime
  BY <1>2 DEF SoundRequest
<1>4. Grows
  BY <1>2, NothingGrows
<1>5. RequestsInv /\ PagesInv
  BY DEF CredentialsInv, Browser
<1>6. PagesInv' /\ RequestsInv' /\ StartsKept /\ SignInsKept /\ request'[r] = None
  <2>1. CASE q.kind # "save"
    <3>1. Ends(r) /\ form' = form
      BY <1>1, <2>1 DEF RegistryRefreshed
    <3> QED
      BY <1>4, <1>5, <3>1, PagesStay, AnswersSoundly, Answers
  <2>2. CASE q.kind = "save"
    <3>1. PICK page \in AfterSave(q) :
            /\ form' = [form EXCEPT ![q.tab] = page]
            /\ request' = [IF page = None THEN Deserted(q.tab) ELSE request EXCEPT ![r] = None]
      BY <1>1, <2>2 DEF RegistryRefreshed
    <3>2. CASE page = None
      <4>1. q.tab \in Tab \cup {None}
        BY <1>2 DEF SoundRequest
      <4>2. /\ form' = [form EXCEPT ![q.tab] = None]
            /\ request' = [Deserted(q.tab) EXCEPT ![r] = None]
        BY <3>1, <3>2
      <4>3. /\ request' = [s \in Slot |-> request'[s]] /\ request'[r] = None
            /\ \A s \in Slot : request'[s] \in {None, Deserted(q.tab)[s]}
        BY <4>2 DEF Deserted
      <4> QED
        BY <1>4, <1>5, <4>1, <4>2, <4>3, PageLeaves
    <3>3. CASE page # None
      <4>1. Ends(r)
        BY <3>1, <3>3 DEF Ends
      <4>2. page = [form[q.tab] EXCEPT !.saving = FALSE]
        BY <3>1, <3>3 DEF AfterSave
      <4>3. form' = [form EXCEPT ![q.tab].saving = FALSE]
        BY <1>5, <3>1, <4>2 DEF PagesInv
      <4>4. PagesInv' /\ PagesKept
        BY <1>2, <1>4, <1>5, <4>3, SavingIsOver
      <4> QED
        BY <1>4, <1>5, <4>1, <4>4, AnswersSoundly, Answers
    <3> QED
      BY <3>2, <3>3
  <2> QED
    BY <2>1, <2>2
<1> QED
  BY <1>2, <1>3, <1>6, RefreshEnds

-----------------------------------------------------------------------------
(* The inductive invariant.                                                *)

LEMMA CredentialsStart ==
  CredentialsInit => CredentialsInv
<1> SUFFICES ASSUME CredentialsInit PROVE CredentialsInv
  OBVIOUS
<1>1. Records
  BY CredentialBounds DEF CredentialsInit, Records, RecordsInv, VerifierInv, VerifiedPairsPassed
<1>2. TestsInv
  <2>1. Starts = {}
    BY DEF CredentialsInit, Starts, In
  <2>2. Cardinality(Starts) = 0
    BY <2>1, FS_EmptySet
  <2>3. tests \in Seq(Test) /\ Len(tests) = 0
    BY DEF CredentialsInit
  <2> QED
    BY <2>2, <2>3, CredentialBounds DEF TestsInv
<1>3. SessionInv /\ PagesInv /\ RequestsInv /\ registry \in Runtime
  BY DEF CredentialsInit, SessionInv, PagesInv, RequestsInv, Runtime
<1>4. OffersInv
  BY DEF CredentialsInit, OffersInv
<1> QED
  BY <1>1, <1>2, <1>3, <1>4 DEF CredentialsInv, Browser

LEMMA CredentialsStep ==
  CredentialsInv /\ [CredentialsNext]_credentialVars => CredentialsInv'
<1> SUFFICES ASSUME CredentialsInv, [CredentialsNext]_credentialVars
             PROVE  CredentialsInv'
  OBVIOUS
<1>1. CASE Testing
  BY <1>1, StartTestKeeps, TestStartsKeeps, TestRefusedKeeps, CallbackArrivesKeeps,
     CallbackEndsKeeps, PollKeeps, CancelKeeps, CancelEndsKeeps, PollEndsKeeps, GiveUpKeeps
  DEF Testing
<1>2. CASE Editing
  BY <1>2, OpenEditorKeeps, CloseEditorKeeps, RemovePairKeeps, EnterPairKeeps,
     OtherRequestKeeps, OtherEndsKeeps DEF Editing
<1>3. CASE Saving
  BY <1>3, SaveKeeps, SaveReachesApiKeeps, SaveRefusedKeeps, DeleteRecordKeeps, SignInKeeps,
     RuntimeReadKeeps, RegistryRefreshedKeeps, RefreshFailsKeeps DEF Saving
<1>4. CASE Others
  BY <1>4, OtherStoresKeeps, OtherRemovesKeeps, OtherTogglesKeeps, ReadMaterialKeeps,
     MarkVerifiedKeeps DEF Others
<1>5. CASE UNCHANGED credentialVars
  <2>1. UNCHANGED <<record, writes, tests, pending, form, request, registry, verifier,
                    accepted, offered>>
    BY <1>5 DEF credentialVars
  <2>2. Grows
    BY <2>1, NothingGrows
  <2>3. PagesInv' /\ PagesKept /\ SessionInv'
    BY <2>1, <2>2, PagesStay, SessionStays DEF CredentialsInv, Browser
  <2>4. StartsKept /\ SignInsKept
    BY <2>1 DEF StartsKept, SignInsKept, In
  <2>5. RequestsInv'
    <3>1. request' = [s \in Slot |-> request'[s]] /\ \A s \in Slot : request'[s] \in {None, request[s]}
      BY <2>1 DEF CredentialsInv, Browser, RequestsInv
    <3> QED
      BY <2>2, <2>3, <3>1, RequestsKeep DEF CredentialsInv, Browser
  <2>6. Browser'
    BY <2>1, <2>3, <2>4, <2>5, TestsStay DEF CredentialsInv, Browser, Runtime
  <2> QED
    BY <2>1, <2>4, <2>6, BrowserSteps
<1> QED
  BY <1>1, <1>2, <1>3, <1>4, <1>5 DEF CredentialsNext

LEMMA CredentialsInvariance ==
  CredentialsSpec => []CredentialsInv
<1> QED
  BY CredentialsStart, CredentialsStep, PTL DEF CredentialsSpec

\* Records, pages, tests, the session and the registry hold values of their
\* kinds, and no test is ever named that was not started.
THEOREM CredentialsTypeCorrect ==
  CredentialsSpec => []CredentialsTypeOK
<1>1. CredentialsInv => CredentialsTypeOK
  <2> SUFFICES ASSUME CredentialsInv PROVE CredentialsTypeOK
    OBVIOUS
  <2>1. writes \in 0..MaxWrites /\ record \in [Provider -> {None} \cup Entry]
    BY DEF CredentialsInv, Records, RecordsInv
  <2>2. 1..writes \subseteq 1..MaxWrites /\ 0..writes \subseteq 0..MaxWrites
    BY <2>1, CredentialBounds
  <2>3. tests \in Seq(Test) /\ DOMAIN tests \subseteq 1..MaxTests
    <3>1. IsFiniteSet(Starts) /\ Cardinality(Starts) \in Nat
      BY CredentialBounds, FS_Subset, FS_CardinalityType DEF Starts
    <3>2. tests \in Seq(Test) /\ Len(tests) + Cardinality(Starts) <= MaxTests
      BY DEF CredentialsInv, Browser, TestsInv
    <3> QED
      BY <3>1, <3>2, CredentialBounds
  <2>4. {Unknown} \cup DOMAIN tests \subseteq 0..MaxTests
    BY <2>3, CredentialBounds DEF Unknown
  <2>5. record \in [Provider -> {None} \cup
          [id : 1..MaxWrites, pair : Pair \cup {None}, stamp : 0..MaxWrites,
           verified : BOOLEAN, enabled : BOOLEAN]]
    BY <2>1, <2>2 DEF Entry
  <2>6. \A n \in DOMAIN tests : tests[n] \in [provider : Provider, id : 0..MaxWrites, pair : Pair]
    <3>1. \A n \in DOMAIN tests : tests[n] \in Test
      BY <2>3
    <3> QED
      BY <3>1 DEF Test
  <2>7. pending \in {None} \cup
          [test : 1..MaxTests, status : {"pending", "verified", "failed"}]
    BY <2>3 DEF CredentialsInv, Browser, SessionInv, SoundCopy, TestStatus
  <2>8. form \in [Tab -> {None} \cup Page]
    <3>1. ASSUME NEW t \in Tab, form[t] # None PROVE form[t] \in Page
      <4>1. SoundPage(form[t])
        BY <3>1, PageOfTab
      <4> QED
        BY <2>2, <2>3, <2>4, <4>1 DEF SoundPage, Page
    <3> QED
      BY <3>1 DEF CredentialsInv, Browser, PagesInv
  <2>9. registry \in [Provider -> Pair \cup {None}]
    BY DEF CredentialsInv, Browser, Runtime
  <2> QED
    BY <2>1, <2>5, <2>6, <2>7, <2>8, <2>9 DEF CredentialsTypeOK
<1> QED
  BY <1>1, CredentialsInvariance, PTL

\* Only a pair that its provider has accepted is ever recorded as verified,
\* in any interleaving of pages, requests, callbacks and other clients.
THEOREM VerifiedMeansAccepted ==
  CredentialsSpec => []VerifiedPairsPassed
<1>1. CredentialsInv => VerifiedPairsPassed
  BY DEF CredentialsInv, Records
<1> QED
  BY <1>1, CredentialsInvariance, PTL

\* Nobody answers a sign-in that knows the API's offer but its own refresh.
LEMMA OnlyItsRefreshAnswers ==
  ASSUME CredentialsInv, [CredentialsNext]_credentialVars,
         NEW r \in Slot, In(r, "signin", "refreshed"), request'[r] = None
  PROVE  RegistryRefreshed(r)
<1>1. /\ request[r] # None /\ request[r].kind = "signin" /\ request[r].at = "refreshed"
      /\ SoundRequest(request[r]) /\ request[r].tab = None /\ RequestsInv
  BY DEF In, CredentialsInv, Browser, RequestsInv, SoundRequest
<1>2. ASSUME NEW s \in Slot, NEW q, Send(s, q) PROVE FALSE
  BY <1>1, <1>2, Sends
<1>3. ASSUME NEW s \in Slot, Ends(s), s # r PROVE FALSE
  BY <1>1, <1>3, Answers
<1>4. request' # request
  BY <1>1
<1>5. [request[r] EXCEPT !.tab = None] = request[r]
  <2>1. PICK q : q = request[r]
    OBVIOUS
  <2>2. q = [kind |-> q.kind, tab |-> None, provider |-> q.provider, test |-> q.test,
             copy |-> q.copy, body |-> q.body, at |-> q.at, offer |-> q.offer]
    BY <1>1, <2>1 DEF SoundRequest
  <2>3. [q EXCEPT !.tab = None] = q
    BY <2>2
  <2> QED
    BY <2>1, <2>3
<1>6. \A t \in Tab \cup {None} : Deserted(t)[r] # None
  BY <1>1, <1>5, TabAssumption DEF Deserted
<1>7. CASE Testing
  BY <1>1, <1>2, <1>3, <1>4, <1>7
  DEF Testing, StartTest, TestStarts, TestRefused, CallbackArrives, CallbackEnds, Poll, Cancel,
      CancelEnds, PollEnds, GiveUp, In
<1>8. CASE Editing
  <2>1. \A t \in Tab : ~CloseEditor(t)
    BY <1>6 DEF CloseEditor
  <2> QED
    BY <1>1, <1>2, <1>3, <1>4, <1>8, <2>1
    DEF Editing, OpenEditor, RemovePair, EnterPair, Edit, OtherRequest, OtherEnds, In
<1>9. CASE Saving
  <2>1. ASSUME NEW s \in Slot, NEW enabled \in BOOLEAN, NEW old \in BOOLEAN,
               SaveReachesApi(s, enabled, old)
        PROVE  FALSE
    BY <1>1, <2>1 DEF SaveReachesApi, In, RequestsInv
  <2>2. ASSUME NEW s \in Slot, RuntimeRead(s) PROVE FALSE
    BY <1>1, <2>2 DEF RuntimeRead, RequestsInv
  <2>3. ASSUME NEW s \in Slot, RegistryRefreshed(s), s # r PROVE FALSE
    <3>1. CASE request[s].kind # "save"
      BY <1>3, <2>3, <3>1 DEF RegistryRefreshed
    <3>2. CASE request[s].kind = "save"
      <4>1. PICK page :
              request' = [IF page = None THEN Deserted(request[s].tab) ELSE request
                            EXCEPT ![s] = None]
        BY <2>3, <3>2 DEF RegistryRefreshed
      <4>2. request[s].tab \in Tab \cup {None}
        BY <2>3 DEF RegistryRefreshed, CredentialsInv, Browser, RequestsInv, SoundRequest
      <4>3. CASE page = None
        <5>1. request' = [Deserted(request[s].tab) EXCEPT ![s] = None]
          BY <4>1, <4>3
        <5>2. request'[r] = Deserted(request[s].tab)[r]
          BY <2>3, <5>1 DEF Deserted
        <5> QED
          BY <1>6, <4>2, <5>2
      <4>4. CASE page # None
        BY <1>3, <2>3, <4>1, <4>4 DEF Ends
      <4> QED
        BY <4>3, <4>4
    <3> QED
      BY <3>1, <3>2
  <2> QED
    BY <1>1, <1>2, <1>3, <1>9, <2>1, <2>2, <2>3
    DEF Saving, Save, SaveRefused, DeleteRecord, SignIn, RefreshFails, In
<1>10. CASE Others
  BY <1>4, <1>10 DEF Others, OtherStores, OtherRemoves, OtherToggles, ReadMaterial, MarkVerified
<1>11. CASE UNCHANGED credentialVars
  BY <1>4, <1>11 DEF credentialVars
<1> QED
  BY <1>7, <1>8, <1>9, <1>10, <1>11 DEF CredentialsNext

\* Whatever refreshes overtake each other, a sign-in goes on with a pair, or
\* without one, that the API offered at some moment since its request arrived.
THEOREM SignInsStayCurrent ==
  CredentialsSpec => SignInsAreCurrent
<1>1. CredentialsInv /\ [CredentialsNext]_credentialVars =>
        \A r \in Slot : In(r, "signin", "refreshed") /\ request'[r] = None =>
          registry'[request[r].provider] \in offered[r]
  <2> SUFFICES ASSUME CredentialsInv, [CredentialsNext]_credentialVars,
                      NEW r \in Slot, In(r, "signin", "refreshed"), request'[r] = None
               PROVE  registry'[request[r].provider] \in offered[r]
    OBVIOUS
  <2>1. registry' = request[r].offer
    BY OnlyItsRefreshAnswers DEF RegistryRefreshed, Refilled
  <2>2. request[r].offer[request[r].provider] \in offered[r]
    BY DEF CredentialsInv, OffersInv, In
  <2> QED
    BY <2>1, <2>2
<1> QED
  BY <1>1, CredentialsInvariance, PTL DEF CredentialsSpec, SignInsAreCurrent
=============================================================================
