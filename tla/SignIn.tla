------------------------------- MODULE SignIn --------------------------------
(***************************************************************************)
(* Registration, login and sessions of api/src/auth/router.ts over one     *)
(* InMemoryRateLimiter and the AccessTokenStore                            *)
(* (api/src/auth/access-token-store.ts).                                   *)
(*                                                                         *)
(* A login awaits one thing, argon2 over the password (in                  *)
(* SysBOUserService.verifyLocalCredentials): everything before it is one   *)
(* step, everything after it another, and any number of logins, changes of *)
(* the account and ticks of the clock happen in between.  All requests     *)
(* come from one client address.  A session is known by the login that     *)
(* created it.                                                             *)
(***************************************************************************)
EXTENDS RateLimiter

CONSTANTS
  Identity,     \* what a client may enter as its name
  Account,      \* those of them that name a stored user
  Users,        \* user records an account may have
  IpKey,        \* api:login:ip:<address>
  RegisterKey,  \* api:register:ip:<address>
  Lifetime,     \* API_ACCESS_TOKEN_MINUTES, in ticks
  MaxTime       \* bound on the clock

ASSUME KeysAssumption ==
  /\ Account \subseteq Identity
  /\ Key = Identity \cup {IpKey, RegisterKey}
  /\ IpKey # RegisterKey
  /\ Identity \cap {IpKey, RegisterKey} = {}
ASSUME UsersAssumption ==
  /\ Users # {}
  /\ \A u \in Users : {u.enabled, u.emailVerified} \subseteq BOOLEAN
ASSUME LifetimeAssumption == Lifetime \in Nat \ {0} /\ MaxTime \in Nat

VARIABLES
  now,       \* Date.now()
  limiter,   \* authLimits
  account,   \* stored users: enabled, emailVerified, role
  login,     \* requests: state, identity, when it reserved, the user it read
  sessions,  \* tokens: [by, user, role, expiresAt]
  granted,   \* history: the events each key's policy let through
  wrong,     \* history: wrong answers since the identity's last success
  outdated   \* history: logins whose account changed after they read it

authVars == <<account, login, sessions>>
historyVars == <<granted, wrong, outdated>>
vars == <<now, limiter, authVars, historyVars>>

Ended == {"refused", "failed", "error", "unverified", "signedIn", "registered"}

Init ==
  /\ now = CleanupInterval
  /\ limiter = NewLimiter
  /\ account \in [Account -> Users]
  /\ login = [r \in Request |-> [state |-> "idle"]]
  /\ sessions = {}
  /\ granted = [k \in Key |-> {}]
  /\ wrong = [i \in Identity |-> {}]
  /\ outdated = {}

Tick ==
  /\ now < MaxTime
  /\ now' = now + 1
  /\ UNCHANGED <<limiter, authVars, historyVars>>

-----------------------------------------------------------------------------
\* POST /register: counted whatever becomes of the account creation.
Register(r) ==
  LET allowed == Allowed(limiter, RegisterKey, now)
  IN  /\ login[r].state = "idle"
      /\ limiter' = Record(limiter, RegisterKey, r, now)
      /\ login' = [login EXCEPT ![r].state = IF allowed THEN "registered"
                                                        ELSE "refused"]
      /\ granted' = IF allowed
                    THEN [granted EXCEPT ![RegisterKey] = @ \cup {EventOf(r, now)}]
                    ELSE granted
      /\ UNCHANGED <<now, account, sessions, wrong, outdated>>

\* "First protection: total login requests per IP."
RefuseByAddress(r) ==
  /\ login[r].state = "idle"
  /\ ~Allowed(limiter, IpKey, now)
  /\ limiter' = Record(limiter, IpKey, r, now)
  /\ login' = [login EXCEPT ![r].state = "refused"]
  /\ UNCHANGED <<now, account, sessions, historyVars>>

Counted(r) == Record(limiter, IpKey, r, now)

\* "Second protection: incorrect passwords per identity/IP."
RefuseByIdentity(r, i) ==
  /\ login[r].state = "idle"
  /\ Allowed(limiter, IpKey, now)
  /\ ~Allowed(Counted(r), i, now)
  /\ limiter' = Reserve(Counted(r), i, r, now)
  /\ login' = [login EXCEPT ![r].state = "refused"]
  /\ granted' = [granted EXCEPT ![IpKey] = @ \cup {EventOf(r, now)}]
  /\ UNCHANGED <<now, account, sessions, wrong, outdated>>

\* Both limits let the request through: it reserves before any await.
Admit(r, i) ==
  /\ login[r].state = "idle"
  /\ Allowed(limiter, IpKey, now)
  /\ Allowed(Counted(r), i, now)
  /\ granted' = [granted EXCEPT ![IpKey] = @ \cup {EventOf(r, now)}]

Reserved(r, i) == Reserve(Counted(r), i, r, now)

\* verifyLocalCredentials: who may sign in with a password at all.
Eligible(i) == i \in Account /\ account[i].enabled

\* No such user, or a disabled one: the same answer, before argon2 runs.
FailAtOnce(r, i) ==
  /\ Admit(r, i)
  /\ ~Eligible(i)
  /\ limiter' = Finish(Reserved(r, i), i, r, "failure", now)
  /\ login' = [login EXCEPT ![r].state = "failed"]
  /\ wrong' = [wrong EXCEPT ![i] = @ \cup {EventOf(r, now)}]
  /\ UNCHANGED <<now, account, sessions, outdated>>

\* The user record was read; argon2.verify is awaited.
StartVerification(r, i) ==
  /\ Admit(r, i)
  /\ Eligible(i)
  /\ limiter' = Reserved(r, i)
  /\ login' = [login EXCEPT ![r] =
       [state |-> "verifying", identity |-> i, since |-> now, user |-> account[i]]]
  /\ UNCHANGED <<now, account, sessions, wrong, outdated>>

\* The password is wrong.  A late answer may find its reservation expired.
WrongPassword(r) ==
  LET i == login[r].identity
      prompt == now < login[r].since + ReservationMax
  IN  /\ login[r].state = "verifying"
      /\ limiter' = Finish(limiter, i, r, "failure", now)
      /\ login' = [login EXCEPT ![r] = [state |-> "failed"]]
      /\ wrong' = IF prompt THEN [wrong EXCEPT ![i] = @ \cup {EventOf(r, now)}] ELSE wrong
      /\ UNCHANGED <<now, account, sessions, granted, outdated>>

\* "Operational exceptions release the reservation."
VerificationError(r) ==
  /\ login[r].state = "verifying"
  /\ limiter' = Finish(limiter, login[r].identity, r, "release", now)
  /\ login' = [login EXCEPT ![r] = [state |-> "error"]]
  /\ UNCHANGED <<now, account, sessions, historyVars>>

-----------------------------------------------------------------------------
\* removeExpired.
Live == {s \in sessions : s.expiresAt > now}

\* Mutant: the session is created before the email's verification is looked at.
AnyUser(u) == TRUE

\* "The account must have a verified email address before an API access token
\* is issued": of the user as it was read before the password check.
MayHaveSession(u) == u.emailVerified

\* The password is right: past failures are cleared, then a session is issued.
RightPassword(r) ==
  LET i == login[r].identity
  IN  /\ login[r].state = "verifying"
      /\ limiter' = Clear(Finish(limiter, i, r, "release", now), i)
      /\ wrong' = [wrong EXCEPT ![i] = {}]
      /\ IF MayHaveSession(login[r].user)
         THEN /\ sessions' = Live \cup
                   {[by |-> r, user |-> i, role |-> login[r].user.role,
                     expiresAt |-> now + Lifetime]}
              /\ login' = [login EXCEPT ![r] = [state |-> "signedIn"]]
         ELSE /\ login' = [login EXCEPT ![r] = [state |-> "unverified"]]
              /\ UNCHANGED sessions
      /\ UNCHANGED <<now, account, granted, outdated>>

\* validate deletes an expired session when its token is presented.
PresentExpired(s) ==
  /\ s.expiresAt <= now
  /\ sessions' = sessions \ {s}
  /\ UNCHANGED <<now, limiter, account, login, historyVars>>

\* GET /sessions.
ListSessions ==
  /\ Live # {}
  /\ sessions' = Live
  /\ UNCHANGED <<now, limiter, account, login, historyVars>>

\* POST /logout, with a session that requireAuthenticated lets through.
Logout(s) ==
  /\ s \in Live
  /\ sessions' = sessions \ {s}
  /\ UNCHANGED <<now, limiter, account, login, historyVars>>

\* POST /logout-all: every session of that user, the caller's included.
LogoutAll(s) ==
  /\ s \in Live
  /\ sessions' = {x \in Live : x.user # s.user}
  /\ UNCHANGED <<now, limiter, account, login, historyVars>>

\* History: the logins that have read the account, and those of its sessions.
ReadersOf(i) ==
  {r \in Request : login[r].state = "verifying" /\ login[r].identity = i}
    \cup {s.by : s \in {s \in sessions : s.user = i}}

\* Somebody updates the record: every field may change to any value, the
\* verified flag is cleared or set again, and no session is revoked.  To a
\* login a deleted account is as a disabled one.
ChangeAccount(i, a) ==
  /\ account[i] # a
  /\ account' = [account EXCEPT ![i] = a]
  /\ outdated' = outdated \cup ReadersOf(i)
  /\ UNCHANGED <<now, limiter, login, sessions, granted, wrong>>

RequestNext(r) ==
  \/ Register(r)
  \/ RefuseByAddress(r)
  \/ \E i \in Identity : RefuseByIdentity(r, i)
  \/ \E i \in Identity : FailAtOnce(r, i)
  \/ \E i \in Identity : StartVerification(r, i)
  \/ WrongPassword(r)
  \/ VerificationError(r)
  \/ RightPassword(r)

Next ==
  \/ Tick
  \/ \E r \in Request : RequestNext(r)
  \/ \E s \in sessions : PresentExpired(s)
  \/ ListSessions
  \/ \E s \in sessions : Logout(s)
  \/ \E s \in sessions : LogoutAll(s)
  \/ \E i \in Account, a \in Users : ChangeAccount(i, a)

Spec == Init /\ [][Next]_vars

-----------------------------------------------------------------------------
LoginState ==
  [state : {"idle"} \cup Ended] \cup
  [state : {"verifying"}, identity : Identity, since : Nat, user : Users]

Session ==
  [by : Request, user : Account, role : {u.role : u \in Users}, expiresAt : Nat]

\* The types, and no event or cleanup later than the clock.
TypeOK ==
  /\ now \in Nat
  /\ limiter \in Limiter
  /\ limiter.lastCleanup <= now
  /\ \A k \in Key :
       \A e \in limiter.buckets[k].attempts \cup limiter.buckets[k].pending : e.at <= now
  /\ account \in [Account -> Users]
  /\ login \in [Request -> LoginState]
  /\ \A r \in Request : login[r].state = "verifying" => login[r].since <= now
  /\ sessions \subseteq Session
  /\ granted \in [Key -> SUBSET Event]
  /\ wrong \in [Identity -> SUBSET Event]
  /\ outdated \subseteq Request

InWindow(events, k) == Recent(events, Window[k], now)

\* In no window does a client address get more login or registration requests
\* through than the policy allows, whatever else the shared limiter forgets.
RequestsAreLimited ==
  \A k \in {IpKey, RegisterKey} :
    Cardinality(InWindow(granted[k], k)) <= Limit[k]

\* "Pending operations count against the limit, preventing concurrent requests
\* from bypassing the failed-login threshold": however many logins of one
\* identity run at once, no window has more wrong answers than the policy
\* allows since the last success.  (Answers that took a minute do not count.)
FailuresAreLimited ==
  \A i \in Identity : Cardinality(InWindow(wrong[i], i)) <= Limit[i]

\* A login keeps its reservation while it may still use it: no success,
\* cleanup or full map takes it away.  And no reservation outlives its login.
ReservationsAreHeld ==
  \A r \in Request, i \in Identity :
    LET held == EventOf(r, login[r].since) \in limiter.buckets[i].pending
    IN  /\ /\ login[r].state = "verifying"
           /\ login[r].identity = i
           /\ now < login[r].since + ReservationMax
           => held
        /\ (\E e \in limiter.buckets[i].pending : e.by = r)
             => login[r].state = "verifying" /\ login[r].identity = i

\* "They must not permanently lock user accounts": after the longest window
\* without requests every key is open again, also when the map was full and
\* when logins never came to an end.
AlwaysReopens ==
  \A k, longest \in Key :
    (\A j \in Key : Window[j] <= Window[longest])
      => Allowed(limiter, k, now + Window[longest])

\* The reported Retry-After is long enough for a client that nobody else
\* competes with, and not a whole second longer than needed.
RetryAfterIsExact ==
  \A k \in Key :
    LET after == RetryAfter(limiter, k, now)
    IN  AtLimit(Evaluate(limiter, k, now).buckets[k], k) =>
          /\ Allowed(limiter, k, now + TicksPerSecond * after)
          /\ after > 1 => ~Allowed(limiter, k, now + TicksPerSecond * (after - 1))

MatchesAccount(s) ==
  LET u == account[s.user]
  IN  u.enabled /\ u.emailVerified /\ u.role = s.role

\* A session belongs to an enabled account with a verified address and has its
\* role, unless the account was changed after the session's login read it:
\* during the password check, whose end does not look again, or since.
SessionsMatchAccounts ==
  \A s \in sessions : MatchesAccount(s) \/ s.by \in outdated
=============================================================================
