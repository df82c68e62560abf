-------------------------- MODULE PasswordRecovery --------------------------
(***************************************************************************)
(* The links that set a forgotten password: PasswordRecoveryService        *)
(* (api/src/auth/password-recovery.ts) behind the routes of                *)
(* api/src/http/internal/password-recovery-router.ts.                      *)
(*                                                                         *)
(* A request awaits the mail server before it publishes the link's ticket, *)
(* and a completion awaits the hash and the save of the password, so both  *)
(* interleave with every other call.  A link may reach its reader while    *)
(* the request is still waiting, or although the request fails.  Tickets   *)
(* are in memory only: a restart forgets them.                             *)
(***************************************************************************)
EXTENDS Naturals, FiniteSets, Functions

CONSTANTS
  Token,           \* ids of links, random: each is drawn once
  User,
  Request,         \* request() calls that may be in progress together
  Call,            \* complete() calls that may be in progress together
  MaxOutstanding,  \* MAX_OUTSTANDING
  Ttl,             \* PASSWORD_RECOVERY_TTL_MS
  MaxTime          \* bound of the clock

ASSUME SizeAssumption == MaxOutstanding \in Nat /\ Ttl \in Nat /\ MaxTime \in Nat
ASSUME RequestAssumption == IsFiniteSet(Request) /\ IsFiniteSet(Token)

VARIABLES
  now,
  accounts,   \* users, as request() reads them
  tickets,    \* the Map, with the place of each ticket in its order
  requests,   \* [id, user] of the calls that await the mail server
  calls,      \* [id, user] of the calls that await setPassword
  sent,       \* links the mail server has been given
  published,  \* history: [user, at, place] of every ticket ever set
  used,       \* history: how often a link has set a password
  reset       \* history: links published before the last reset of their user

vars == <<now, accounts, tickets, requests, calls, sent, published, used, reset>>

Ticket == [user : User, at : 0..MaxTime, place : Nat]
Work == [id : Token, user : User]

Init ==
  /\ now = 0
  /\ accounts = [u \in User |-> "eligible"]
  /\ tickets = <<>>
  /\ requests = <<>>
  /\ calls = <<>>
  /\ sent = {}
  /\ published = <<>>
  /\ used = [id \in Token |-> 0]
  /\ reset = {}

-----------------------------------------------------------------------------
Fresh(t) == t.at + Ttl >= now

Without(f, S) == Restrict(f, DOMAIN f \ S)
Of(u) == {id \in DOMAIN tickets : tickets[id].user = u}

\* The entries set last, as many as the map may have.
Newest(live) ==
  {id \in live :
     Cardinality({k \in live : tickets[k].place > tickets[id].place}) < MaxOutstanding}

Cleaned == Restrict(tickets, Newest({id \in DOMAIN tickets : Fresh(tickets[id])}))

\* request(): the answer is the same, whoever asks for whom.
StartRequest(r, u, id) ==
  /\ r \notin DOMAIN requests
  /\ accounts[u] = "eligible"
  /\ \A k \in DOMAIN requests : requests[k].id # id
  /\ id \notin sent /\ used[id] = 0 /\ id \notin DOMAIN published
  /\ tickets' = Cleaned
  /\ requests' = [k \in DOMAIN requests \cup {r} |->
                    IF k = r THEN [id |-> id, user |-> u] ELSE requests[k]]
  /\ UNCHANGED <<now, accounts, calls, sent, published, used, reset>>

\* request() for nobody that is eligible, and inspect().
CleanUp ==
  /\ tickets' = Cleaned
  /\ UNCHANGED <<now, accounts, requests, calls, sent, published, used, reset>>

Deliver(r) ==
  /\ r \in DOMAIN requests
  /\ sent' = sent \cup {requests[r].id}
  /\ UNCHANGED <<now, accounts, tickets, requests, calls, published, used, reset>>

\* Mutants: earlier links stay; the new link is set first and then withdrawn
\* with the others.
KeepsEarlier(u, id) == DOMAIN tickets \cup {id}
WithdrawsLast(u, id) == DOMAIN tickets \ Of(u)

\* The user's earlier links are withdrawn, then the new one is set.
Replaced(u, id) == (DOMAIN tickets \ Of(u)) \cup {id}

New(r) == [user |-> requests[r].user, at |-> now, place |-> Cardinality(DOMAIN published)]

\* "Send before publishing a token."
Publish(r) ==
  /\ r \in DOMAIN requests
  /\ requests[r].id \in sent
  /\ LET id == requests[r].id
     IN  /\ tickets' = [k \in Replaced(requests[r].user, id) |->
                          IF k = id THEN New(r) ELSE tickets[k]]
         /\ published' = [k \in DOMAIN published \cup {id} |->
                            IF k = id THEN New(r) ELSE published[k]]
  /\ requests' = Without(requests, {r})
  /\ UNCHANGED <<now, accounts, calls, sent, used, reset>>

\* The mail server refuses, or its answer fails after it has taken the mail.
MailFails(r) ==
  /\ r \in DOMAIN requests
  /\ requests' = Without(requests, {r})
  /\ UNCHANGED <<now, accounts, tickets, calls, sent, published, used, reset>>

-----------------------------------------------------------------------------
\* lookup(): anyone who has the link, with the secret in it.
Lookup(id) == id \in sent /\ id \in DOMAIN tickets /\ Fresh(tickets[id])

\* Mutant: the ticket is taken only after the password has been set.
NotYet(id) == tickets

\* "Reserve the credential before any await."
Reserved(id) == Without(tickets, {id})

StartComplete(c, id) ==
  /\ c \notin DOMAIN calls
  /\ Lookup(id)
  /\ calls' = [k \in DOMAIN calls \cup {c} |->
                 IF k = c THEN [id |-> id, user |-> tickets[id].user] ELSE calls[k]]
  /\ tickets' = Reserved(id)
  /\ UNCHANGED <<now, accounts, requests, sent, published, used, reset>>

\* The links a reset withdraws.
Withdrawn(u) == Of(u)

PublishedFor(u) == {id \in DOMAIN published : published[id].user = u}

\* setPassword has saved the password; the notification is best effort.
SetPassword(c) ==
  /\ c \in DOMAIN calls
  /\ accounts[calls[c].user] # "gone"
  /\ used' = [used EXCEPT ![calls[c].id] = @ + 1]
  /\ tickets' = Without(tickets, Withdrawn(calls[c].user))
  /\ reset' = reset \cup PublishedFor(calls[c].user)
  /\ calls' = Without(calls, {c})
  /\ UNCHANGED <<now, accounts, requests, sent, published>>

\* The user is gone or the save fails: the link has been used up all the same.
FailPassword(c) ==
  /\ c \in DOMAIN calls
  /\ calls' = Without(calls, {c})
  /\ UNCHANGED <<now, accounts, tickets, requests, sent, published, used, reset>>

-----------------------------------------------------------------------------
\* An administrator disables, enables or deletes the user.
Administer(u, state) ==
  /\ accounts[u] \notin {state, "gone"}
  /\ accounts' = [accounts EXCEPT ![u] = state]
  /\ UNCHANGED <<now, tickets, requests, calls, sent, published, used, reset>>

Tick ==
  /\ now < MaxTime
  /\ now' = now + 1
  /\ UNCHANGED <<accounts, tickets, requests, calls, sent, published, used, reset>>

\* The API dies and starts again; saves in progress have happened or not.
Restart(saved) ==
  /\ saved \subseteq DOMAIN calls
  /\ \A c \in saved : accounts[calls[c].user] # "gone"
  /\ used' = [id \in Token |->
                used[id] + Cardinality({c \in saved : calls[c].id = id})]
  /\ tickets' = <<>>
  /\ requests' = <<>>
  /\ calls' = <<>>
  /\ reset' = DOMAIN published
  /\ UNCHANGED <<now, accounts, sent, published>>

Next ==
  \/ \E r \in Request, u \in User, id \in Token : StartRequest(r, u, id)
  \/ CleanUp
  \/ \E r \in Request : Deliver(r) \/ Publish(r) \/ MailFails(r)
  \/ \E c \in Call, id \in Token : StartComplete(c, id)
  \/ \E c \in Call : SetPassword(c) \/ FailPassword(c)
  \/ \E u \in User, state \in {"eligible", "ineligible", "gone"} : Administer(u, state)
  \/ Tick
  \/ \E saved \in SUBSET Call : Restart(saved)

Spec == Init /\ [][Next]_vars

-----------------------------------------------------------------------------
TypeOK ==
  /\ now \in 0..MaxTime
  /\ accounts \in [User -> {"eligible", "ineligible", "gone"}]
  /\ DOMAIN tickets \subseteq Token /\ \A id \in DOMAIN tickets : tickets[id] \in Ticket
  /\ DOMAIN requests \subseteq Request /\ \A r \in DOMAIN requests : requests[r] \in Work
  /\ DOMAIN calls \subseteq Call /\ \A c \in DOMAIN calls : calls[c] \in Work
  /\ sent \subseteq Token
  /\ DOMAIN published \subseteq Token /\ \A id \in DOMAIN published : published[id] \in Ticket /\ published[id].at <= now
  /\ used \in [Token -> Nat]
  /\ reset \subseteq DOMAIN published

\* A link sets a password at most once, however many calls present it at the
\* same time and wherever the API dies.
LinksWorkOnce == \A id \in Token : used[id] <= 1

\* A link that can work has been handed to the mail server, never set a
\* password, is the one published last for its user, and was not published
\* before the user's last reset ended: a reset kills the links of requests
\* that had finished before it, not of those still waiting for the mail.
OnlyNewestLinkWorks ==
  \A id \in DOMAIN tickets :
    /\ id \in sent /\ used[id] = 0 /\ id \notin reset
    /\ \A k \in PublishedFor(tickets[id].user) : published[k].place <= tickets[id].place

Taken == {calls[c].id : c \in DOMAIN calls}

\* The user's last published link works until it expires, a call presents it,
\* the user's password is reset, the API restarts or so many later links are
\* published that the map is cut.  Two requests at the same time leave one
\* link that works, never none.
NewestLinkWorks ==
  [][\A id \in DOMAIN published' \ DOMAIN tickets' :
       \/ id \in DOMAIN published \ DOMAIN tickets
       \/ ~Fresh(published'[id])
       \/ id \in reset' \cup Taken'
       \/ \E k \in DOMAIN published' :
            /\ published'[k].user = published'[id].user
            /\ published'[k].place > published'[id].place
       \/ Cardinality({k \in DOMAIN published : published[k].place > published'[id].place})
            >= MaxOutstanding]_vars
=============================================================================
