------------------------- MODULE ProviderCredentials -------------------------
(***************************************************************************)
(* The credentials of external sign-in providers, from the editor to the   *)
(* sign-ins that use them: SysBOExtAuthProviderService of the API, the UI  *)
(* server that tests a pair through the provider's real OAuth flow, the    *)
(* editor page that waits for the test, and the registry of providers the  *)
(* UI server refreshes before each sign-in.                                *)
(*                                                                         *)
(* One browser session is modelled with its tabs.  A request works on its  *)
(* own copy of the session, loaded when it arrives, and one that changed   *)
(* its copy writes the whole of it back when it ends (express-session with *)
(* resave: false, app.ts:180-193): later writers overwrite earlier ones.   *)
(* Other administrators and clients act on the API directly.  Time is      *)
(* abstracted: wherever the code asks whether a test is older than ten     *)
(* minutes, `old` is either answer.                                        *)
(***************************************************************************)
EXTENDS Naturals, Sequences, FiniteSets

CONSTANTS
  Provider,   \* provider keys
  Pair,       \* [client, secret]: Client ID and Client secret, never empty
  Right,      \* the <<provider, pair>> the provider would accept
  Tab,        \* editor pages open at a time
  Slot,       \* requests in progress at a time
  MaxWrites,  \* bound on the changes of records
  MaxTests,   \* bound on the tests started
  None

ASSUME RightAssumption == Right \subseteq Provider \X Pair
ASSUME TabAssumption == None \notin Tab
ASSUME CredentialBounds == MaxWrites \in Nat /\ MaxTests \in Nat /\ IsFiniteSet(Slot)

VARIABLES
  record,     \* sysExtAuthProviders, by provider
  writes,     \* changes so far: the clock of secretUpdatedAt, and the ids
  tests,      \* what pendingExtAuthCredentialTest holds of each test started
  pending,    \* that session field: which test, and its status
  form,       \* the editor page of each tab
  request,    \* requests in progress
  registry,   \* runtime-registry.ts: the pair a sign-in would use
  verifier,   \* a client of credentials-for-test and credentials-verified
  accepted,   \* history: what the providers have accepted
  offered     \* history: what the API has offered while a sign-in runs

credentialVars ==
  <<record, writes, tests, pending, form, request, registry, verifier, accepted, offered>>

Unknown == 0  \* the id of an entry that was not saved yet

CredentialsInit ==
  /\ record = [p \in Provider |-> None]
  /\ writes = 0
  /\ tests = <<>>
  /\ pending = None
  /\ form = [t \in Tab |-> None]
  /\ request = [r \in Slot |-> None]
  /\ registry = [p \in Provider |-> None]
  /\ verifier = None
  /\ accepted = {}
  /\ offered = [r \in Slot |-> {}]

-----------------------------------------------------------------------------
(* The API's records.                                                      *)

\* credentialsReadyForRuntime, of an enabled record.
Ready(e) == e # None /\ e.enabled /\ e.verified /\ e.pair # None

\* resolveConfiguredProviders.
Offer(records) ==
  [p \in Provider |-> IF Ready(records[p]) THEN records[p].pair ELSE None]

\* A command addresses the record it names, or a provider that has none.
Addressed(p, id) ==
  IF id = Unknown THEN record[p] = None
                  ELSE record[p] # None /\ record[p].id = id

\* History: what the API offers a sign-in while it runs.
Offering(records) ==
  offered' = [r \in Slot |->
    IF request[r] # None /\ request[r].kind = "signin"
    THEN offered[r] \cup {Offer(records)[request[r].provider]} ELSE {}]

Change(to) ==
  /\ writes < MaxWrites
  /\ record' = to
  /\ writes' = writes + 1
  /\ Offering(to)

\* A complete write of the pair by saveVerifiedCredentials,
\* saveStoredCredentials and createProvider.
Written(p, id, pair, verified, enabled) ==
  [record EXCEPT ![p] =
     [id |-> IF id = Unknown THEN writes + 1 ELSE id,
      pair |-> pair,
      stamp |-> IF pair = None THEN Unknown ELSE writes + 1,
      verified |-> verified,
      enabled |-> enabled]]

\* removeCredentials.
Emptied(p) ==
  [record EXCEPT ![p] =
     [@ EXCEPT !.pair = None, !.stamp = Unknown, !.verified = FALSE,
               !.enabled = FALSE]]

\* updateProvider: generic edits never touch the pair.
Patched(p, enabled) == [record EXCEPT ![p].enabled = enabled]

\* Mutant: an older test may verify a pair stored since.
SameClient(e, read) == e.pair # None /\ e.pair.client = read.pair.client

\* "The optimistic version checks prevent an older popup from verifying
\* credentials that another Admin replaced while the test ran."
SameVersion(e, read) ==
  e.pair # None /\ e.pair.client = read.pair.client /\ e.stamp = read.stamp

-----------------------------------------------------------------------------
(* Requests and the session.                                               *)

Ask(kind, copy) ==
  [kind |-> kind, tab |-> None, provider |-> None, test |-> Unknown,
   copy |-> copy, body |-> None, at |-> "sent", offer |-> None]

Send(r, q) == request[r] = None /\ request' = [request EXCEPT ![r] = q]
Ends(r) == request' = [request EXCEPT ![r] = None]
In(r, kind, at) ==
  request[r] # None /\ request[r].kind = kind /\ request[r].at = at

\* The answer reaches the page that asked, if it is still there.
Tell(t, page) == form' = IF t = None THEN form ELSE [form EXCEPT ![t] = page]

Pending(n) == [test |-> n, status |-> "pending"]
Settled(copy, status) == [copy EXCEPT !.status = status]

\* The list of providers, which forgets the test, and any request that changes
\* something else of the session, for instance its list of errors.
OtherRequest(r, copy) ==
  /\ copy = None => pending # None
  /\ Send(r, Ask("other", copy))
  /\ UNCHANGED <<record, writes, tests, pending, form, registry,
                 verifier, accepted, offered>>

OtherEnds(r) ==
  /\ In(r, "other", "sent")
  /\ pending' = request[r].copy
  /\ Ends(r)
  /\ UNCHANGED <<record, writes, tests, form, registry, verifier, accepted, offered>>

-----------------------------------------------------------------------------
(* The editor page.                                                        *)

\* The page of a record, or of an entry that is new.  A stored pair is shown
\* locked, and it is what the page tests until `Change credentials`.
Loaded(p) ==
  LET e == record[p]
      stored == e # None /\ e.pair # None
  IN  [provider |-> p, id |-> IF e = None THEN Unknown ELSE e.id,
       stored |-> stored, locked |-> stored, testsStored |-> stored,
       pair |-> None, action |-> "unchanged", proof |-> Unknown,
       saving |-> FALSE, polling |-> {}, overlays |-> 0]

\* Neither a busy overlay nor a save keeps the user out.
Usable(t) == form[t] # None /\ ~form[t].saving /\ form[t].overlays = 0

Edit(t, page) ==
  /\ Usable(t)
  /\ form' = [form EXCEPT ![t] = page]
  /\ UNCHANGED <<record, writes, tests, pending, request, registry,
                 verifier, accepted, offered>>

OpenEditor(t, p) ==
  /\ form[t] = None
  /\ form' = [form EXCEPT ![t] = Loaded(p)]
  /\ UNCHANGED <<record, writes, tests, pending, request, registry,
                 verifier, accepted, offered>>

\* Whatever the page still waits for finds nobody.
Deserted(t) ==
  [r \in Slot |-> IF request[r] # None /\ request[r].tab = t
                  THEN [request[r] EXCEPT !.tab = None]
                  ELSE request[r]]

CloseEditor(t) ==
  /\ Usable(t)
  /\ form' = [form EXCEPT ![t] = None]
  /\ request' = Deserted(t)
  /\ UNCHANGED <<record, writes, tests, pending, registry, verifier, accepted, offered>>

\* beginCredentialChange where the pair is locked, and both inputs with their
\* invalidateProof.
EnterPair(t, pair) ==
  /\ Usable(t)
  /\ Edit(t, [form[t] EXCEPT
       !.pair = pair, !.action = "replace", !.proof = Unknown, !.locked = FALSE,
       !.testsStored = IF form[t].locked THEN FALSE ELSE @])

RemovePair(t) ==
  /\ Usable(t) /\ form[t].stored
  /\ Edit(t, [form[t] EXCEPT
       !.pair = None, !.action = "remove", !.proof = Unknown, !.locked = FALSE])

-----------------------------------------------------------------------------
(* Testing a pair.                                                         *)

\* The click: the request takes the pair as it is now, and until the overlay
\* appears the page can still be edited.
StartTest(t, r) ==
  /\ Usable(t)
  /\ form[t].testsStored \/ form[t].pair # None
  /\ Len(tests) + Cardinality({s \in Slot : In(s, "start", "sent")}) < MaxTests
  /\ Send(r, [Ask("start", None) EXCEPT !.tab = t, !.provider = form[t].provider,
       !.body = [id |-> form[t].id,
                 pair |-> IF form[t].testsStored THEN None ELSE form[t].pair]])
  /\ UNCHANGED <<record, writes, tests, pending, form, registry,
                 verifier, accepted, offered>>

\* The pair a test is about: what the page sent, or storedCredentialMaterial.
Tested(q) ==
  IF q.body.pair # None THEN q.body.pair
  ELSE IF Addressed(q.provider, q.body.id) THEN record[q.provider].pair
  ELSE None

\* startExternalProviderCredentialTest, and the page that starts to wait.
TestStarts(r) ==
  /\ In(r, "start", "sent")
  /\ LET q == request[r]
         n == Len(tests) + 1
     IN  /\ Tested(q) # None
         /\ tests' = Append(tests, [provider |-> q.provider, id |-> q.body.id,
                                    pair |-> Tested(q)])
         /\ pending' = Pending(n)
         /\ Tell(q.tab, [form[q.tab] EXCEPT !.polling = @ \cup {n}, !.overlays = @ + 1])
  /\ Ends(r)
  /\ UNCHANGED <<record, writes, registry, verifier, accepted, offered>>

\* No complete pair is stored, or the answer is lost before the session is
\* written.
TestRefused(r) ==
  /\ In(r, "start", "sent")
  /\ Ends(r)
  /\ UNCHANGED <<record, writes, tests, pending, form, registry,
                 verifier, accepted, offered>>

Active(copy) == copy # None /\ copy.status = "pending"

\* The popup goes to the provider with the pair of whatever test the session
\* holds, and comes back.  A callback that carries no test's state - a
\* sign-in's in the same browser - is taken for the pending test's too.
CallbackArrives(r) ==
  /\ Active(pending)
  /\ Send(r, Ask("callback", pending))
  /\ UNCHANGED <<record, writes, tests, pending, form, registry, verifier, accepted, offered>>

\* The exchange of the code with the tested pair, refused or completed.
CallbackEnds(r, status) ==
  /\ In(r, "callback", "sent")
  /\ LET copy == request[r].copy
         pair == <<tests[copy.test].provider, tests[copy.test].pair>>
     IN  /\ status = "verified" => pair \in Right
         /\ accepted' = IF status = "verified" THEN accepted \cup {pair} ELSE accepted
         /\ pending' = Settled(copy, status)
  /\ Ends(r)
  /\ UNCHANGED <<record, writes, tests, form, registry, verifier, offered>>

\* finishWaiting, for the test n.
NoLonger(page, n) ==
  [page EXCEPT !.polling = @ \ {n}, !.overlays = IF @ = 0 THEN 0 ELSE @ - 1]

Poll(t, r, n) ==
  /\ form[t] # None /\ n \in form[t].polling
  /\ Send(r, [Ask("poll", pending) EXCEPT !.tab = t, !.test = n])
  /\ UNCHANGED <<record, writes, tests, pending, form, registry,
                 verifier, accepted, offered>>

\* externalProviderCredentialTestStatus on the request's copy.
Status(q, old) ==
  IF q.copy = None \/ q.copy.test # q.test THEN "missing"
  ELSE IF Active(q.copy) /\ old THEN "failed"
  ELSE q.copy.status

\* pollStatus does not look again whether the test was given up meanwhile.
PollEnds(r, old) ==
  /\ In(r, "poll", "sent")
  /\ LET q == request[r]
         page == form[q.tab]
     IN  /\ pending' = IF Status(q, old) = "failed" /\ Active(q.copy)
                       THEN Settled(q.copy, "failed") ELSE pending
         /\ Tell(q.tab, CASE Status(q, old) = "verified" ->
                               [NoLonger(page, q.test) EXCEPT
                                  !.proof = q.test, !.action = "replace"]
                          [] Status(q, old) = "failed" -> NoLonger(page, q.test)
                          [] OTHER -> page)
  /\ Ends(r)
  /\ UNCHANGED <<record, writes, tests, registry, verifier, accepted, offered>>

\* The overlay's `Cancel test`.  The server deletes the test without waiting
\* for anything; the page learns of it, or that it failed, later.
Cancel(t, r, n, heard) ==
  /\ form[t] # None /\ form[t].overlays > 0 /\ n \in form[t].polling
  /\ pending' = IF heard /\ pending # None /\ pending.test = n THEN None ELSE pending
  /\ Send(r, [Ask("cancel", None) EXCEPT !.tab = t, !.test = n])
  /\ UNCHANGED <<record, writes, tests, form, registry, verifier, accepted, offered>>

CancelEnds(r) ==
  /\ In(r, "cancel", "sent")
  /\ Tell(request[r].tab, NoLonger(form[request[r].tab], request[r].test))
  /\ Ends(r)
  /\ UNCHANGED <<record, writes, tests, pending, registry, verifier, accepted, offered>>

\* Two minutes without a result, or the popup was closed five seconds ago.
GiveUp(t, n) ==
  /\ form[t] # None /\ n \in form[t].polling
  /\ form' = [form EXCEPT ![t] = NoLonger(@, n)]
  /\ UNCHANGED <<record, writes, tests, pending, request, registry,
                 verifier, accepted, offered>>

-----------------------------------------------------------------------------
(* Saving.                                                                 *)

Save(t, r) ==
  /\ Usable(t)
  /\ Send(r, [Ask("save", pending) EXCEPT
       !.tab = t, !.provider = form[t].provider,
       !.body = [id |-> form[t].id, locked |-> form[t].locked, pair |-> form[t].pair,
                 action |-> form[t].action, proof |-> form[t].proof]])
  /\ form' = [form EXCEPT ![t].saving = TRUE]
  /\ UNCHANGED <<record, writes, tests, pending, registry, verifier, accepted, offered>>

\* Mutant: the pair that passed is not compared with the one to be saved.
ProofOfAnyPair(q) ==
  /\ q.copy # None /\ q.copy.test = q.body.proof /\ q.copy.status = "verified"
  /\ tests[q.copy.test].provider = q.provider
  /\ tests[q.copy.test].id = q.body.id

\* proofMatches: the request's copy of the session holds a success of the very
\* test, record and pair that the page submits.
ProofMatches(q) ==
  /\ q.copy # None /\ q.copy.test = q.body.proof /\ q.copy.status = "verified"
  /\ tests[q.copy.test] = [provider |-> q.provider, id |-> q.body.id,
                           pair |-> q.body.pair]

\* What the save asks of the API, and whether the API does it.
Accepts(q) ==
  /\ Addressed(q.provider, q.body.id)
  /\ q.body.action = "replace" => q.body.pair # None

\* The page submits the switch `Enabled` in either position, but an enabled
\* provider needs the pair unless the stored one is kept.
Valid(body, enabled) == enabled => body.locked \/ body.pair # None

Saved(q, enabled, old) ==
  LET b == q.body
  IN  CASE b.action = "remove"  -> Emptied(q.provider)
        [] b.action = "replace" ->
             Written(q.provider, b.id, b.pair, ProofMatches(q) /\ ~old, enabled)
        [] OTHER                -> IF b.id = Unknown
                                   THEN Written(q.provider, b.id, None, FALSE, enabled)
                                   ELSE Patched(q.provider, enabled)

\* handleExternalProviderCredentialSave, or the ordinary save of an entry.
SaveReachesApi(r, enabled, old) ==
  /\ In(r, "save", "sent")
  /\ Accepts(request[r]) /\ Valid(request[r].body, enabled)
  /\ Change(Saved(request[r], enabled, old))
  /\ request' = [request EXCEPT ![r].at = "refreshing"]
  /\ UNCHANGED <<tests, pending, form, registry, verifier, accepted>>

SaveRefused(r) ==
  /\ In(r, "save", "sent")
  /\ ~Accepts(request[r])
  /\ form' = [form EXCEPT ![request[r].tab].saving = FALSE]
  /\ Ends(r)
  /\ UNCHANGED <<record, writes, tests, pending, registry, verifier, accepted, offered>>

\* A credential command has deleted the test from the request's copy.
Consumed(q) ==
  IF q.kind = "save" /\ q.body.action # "unchanged" /\ q.copy # None
  THEN None ELSE pending

\* Save and close, or save and stay: the page keeps what was entered, with its
\* action and its proof.  A new entry goes on as the page of its record.
AfterSave(q) ==
  {None} \cup IF q.body.id = Unknown THEN {}
              ELSE {[form[q.tab] EXCEPT !.saving = FALSE]}

-----------------------------------------------------------------------------
(* The registry of the UI server.                                          *)

DeleteRecord(r, p) ==
  /\ record[p] # None
  /\ Change([record EXCEPT ![p] = None])
  /\ Send(r, [Ask("delete", None) EXCEPT !.provider = p, !.at = "refreshing"])
  /\ UNCHANGED <<tests, pending, form, registry, verifier, accepted>>

\* A sign-in begins, or comes back from the provider: both refresh first.
SignIn(r, p) ==
  /\ Send(r, [Ask("signin", None) EXCEPT !.provider = p, !.at = "refreshing"])
  /\ offered' = [offered EXCEPT ![r] = {Offer(record)[p]}]
  /\ UNCHANGED <<record, writes, tests, pending, form, registry,
                 verifier, accepted>>

\* The API answers refreshExternalProviderRegistry; the answer is on its way.
RuntimeRead(r) ==
  /\ request[r] # None /\ request[r].at = "refreshing"
  /\ request' = [request EXCEPT ![r].at = "refreshed", ![r].offer = Offer(record)]
  /\ UNCHANGED <<record, writes, tests, pending, form, registry,
                 verifier, accepted, offered>>

\* Mutant: what another request left in the registry is good enough.
CachedRegistry(q) == IF registry[q.provider] # None THEN registry ELSE q.offer

\* registry.clear() and its refill, with configurePassport in the same step.
Refilled(q) == q.offer

RegistryRefreshed(r) ==
  /\ request[r] # None /\ request[r].at = "refreshed"
  /\ registry' = Refilled(request[r])
  /\ pending' = Consumed(request[r])
  /\ IF request[r].kind = "save"
     THEN \E page \in AfterSave(request[r]) :
            /\ form' = [form EXCEPT ![request[r].tab] = page]
            /\ request' = [IF page = None THEN Deserted(request[r].tab) ELSE request
                            EXCEPT ![r] = None]
     ELSE Ends(r) /\ UNCHANGED form
  /\ offered' = [offered EXCEPT ![r] = {}]
  /\ UNCHANGED <<record, writes, tests, verifier, accepted>>

\* The refresh fails: a sign-in is refused, and a save that has done its work
\* looks as if it had failed.
RefreshFails(r) ==
  /\ request[r] # None /\ request[r].at = "refreshing"
  /\ pending' = Consumed(request[r])
  /\ IF request[r].kind = "save"
     THEN form' = [form EXCEPT ![request[r].tab].saving = FALSE]
     ELSE UNCHANGED form
  /\ Ends(r)
  /\ offered' = [offered EXCEPT ![r] = {}]
  /\ UNCHANGED <<record, writes, tests, registry, verifier, accepted>>

-----------------------------------------------------------------------------
(* Other administrators and clients of the API.                            *)

\* stored-credentials, for a record or for a provider without one.
OtherStores(p, pair) ==
  /\ Change(Written(p, IF record[p] = None THEN Unknown ELSE record[p].id,
                    pair, FALSE, TRUE))
  /\ UNCHANGED <<tests, pending, form, request, registry, verifier, accepted>>

OtherRemoves(p) ==
  /\ record[p] # None
  /\ Change(Emptied(p))
  /\ UNCHANGED <<tests, pending, form, request, registry,
                 verifier, accepted>>

OtherToggles(p) ==
  /\ record[p] # None
  /\ Change(Patched(p, ~record[p].enabled))
  /\ UNCHANGED <<tests, pending, form, request, registry,
                 verifier, accepted>>

\* storedCredentialMaterial, to test the stored pair.
ReadMaterial(p) ==
  /\ verifier = None
  /\ record[p] # None /\ record[p].pair # None
  /\ verifier' = [provider |-> p, id |-> record[p].id, client |-> record[p].pair.client,
                  pair |-> record[p].pair, stamp |-> record[p].stamp]
  /\ UNCHANGED <<record, writes, tests, pending, form, request, registry, accepted, offered>>

\* markStoredCredentialsVerified after the provider accepted that pair.
MarkVerified ==
  /\ verifier # None
  /\ <<verifier.provider, verifier.pair>> \in Right
  /\ accepted' = accepted \cup {<<verifier.provider, verifier.pair>>}
  /\ LET p == verifier.provider
     IN  record' = IF Addressed(p, verifier.id) /\ SameVersion(record[p], verifier)
                   THEN [record EXCEPT ![p].verified = TRUE]
                   ELSE record
  /\ Offering(record')
  /\ verifier' = None
  /\ UNCHANGED <<writes, tests, pending, form, request, registry>>

-----------------------------------------------------------------------------
Testing ==
  \/ \E t \in Tab, r \in Slot : StartTest(t, r)
  \/ \E r \in Slot : TestStarts(r) \/ TestRefused(r)
  \/ \E r \in Slot : CallbackArrives(r)
  \/ \E r \in Slot, status \in {"verified", "failed"} : CallbackEnds(r, status)
  \/ \E t \in Tab, r \in Slot, n \in DOMAIN tests : Poll(t, r, n)
  \/ \E t \in Tab, r \in Slot, n \in DOMAIN tests, heard \in BOOLEAN : Cancel(t, r, n, heard)
  \/ \E r \in Slot : CancelEnds(r)
  \/ \E r \in Slot, old \in BOOLEAN : PollEnds(r, old)
  \/ \E t \in Tab, n \in DOMAIN tests : GiveUp(t, n)

Editing ==
  \/ \E t \in Tab, p \in Provider : OpenEditor(t, p)
  \/ \E t \in Tab : CloseEditor(t) \/ RemovePair(t)
  \/ \E t \in Tab, pair \in Pair : EnterPair(t, pair)
  \/ \E r \in Slot : \E copy \in {pending, None} : OtherRequest(r, copy)
  \/ \E r \in Slot : OtherEnds(r)

Saving ==
  \/ \E t \in Tab, r \in Slot : Save(t, r)
  \/ \E r \in Slot, enabled, old \in BOOLEAN : SaveReachesApi(r, enabled, old)
  \/ \E r \in Slot : SaveRefused(r)
  \/ \E r \in Slot, p \in Provider : DeleteRecord(r, p) \/ SignIn(r, p)
  \/ \E r \in Slot : RuntimeRead(r) \/ RegistryRefreshed(r) \/ RefreshFails(r)

Others ==
  \/ \E p \in Provider, pair \in Pair : OtherStores(p, pair)
  \/ \E p \in Provider : OtherRemoves(p) \/ OtherToggles(p) \/ ReadMaterial(p)
  \/ MarkVerified

CredentialsNext == Testing \/ Editing \/ Saving \/ Others

CredentialsSpec == CredentialsInit /\ [][CredentialsNext]_credentialVars

-----------------------------------------------------------------------------
Page ==
  [provider : Provider, id : 0..MaxWrites, stored : BOOLEAN, locked : BOOLEAN,
   testsStored : BOOLEAN, pair : Pair \cup {None},
   action : {"unchanged", "replace", "remove"}, proof : 0..MaxTests,
   saving : BOOLEAN, polling : SUBSET (1..MaxTests), overlays : Nat]

CredentialsTypeOK ==
  /\ record \in [Provider -> {None} \cup
       [id : 1..MaxWrites, pair : Pair \cup {None}, stamp : 0..MaxWrites,
        verified : BOOLEAN, enabled : BOOLEAN]]
  /\ writes \in 0..MaxWrites
  /\ \A n \in DOMAIN tests : tests[n] \in
       [provider : Provider, id : 0..MaxWrites, pair : Pair]
  /\ pending \in {None} \cup [test : 1..MaxTests, status : {"pending", "verified", "failed"}]
  /\ form \in [Tab -> {None} \cup Page]
  /\ registry \in [Provider -> Pair \cup {None}]

\* Only the very pair a provider has accepted in a completed OAuth test is
\* ever recorded as verified ("Save to commit this verified credential pair",
\* external-provider-write.ts:132), whatever happens between the test and the
\* save: late answers of tests given up, sessions overwritten by older
\* requests, pages that changed their pair, pairs stored by other
\* administrators.
VerifiedPairsPassed ==
  \A p \in Provider :
    record[p] # None /\ record[p].verified => <<p, record[p].pair>> \in accepted

\* A sign-in goes on with a pair, or is refused for want of one, as the API
\* told at some moment since its request arrived, although all requests share
\* one registry and their refreshes may overtake each other ("Admin changes
\* from another client are not hidden behind UI startup state or a TTL cache",
\* external-auth-router.ts:48-49).
SignInsAreCurrent ==
  [][\A r \in Slot :
       In(r, "signin", "refreshed") /\ request'[r] = None =>
         registry'[request[r].provider] \in offered[r]]_credentialVars
=============================================================================
