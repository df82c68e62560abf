# ManatOS: TLA+ verification project

ManatOS is a metadata-driven business platform: an Express API (`api/`) over in-memory Maps persisted as one JSON file,
a shared domain, metadata and expression library (`shared/`), a shared UI runtime (`shared.UI/`) and several UI hosts.
This directory holds TLA+ models of the parts that keep state under interleavings and failures, the TLC runs that check
them, and TLAPS proofs. Paths below are relative to the repository; `PROJECT.json` maps each definition to the lines
it models.

Run everything from this directory: `tlc -config <cfg> <MC module>` for a run, `tlapm <Module>Proofs.tla` for proofs.

## 1. The system

### Parts, state and interactions

| Component | State it keeps | Operations | What makes it correct | Modelled |
|---|---|---|---|---|
| Transaction journal: `storage/transactions-support.ts`, `http/middleware/explicit-transaction.ts`, `http/routes/transaction-router.ts` | live contexts with their commit and rollback actions, lease count and idle timer; remembered results | begin, acquire, release, register, commit, rollback, expire, forget | one outcome per transaction, told to its owner; one lease; every action once, in order; nothing abandoned | yes |
| Data store: `storage/in-memory-data-store.ts`, `json-file-persistence.ts` | Maps, JSON file, one temporary file | executeTransaction, save, restoreState, load | an operation is persisted whole or not at all; Maps and file agree | yes |
| Pictures: `services/sysbo/generic-service.ts`, `storage/picture-file-storage.ts` | files beside the records that name them | write, replace, clear, delete | a referenced file exists; no file is leaked; a rollback undoes | the picture handling |
| Native OAuth broker: `auth/native-oauth-service.ts` | attempts, pending provider states, a clock | start, claim, cancel, callback, approve, sweep | one session, for the linked user, after a confirmation; an end is final | yes |
| Principals and integrity: `services/sysbo/principal-service.ts`, `user-service.ts`, `generic-service.ts`, `services/relationships/integrity-service.ts` | rows with parent, stored root and user link | create, update, delete, link, repair, aggregate commit | a forest; stored roots current; structural facts; 1:1 link | principals |
| Rate limiter: `shared/src/security/rate-limiter.ts` | attempts and reservations per key | record, reserve, finish, clear, prune | no more than the limit per window; no reservation lost; every key reopens | yes |
| Sessions and login: `auth/router.ts`, `access-token-store.ts` | token map | register, login, validate, revoke | limits hold for concurrent logins; who gets a session | around the awaited password check |
| Password recovery: `auth/password-recovery.ts`, `http/internal/password-recovery-router.ts` | tickets in order of publication | request, inspect, complete | a link works once; only the newest; the newest does | the service |
| Organization workspace: `ui.EJS0/src/runtime/v2/organization-hierarchy-surface.ts`, `public/js/sysbo/hierarchy/` | rows, originals, recycle bin, staged users of one page | add, move, remove, restore, link, stage, discard | a forest; nothing removed is out of reach | the commands |
| Workspace commit: plan in the page, `ui.EJS0` host, `http/routes/workspace-commit-router.ts` | one explicit transaction | review, submit, execute, finalize, roll back | what is stored is what the user saw; refused for a reason; failures leave no trace | yes; permissions and the validation of single fields as the outcome `Deny` |
| External providers: `services/sysbo/external-auth-provider-service.ts`, `ui.EJS0/src/routes/sysbo/entry/external-provider-write.ts`, `routes/auth/external-auth-router.ts`, `public/js/auth/external-provider.js`, `auth/providers/runtime-registry.ts` | credential pairs with a mark; a test in the browser session; the editor page; one registry | store, test, mark, remove; save; sign-in | the mark belongs to a pair that passed; sign-ins use current pairs | credentials and their use |
| UI flows: `shared.UI/src/flows`, `shared.UI.EJS` surfaces | one running flow, steps, current step, stack of surfaces | run, runSubstep, drain; clicks and answers | flows end; surfaces belong to steps; pointer on a live step | the four authentication flows |
| UI state, other surfaces and hosts; system settings, authorization, expressions, relational adapters, e-mail, audit, OpenAPI, presentation, scripts | see `PROJECT.json` | | | no |

All API components live in one Node process. Requests interleave at every `await` of real I/O (file, mail, provider,
password hash) and nowhere else; the process may die at any such point. A request that carries
`x-manatos-transaction-id` is leased a transaction by the middleware; services below it write records through
`executeTransaction` and enlist compensations in the journal; the client, through three routes, or the idle timer
finalizes it. Services share the Maps, and nothing serializes their operations. The UI host is a second process with
browser sessions of its own, which calls the API; a page is a third party with a callback at a time.

### What is hard

`PROJECT.json` lists 40 hazards at their lines. The families:

* **Leases and timers**: a response's `close`, a finalization and an idle timer can each come while a handler runs.
* **Compensation**: rollbacks run in reverse over failing actions and must not delete a file a record still names.
* **Durability**: an operation is saved by a file write that may fail or be cut short, and is shared with others.
* **Late answers**: OAuth callbacks, claims, password checks, mails and polls return from an `await` to something that
  ended meanwhile.
* **Materialized data**: stored roots have to follow every change of the tree above them.
* **Order of two sides**: user and principal services both write the same link.
* **Shared copies**: browser sessions are written back whole, and one registry serves all sign-ins.
* **Lost answers**: a Commit crosses three programs, and each may not learn what the next one did.

## 2. Modules

Each component has an MC module with its instance and symmetry; eight modules hold proofs.

| Module | Stands for | State and actions |
|---|---|---|
| `TransactionOutcome` | what a transaction promises its session | open, decide once, tell the owner |
| `TransactionJournal` | the journal and its middleware | one action per method: `Begin`, `AcquireOperation`, `FinishRequest` and `Disconnect` (the two release paths), `Register`, `Finalize`/`JoinFinalization`/`RetryFinalization` (the three branches of `finalize`), `RunAction` (one awaited action), `Expire`, `ForgetTerminal` |
| `AtomicStore` | the contract `writes.atomic`, with the exception the code admits | apply a write set at once; succeed, fail, or be in doubt; what clients see and what is persistent |
| `DataStore` | `executeTransaction` and `save` | `Begin` (clone), `Mutate`, `StartSave`, `OpenTmp`, `WriteTmp`, `RenameTmp`, `Return`, `FailOp`, `FailSavedOp` (the failure behind the rename), `Crash`, `Restart`; files are inodes |
| `PictureField` | the picture fields of one record, with the journal and the store | `StartRequest`, `WriteFile`, `Mutate`, `Save`, `Supersede`, `KeepSuperseded`, `Cleanup` and the failure of each; `Begin`, `Finalize` (also under the handler of a dropped connection, whose registrations then throw or join the running list: `Register`, `Ended`), `RunAction`, `FailAction`, `Crash` |
| `DeviceGrant` | what a native sign-in promises | approve once, redeem once and by one claim, end for good |
| `NativeOAuth` | the broker | an action per stretch between two awaits of `start`, `callbackResult`, `approve`, `cancel`, `claim`; sweeping is part of each public operation; `Tick` and relinking are the environment |
| `PrincipalHierarchy` | principals and their references | `Create`, `Update`, `Delete`, `LinkUser`, `DeleteUser`, `License`, `Restart` (repair), and the commit row by row |
| `RateLimiter` | `InMemoryRateLimiter` | no variables: a limiter is a value, and each method a function `Record`, `Reserve`, `Finish`, `Clear`, `ClearAll` of it |
| `SignIn` | registration, login and sessions over one limiter | the steps before and after the password's `await` (`StartVerification`; `RightPassword`, `WrongPassword`, `VerificationError`), the refusals, `Logout`, `LogoutAll`, expiry, `ChangeAccount`, `Tick` |
| `PasswordRecovery` | the recovery service | `StartRequest`, `Deliver`, `Publish`, `MailFails`, `StartComplete`, `SetPassword`, `FailPassword`, `CleanUp`; account changes, restarts and the clock |
| `OrganizationWorkspace` | one page of the workspace | one action per command: `AddNew`, `AddExisting`, `RemoveMember`, `Restore`, `Move`, `MoveBeside`, `ClearParent`, `SaveEntry`, `StageUser`, `DiscardUser` |
| `WorkspaceCommit` | page, host and API during a Commit (extends the page) | `Review`, `Execute`, `Refuse` (of what the rows say), `Deny` (of anything else), `RollBack`, `Finalize`, `Accept`, the loss of each answer, `Expire`, `Restart`, writes of another client through the service or by `AggregateByOther` |
| `FlowRunner` | `FlowExecution` | no variables: `Executed`, `Waiting`, `Completed`, `Begun`, `Ended` on an execution |
| `AuthFlows` | the four flows on the runner and the surface manager | one action per event of the browser: `Run`, `Command`, `ChooseProvider`, `CallSucceeds`, `CallFails`, `SessionSettles`, `CloseMessage`, `Acknowledge`, `Retry`, `Dismiss`, `HostCloses`, `EndFlow` |
| `ProviderCredentials` | editor page, browser session, UI host and API record of a provider's pair, and the registry | testing (`StartTest` to `CallbackEnds`, `Poll`, `Cancel`, `GiveUp`), editing, saving (`Save`, `SaveReachesApi`, `RegistryRefreshed`, `RefreshFails`), `SignIn`, and other administrators and clients |

`TransactionJournal` implements `TransactionOutcome`, `DataStore` implements `AtomicStore` (serially), `NativeOAuth`
implements `DeviceGrant`: TLC checks the refinements and TLAPS proves them.

Compositions: `PictureField` puts the request of the service, one mutation-and-save of the store and the journal's lists
together, and keeps of each what the order of files and records depends on. `SignIn` runs logins on `RateLimiter`,
`AuthFlows` runs flows on `FlowRunner`, `WorkspaceCommit` puts the page, its host and the API's principal service around
one explicit transaction, and `ProviderCredentials` three programs around one pair.

### Abstractions

* A journal action is the number of its registration; what it does is in `PictureField`.
* In `PictureField` a save is one step, and a request that takes the lease a dropped connection released, while that
  one's handler still runs, is left out: it is one of the overlapping requests of finding 2.
* A record is the last operation that wrote it; a file is `Empty`, `Torn` or whole. The crash is the process's: what
  the kernel accepted is on disk. `save` does not fsync, and a power loss is not modelled.
* Proofs, digests and codes in `NativeOAuth` are "the right one" or not; the provider's exchange is an outcome.
* `TraverseEntity` (`shared/src/expressions/functions/registry.ts`) walks from row to row. `PrincipalHierarchy` writes
  it as the least set closed under "parent of", so that it can be proved about.
* Within one service call on principals every `await` before the save resolves without I/O, so the call is one action;
  a call that throws leaves the collection as it was (`DataStore`) and is not an action. A commit that cannot pass its
  refresh simply never ends: its rows are seen only by properties that hold of intermediate rows as well.
* A bucket of the limiter is two sets of events. The request an event belongs to stands for its sequence number.
* A workspace row keeps its parent and its user, the two fields that refer to other records. The API's execution of a
  plan awaits no I/O before its save and is one action. Licenses are a set of members whose deletion is restricted. The
  API may also refuse a plan for what is not in the rows (who may do what, names, pictures, contacts): `Deny`, at any
  time. The structure the principal service keeps (`Structured`) is assumed neither of the collection the page finds
  nor of other clients, since `$aggregate-commit` writes past the service (finding 4); a property that needs it says so.
  What is assumed of every collection (`SoundCatalog`) is what every write keeps, aggregate commits included: chains
  that end, a user on one principal, references to stored records. An aggregate commit of another client changes one
  field of one row; one that changes more is several.
* In `ProviderCredentials` the age of a test is not counted: wherever the code compares it with ten minutes, either
  answer is possible. `secretUpdatedAt` is a version that grows with each write (two saves never fall into one
  millisecond). A request works on a copy of the session, and one that changed it writes the whole copy back when it
  ends, as express-session does. The endpoint `credentials-verified` has no caller that lives
  (`ui.EJS0/src/routes/auth/external-auth-router.ts:202` asks for a field nobody sets); `verifier` is a client that uses
  it as its comment describes.

## 3. Runs

| Run | Question | Bounds | States |
|---|---|---|---|
| journal | With clients that drop connections or vanish: exclusive lease, leased or timed, one outcome told to the owner, actions once and in order, and in the end finalized? | 2 transactions, 2 sessions, 2 requests, 2 actions | 491 297 |
| journal_lease_claim | violation, see Findings | 2, 2, 2, 1 | |
| store_serial | One operation at a time: is the file whole, do Maps and file agree, are writes atomic? | 2 records, 3 operations | 76 971 |
| store_concurrent | violation, see Findings | 2 records, 2 operations | |
| pictures | Which faults lose a file? Does a rollback undo? Is a file leaked? | 4 pictures, 3 requests, every fault, a dropped connection among them | 2 057 371 |
| native_racing | One redemption, for the user the approval named while linked; final ends; memory given back | 2 attempts, 2 claims, 2 users, times 0..2, lifetimes of 1, 2 codes | 622 760 |
| principals | Forest, roots, structure, links after any sequence of calls | 3 principals, 3 types, 1 user, commits of 2 rows, depth 2 | 205 117 |
| sign_in | Do the limits hold for concurrent logins, are reservations kept, does every key reopen, is Retry-After exact, who gets a session? | 3 requests, 2 identities of which one has an account, 4 records it may have, limits of 2, windows 2 to 4, times 2..5, 2 keys in the map | 337 636 |
| workspace | Is what a Commit stores what the user saw? Are its rows refused for a reason? Failures without trace? A draft one record? Nothing out of reach? What do aggregate commits spare? | 2 groups and 2 people stored in two catalogues, one as an aggregate commit leaves it, 2 drafts, 2 users and a staged one, 3 edits (a write of another client counts), 2 writes: Commits, or a Commit and a write of another client | 564 504 |
| password_recovery | Once, only the newest, and the newest | 4 links, 2 users, 2 requests, 2 completions, a map of 1, times 0..1 | 210 408 |
| flows | Does a flow end and its popup stop being busy? Do surfaces belong to steps? Where may the pointer be wrong? | none: the complete state space | 715 |
| providers | Is only a pair that passed marked as verified? Are sign-ins current? | 1 provider, 2 secrets of which one is right, 1 page, 2 requests at a time, 2 writes, 2 tests | 1 127 388 |

Type invariants are proved for every module, and no run repeats them. `AuthFlows` and `ProviderCredentials` name their
specifications `FlowsSpec` and `CredentialsSpec`, so that one module of proofs can extend two components.

### Why the bounds are enough to be interesting

* Journal: a request can be dropped, another can take its place, and a finalization can join or retry a third;
  two actions distinguish an order from its reverse and "stops at a failure" from "goes on". The second transaction is
  there for ownership: transactions share no state.
* Store: an operation that fails, one that crashes and one that follows; two records make a half-done write set.
* Pictures: three requests put one before, one in and one after a transaction, or two in it; a collection
  may get several pictures, so that one file of a request can be written and the next fail.
* OAuth: two attempts because every operation on one sweeps the other; two claims race; time 2 is past both
  `AttemptTtl` and `Retention`. The code's values (10 and 5 minutes, 5 codes, 2000 attempts) are scaled, not its
  comparisons.
* Principals: a three-row chain has an ancestor, a middle and a leaf, the least with a stale root and a cycle that no
  row's own check sees. `MaxDepth` 2 stands for 256, so that a chain of three is refused, as one of 257 is.
* Sign-in: three requests exceed every limit; the address's window is the shortest, so that it opens again while an
  identity is still closed; the map overflows with its third key, and the clock passes the windows of logins, so that
  events expire under running ones. The four records differ from a regular one in one field each.
* Workspace: three edits can move two members into each other's place, or link one and remove another; two Commits
  let the first fail or lose its answer and the second repeat it, a Commit and another client's write come in either
  order or one inside the other's transaction; one catalogue has a container under a container, the other a container
  under a person; the team can be removed and has a license.
* Password recovery: four links let two requests overlap and two more follow; a map of one is always full.
* Providers: an older and a newer test, a save and a write of somebody else. The constraint `Bound` keeps sign-ins,
  deletions and the verifier, which meet a page's tests only through the record, from being interleaved with the tests;
  it does not follow requests of a page that was left; a second test leaves room for one write, and for no request that
  merely rewrites the session (a callback, a poll or a cancellation still do).

`CHECK_DEADLOCK FALSE` is set where requests, operations, attempts and ids are finite and the system may stop.
`flows` and `providers` check for deadlock: there is always something a user can do.

### Fairness

Run `journal`: a handler that runs finishes (`WF FinishRequest`), a settled action is followed by the next
(`WF RunAction`, a promise chain), and an armed Node timer fires (`WF Expire`). Clients owe nothing: they may never call
again or drop their connection. The timer's fairness is weak, and each request is served once, so a client that keeps
touching its transaction for ever is outside the claim, as it is outside the code's.

Run `flows`: requests made through `ApiHandler` settle, and a flow with nothing in flight runs on (both are promise
callbacks). `ApiHandler` aborts each request after `UI_API_REQUEST_TIMEOUT_MS` ("Abort stalled foreground/API requests
instead of leaving the busy UI active forever", `shared.UI/src/api/apiHandler.ts:7`). The user owes nothing. One leg of a
sign-in is not covered by that timeout: `session.signedIn` ends in `auth.authorization(platformId)`, a fetch without a
signal (`shared.UI/src/browser/auth-client.ts:39`), so a popup stays busy for as long as that request stalls, which may
be for ever. No fairness is assumed of it (`SessionSettles`): `FlowsSettle` says of the behaviours in which it does not
stall for good (`SessionAnswers`) that every flow goes on, so this request is the only one that can hold the flows up.

## 4. Findings

Two claims of the repository that runs refute:

1. **Lease released under a running handler** (journal_lease_claim). `explicit-transaction.ts:65` releases on `close`.
   A client that drops its connection lets a commit, a rollback or the expiry start while the handler is mutating:
   begin, acquire, disconnect, finalize. In `PictureField` it loses a file: the rollback deletes the picture that was just
   written, and the handler then saves the record that refers to it (`disconnect` of `Unrepaired`).
2. **Concurrent operations leak a failed one's records** (store_concurrent). One saves the shared Maps while another is
   halfway; the other then fails and restores only memory. `docs/storage/InMemory-JSON-Transactions.md` admits that
   requests are not isolated; the contract table of `Data-and-Storage-Architecture.md` does not.

What else the models show, each visible as an exception in a property or as a step of a module:

3. **Stale stored roots after a deletion.** `delete` (`generic-service.ts:776`) never refreshes the calculated roots. With
   P above A above B, deleting P leaves B without a root, and with M in the middle, deleting M leaves B with a root that is
   no longer above it, until the next write of a principal; authorization reads them
   (`authorization-service.ts:311`), and `Data-and-Storage-Architecture.md:218` promises the resulting value.
   Hence `fresh` in `RefreshedRootsAreCurrent`.
4. **The aggregate commit bypasses the principal service**: a person may become a parent. Hence `bypassed` in
   `ServicesKeepStructure` and in `StoreStaysSound`. The damage reaches whoever comes after it: a workspace of such a
   collection may be refused for rows its user never touched (a member's type forbids what it has, or has members), so
   `RefusalsAreExplained` speaks of collections with the structure only.
5. **Four faults lose a file**: that of finding 1; outside a transaction the deletion of the old picture sits in the `try` whose
   `catch` deletes the new file, after the record was saved (`generic-service.ts:152`); a rollback whose restoration fails
   goes on to delete the file the saved record names (`transactions-support.ts:342`); and a save outside a transaction may
   fail after it reached the disk. `OnlyUnrepairedFaultsLoseFiles` says that these are all. Overlapping replacements of one
   field leak a file besides (`generic-service.ts:116`).
6. **A flow's pointer** can be left on `loadExternalProviders` after it completed (`flowRunner.ts:187`), the one exception
   of `CurrentStepGoesOn`. And `run` hands a later caller the running flow and drops its name and parameters.
7. **A member linked to a user created in the same workspace** is always refused: the plan's identity of the user is never
   resolved in the link (`workspace-commit-router.ts:374`), although `docs/entities/Hierarchy-Workspaces.md:38` describes
   it. It is a disjunct of `RefusalsAreExplained`, as are moves whose order closes a cycle on the way, and the removal of
   a member that has a license (`bo-licenses.ts:16-28`, policy `restrict`), which the page offers.
8. **Restore brings back a discarded draft user**: a removed member keeps the link it had when it was removed
   (`organization-hierarchy-surface.ts:934`).
9. **A verified pair silently becomes unverified.** After a save in place the editor keeps its command `replace`, the pair
   and the spent proof (`external-provider.js:72`). The next save, of any unrelated field, stores the pair again
   without a proof: verification is lost, against
   `api/test/integration/ext-auth-provider.integration.test.ts:148` ("preserves … verification state across
   unrelated edits"). `remove` stays in the same way.
10. **A stored pair can never be verified from the editor.** The test of a stored pair does not set `usesStoredCredentials`,
   so the callback never marks it (`external-auth-router.ts:202`), and the page then asks to replace the pair by one it
   does not have, which fails the form's validation;
   `docs/security/Authentication-and-Authorization.md:19` describes it as possible. After `Remove`, a test still takes
   the stored pair whatever is typed.
11. **Session copies.** A callback of an older test overwrites a newer pending test, a second callback turns a success into
   a failure, and a proof is not "consumed exactly once" (`ui.EJS0`, `express.d.ts`) if two saves overlap. A poll does not
   look again whether its test was given up (`external-provider.js:447`), so that a page may show an edited pair as
   verified. None of this marks a wrong pair: the save compares the pair itself, which is `VerifiedPairsPassed`.

Decisions a reader should know: `cancel` also cancels an attempt that has failed, so "ended stays ended" allows a
change from failed to cancelled; concurrent `start` calls may exceed `maximumAttempts` by those in flight; a password
change leaves recovery links alone and a reset leaves sessions alone; an update of a user may clear `emailVerified`, or
change the address and keep it (`generic-service.ts:441`), and leaves sessions alone too (`outdated` of `SignIn`); a wrong answer that took longer than a
reservation lives is not counted.

## 5. Proofs

All theorems hold for every value of the constants that satisfies the named assumptions.

| Theorem | Says | Assumes |
|---|---|---|
| `TransactionJournalProofs!TypeCorrect`, `LeaseExclusion`, `IdleTimerIsArmed` | type correctness, exclusive lease, leased or timed | |
| `TransactionJournalProofs!ActionsInOrder` | a finished transaction has run the actions of its phase, each once, in its order | |
| `TransactionJournalProofs!HandlersProtected` | a finalization never runs under a handler | `Disconnects = FALSE`: with TRUE it is finding 1 |
| `TransactionJournalProofs!JournalImplementsOutcome` | the refinement of `TransactionOutcome` | |
| `DataStoreProofs!TypeCorrect` | type correctness, also with concurrent operations | |
| `DataStoreProofs!DatabaseStaysWhole`, `MapsStayOnDisk`, `StoreImplementsAtomic` | whole file, agreement up to one write in doubt, the refinement of `AtomicStore` | `Serial = TRUE`: without it finding 2 |
| `PictureFieldProofs!TypeCorrect`, `OnlyFourFaultsLoseFiles`, `RollbackRestores`, `NothingIsLeftOver` | types and all properties of run pictures | finitely many pictures |
| `NativeOAuthProofs!TypeCorrect`, `OneConfirmedSessionHolds`, `CodesAreLimitedHolds`, `EndedStaysEndedHolds`, `StateMapsAreExactHolds`, `SessionsAreLinkedHold`, `NativeImplementsGrant` | the safety of the broker, memory given back, and the refinement of `DeviceGrant` | |
| `PrincipalHierarchyProofs!TypeCorrect`, `ForestHolds`, `RootsHold`, `StructureHolds`, `LinksHold`, `RootsExistAlways` | the invariants of run principals, for any number of principals and any depth | |
| `SignInProofs!SignInHolds`, `TypeCorrect`, `RequestsLimited`, `FailuresLimited`, `ReservationsHold`, `MatchingSessions`, `KeysReopen` | types and the properties of run sign_in: limits, reservations, sessions, reopening | policies whose windows are no shorter than a reservation and a cleanup interval |
| `SignInProofs!MapBounded`, `RetryAfterHolds` | the map of buckets never exceeds its size; retryAfterSeconds is neither too short nor a second too long | the same |
| `SignInProofs!CredentialsTypeCorrect`, `VerifiedMeansAccepted`, `SignInsStayCurrent` | types and both properties of run providers: a marked pair has passed, a sign-in uses a pair that was current since it asked | finitely many requests at a time |
| `WorkspaceProofs!TypeCorrect`, `NothingIsOutOfReach`, `WorkspaceStaysForest` | types of page and transactions; what a Commit deletes is in the recycle bin and can be restored; the working rows are a forest, of containers if the collection was | finitely many members; a collection whose chains end, whose users are of one principal and whose references are stored (`SoundCatalog`) |
| `WorkspaceProofs!StoreIsSound`, `NoTrace`, `CreatedOnce` | whatever plans are executed and others write: chains in the store end, users are of one principal, and only an aggregate commit takes the structure of the service away; failures leave nothing; a draft becomes one record | the same; the identity of a new record is nobody else's |
| `WorkspaceProofs!CommitStoresWorkspace` | a Commit that is executed stores exactly what the user saw, with what others wrote in the meantime, in whatever order the plan has | the same |
| `WorkspaceProofs!RefusalsExplained` | the rows of a Commit nobody disturbed are refused only for a reason `RefusalsAreExplained` lists: the plan's order gives every operation what it needs | the same; a collection with the structure of the service (`Structured`, in the property) |
| `PasswordRecoveryProofs!LinksHold`, `TypeCorrect`, `LinksAreSpent`, `NewestOnly`, `NewestWorks` | types, once, only the newest, and the newest | |
| `PasswordRecoveryProofs!FlowsTypeCorrect`, `SurfacesBelong`, `PointerGoesOn` | types of the flows; surfaces and the popup's work belong to steps that run; the pointer is on a live step but for the one exception of finding 6 | |

Arguments:

* **Journal.** `LeaseInv` says that a lease is a running handler in a live transaction that counts it; without it
  `LeaseIsExclusive` is not inductive, as a release could find a count that is another request's. `LoopInv` bounds the
  loop of `runFinalization`, so an action to run exists. `OutcomeInv` ties `finalization`, `terminal` and the
  waiters to the one decision; the refinement follows from it. For the order, `PlanInv` says that what is registered is
  numbered in order and `RanInv` that what ran is a prefix of the plan.
* **Store.** `SerialInv` describes the single operation in flight: the Maps are its snapshot plus its writes, and the
  temporary inode it holds is its own. Freshness of inodes (`FreshInodes`) is what makes a rename harmless.
  A save that is reported failed after it reached the disk restores the Maps under the newer file. `Agrees` says how far
  the two can then be apart (records of that one operation), and `Seen` keeps what clients are answered from apart from
  what is persistent: the write is in doubt (`Doubt`), whole or not there after a crash, and the next success writes over
  it.
* **Pictures.** `PInv` is about the list of actions a rollback has still to run. A request puts removals and a restoration
  in front of it and a rollback takes from the front, so each fact about the list (`Consistent`, `Spares`, `Ends`) is
  a lemma on one action followed by a list; between them, `Undo` and `Due` name the two lists. All of it holds as long as
  requests and finalizations take turns (`InTurn`), for a registration is then what it is in an open transaction or
  nothing (`InTurnRegister`). Once a finalization has overtaken a request, the properties claim nothing, and only the
  types are kept; the history of faults never forgets (`FaultsStay`).
* **OAuth.** `NInv` adds to the types that an unborn attempt has no sessions (`NewAttempts`), that a completed one was
  confirmed (`ConfirmedAttempts`) and that sessions and redeemed attempts correspond (`RedeemedSessions`). The steps
  that neither confirm nor redeem are handled together, by how they may move a status.
* **Principals.** The conjunction of the invariants (`IInv`) is inductive as it stands. The work is in lemmas on
  chains: a cycle throws (`CyclesThrow`), a refresh that does not throw therefore stores a forest; a row that nobody's
  parent points to does not matter to other roots (`LeavesDoNotMatter`), which is why a deletion that disturbs nothing
  keeps the roots current.
* **Sign-in.** No bucket ever holds more events than its limit (`Sound`), and each holds every event of the history that
  is still in its window (`HistoryIsCounted`); so the history in a window is no larger than the limit. The limiter's methods
  are lemmas on values, and the actions use them.
  That a session differs from its account only by a later change of the account needs the same of the logins that are
  verifying (`LoginsAreUsers`): nothing is assumed of who may change an account, or how.
  `MapFits` needs only that a new bucket comes after an eviction; that retryAfterSeconds is exact is arithmetic on the
  oldest event of a full bucket.
* **Workspace.** Every step of the composition leaves the page alone, is a command, accepts the committed rows or is
  another's write (`PageSteps`); each command keeps `SInv`. `Chain` is a recursive function over sets of rows:
  `ChainIsLeast` shows by a largest counterexample (the sets are finite, so strict inclusion is well-founded) that it is
  the least closed set, and `ChainsEnd` that chains reach a root exactly if no set of rows holds the parents of all its
  members (`Acyclic`), which is easy to keep. A move keeps it because a set that the new parent closes would contain the
  chain of that parent. That the rows keep the structure of the service is a conditional invariant (`StaysStructured`):
  the recycle bin and the rows of comparison have to keep their users to people as well.
* **Store of a Commit.** `SoundStore` (shapes, `Acyclic`, users of one principal) is kept by one write and one deletion,
  whatever the row and whoever writes it. `Built` (types that may have parents and users, parents and users that exist)
  is kept by the service's writes only, so `StaysBuilt` holds it under `Undamaged`: the collection was structured and
  nothing has bypassed the service; an open transaction's snapshot has to be built as well, since a rollback brings it
  back. The execution of a plan is a fold;
  `ExecutionSteps` gives the states it goes through, one per operation, and a least counterexample replaces the
  induction over the plan. `Traces` and `LastOnly` say which Commits' records the store and every open snapshot may
  hold: `FailuresLeaveNoTrace` alone is not inductive, since a rollback brings back what a snapshot has.
* **What a Commit means.** `PlanFits` says that the reviewed plan has exactly the operations the workspace asks for (the
  page cannot edit under it), and `Numbered` that no record of this Commit is in any store yet. `Progress` then gives
  every row of the store after a set of operations, whichever was first: `CreateDone`, `UpdateDone`, `DeleteDone` and
  `UserDone` add one operation. The order does not matter because an identity of a draft is not in the store: a reference
  that was not resolved is refused (`ParentResolved`), and `assertPlan` makes the set complete.
* **What a Commit is refused for.** First the order: the rounds of the topological sort grow along providers
  (`RoundsGrow`, by a set of rows that grows from the roots, `GrownWhole`), and as ranks are numbers that no two operations
  share (`RanksAreNumbers`) the sort places each operation once, so the creation of a parent comes first (`ParentsFirst`,
  kept as `PlanOrdered`). Then what the page knows of an undisturbed store: the store is the collection it has loaded
  (`Untouched`), the rows edits are compared with are that collection's (`Baseline`), and a stored user whom a row names
  is linked to no other stored member (`UsersAreOwn`). With these, each operation of a plan that none of the stated
  reasons applies to succeeds (`CreateSucceeds`, `UpdateSucceeds`): its parent is there and a container (`StaysStructured`),
  what has members is one too (`MembersFit`, from `Built` of the store halfway), nothing that is written loses a field
  (`PlainStored`), its user is free, and when at most one member was moved no state halfway has a cycle (`NoCycleYet`).
* **Recovery.** A link is in one place: drawn by a request, published as a ticket or taken by a call
  (`RequestsHoldNewLinks`, `TicketsArePublished`, `CallsHoldTakenLinks`), and places count publications. A step that
  takes a published link out of the map then has one of the reasons `Lapsed` lists; for `cleanup` because the fresh
  tickets above a removed one are published links above it.

* **Flows.** `FlowsInv` describes the popup in each phase. `PhaseInv` says that a phase is quiet or one step runs or tells
  its message, and which; `AwaitsInv` that a step awaits something exactly while it is active; `PointerInv` where the
  pointer is and where it will go back to. The background loader is the only step that may end while another runs, hence
  `overtaken` and the exception of `CurrentStepGoesOn`.
* **Providers.** A test that is verified, in any copy of the session (the store's, a request's, a page's proof), is one
  the provider accepted (`SoundCopy`, `SoundPage`, `SoundRequest`), however the copies overwrite each other. A stored pair
  is marked only by a save that compares it with such a test, or by a callback that finds under its version the pair it
  tested or none (`SoundVerifier`). `OffersInv` says that what a sign-in has read, and what is current, were both on
  offer since it asked; `OnlyItsRefreshAnswers` that nothing else ends it.

The second parts of `PasswordRecoveryProofs` and `SignInProofs` hold the proofs for `AuthFlows`, whose last flow ends in
a recovery, and `ProviderCredentials`, whose pairs a sign-in uses.

Assumptions on constants that the proofs needed are named in the modules and evaluated by TLC on each run: finite sets of
members and drafts, an injective order of identities (`RankAssumption`: two operations of one kind have different
identities), `IdentityAssumption` (a generated identity is no identity of the page or the catalogue),
`SoundnessAssumption` (`SoundCatalog` of every collection a page may find), `TabAssumption`, `CredentialBounds`,
`StepsAssumption`.

Only model-checked: liveness (`EventuallyFinalized`, `FlowsSettle`; fairness is beyond the prover). Every safety property
of a passing run is a theorem.
`OneConfirmedSession`, `CodesAreLimited` and `EndedStaysEnded` are proved and in no run:
`DeviceGrant` covers what they say of redemptions and ends.

## 6. What is not modelled

* Isolation between explicit transactions of different sessions (disclaimed by the docs) and concurrent requests for one
  picture field, which the shared Maps do not isolate either (finding 2).
* Contacts, licenses and users as records of their own (licenses only as what restricts a deletion); cascades of other entities; the legacy migrations of `load`.
* Queries, authorization and the evaluator: pure functions with unit tests of their own (a Commit that authorization
  refuses is `Deny`).
* Power loss; a disk that lies; two API processes on one database file, which the program does not support.
* In `ProviderCredentials`: labels, scopes and callback paths, the rest of a sign-in after the refresh, and two
  editors of one browser session (a second tab meets the first only through the session, which any other request may
  rewrite in the model).
* Presentation: pages, components, the debugger and the other UI hosts render what the modelled parts decide. It is
  most of the repository's lines, and the reason why the map covers a small share of them.
* Everything listed as `not_modelled` in `PROJECT.json`, with its reason.

## 7. How the project was ordered, and what could follow

The journal came first, as everything explicit rests on it; then the store, pictures, the OAuth broker, principals; then
sign-in, recovery, the workspace and its Commit, the flows and the provider credentials.

What could follow, in this order: a composition of `TransactionJournal` with `DataStore` for two sessions, to say exactly
which rollbacks are harmless; the stack of surfaces of `shared.UI` with its decisions on dirty pages.
