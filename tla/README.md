# Stick, specified

Stick is a small web application for sharing things of which there is one: a
*stick* (a test environment, a deployment slot) is claimed by one user at a
time, released, and everybody who subscribed is notified of the release. This
directory is a TLA+ development of it: modules that model the program's parts,
TLC configurations that check them on small instances, and TLAPS proofs of the
most important results for every size. Paths below are relative to
`src/internal/` unless they start with `src/`.

`tlc -config X.cfg M` runs a check and `tlapm M.tla` a proof; `PROJECT.json`
lists runs, theorems, the source lines behind every definition, and for every
property a mutation of the model that breaks it. A definition headed "Mutant:"
is such a mutation and is used by nothing else.

## 1. Inventory

| Part | State | Operations | What makes it correct |
|---|---|---|---|
| Domain transitions, `core/stick.go` | none (pure functions on a stick) | create, rename, archive, unarchive, claim, release | each change advances the version by one, up to the largest int64 |
| Stick service, `application/service.go` | the four tables | one transaction per use case, with an expected version | no lost update; a stick is held exactly while it has one open session; a release queues one notification per subscription |
| Pages and forms, `web/sticks`, `web/views` | what a browser tab shows | detail page (three reads), the mutation forms, the page after a refused form | a version identifies what a page shows; a form on a page applies while nothing has changed |
| Stores, `adapters/persistence/{sqlite,postgres,mongodb}` | sticks, sessions, subscriptions, notification_outbox | transactions of the service; claim and settle for the worker | transactions are atomic against each other, whatever the backend's isolation |
| Outbox worker, `outbox/worker.go` | the delivery in hand; rows in the outbox | claim, notify, record, back off | nothing recorded that was not sent; no repeat without a lost result; every notification arrives |
| Fan-out and backends, `application/notification.go`, `adapters/notification` | the deadline of one attempt | SMTP, webhooks, Teams, in this order | success only if all took it; a slow or bad backend leaves the others their time |
| OIDC login, `web/auth/handler.go` | provider, channel of the running discovery, backoff; cookies of a login under way | discovery on first use, shared by requests; login, callback, logout | one discovery at a time, nobody waits for ever, failures are spaced; a code meets its own verifier, a login nobody disturbs is accepted |
| Lifecycle, `src/cmd/stickd`, `application/lifecycle.go`, `web/server.go` | running components, database handle | start, signal, failure, shutdown | all stop together; the database is closed last; no error is lost |
| Pagination, `web/sticks/pagination.go` | none | page window, offsets | links lead somewhere, every page that is served can be reached |
| Web session and request protection, `auth`, `web/security` | signed session cookie, token in each page | issue, verify, check a form's token | a form acts as the person its page was rendered for |
| Dashboard, `web/dashboard` | none | three separate reads | right about every stick that nobody touched meanwhile |
| Configuration, `config` | none after start-up | YAML, Azure and environment providers, validation | the last provider that says something wins; no configured backend is dropped |
| Migrations, the `db.go` of each backend | schema and its recorded history | inspect, apply, record at start-up | the history is true after any crash or race; an old binary refuses a newer database; everybody can start again |
| HTTP plumbing, formatting, public URL | none | routing, logging, strings | outside the scope |

Interaction: a tab sends forms to a handler, which calls one service method,
which runs one store transaction. A release writes notifications into the
outbox in that same transaction. Workers, in this process and in others that
share the database, poll the outbox, call the fan-out and record the result,
which deletes the subscription that asked for it. Processes share nothing but
the database and their clocks.

What is hard: pages are old when their forms arrive; times are read before the
transaction that stores them; a detail page is put together from separate
reads; claims on notifications expire by the clock of another process; a worker
dies, or its result cannot be stored, after the notification went out; a
renewed subscription races with the delivery for the old one; PostgreSQL
interleaves statements; MongoDB reads old snapshots and repeats callbacks and
commits; old and new binaries migrate at once; tabs overwrite each other's
cookies; backends share one deadline. `hazards` in
`PROJECT.json` has each of them at its line with the properties that cover it.

## 2. Modules

    StickTypes --> StickCore ----------------> StickService --> StickServiceProofs
    OutboxStore --+--> StickService                               |
                  +--> OutboxWorker --> OutboxWorkerProofs        |
                  +--> OutboxStoreProofs <---- (extended by both) +
    RetryBackoff, OutboxWorker, Doubling --> WorkerBackoff --> OutboxWorkerProofs
    Doubling --> OIDCDiscovery --> Login --+--> WebProofs
    Pagination --> Dashboard --------------+
    Config --> Lifecycle --+--> LifecycleProofs
    Fanout ----------------+
    Migrations ------------+
    PostgresStore --> PostgresStoreProofs        MongoStore --> MongoStoreProofs
    Doubling --> RecursionProofs --> OutboxWorkerProofs, WebProofs, LifecycleProofs

    StoreContract        <== StickService, PostgresStore, MongoStore
    NotificationDelivery <== OutboxWorker (safety), DeliveryLoop (safety and liveness)

An arrow `-->` is EXTENDS, `<==` is "is implemented by".

**StoreContract** is what `application.Store` and `outbox.Store` promise for one
stick, each transaction a single step: the holder changes only with the version, a
stick is held exactly as long as its session is open, a release queues a
notification for every subscription, a settled notification ends the generation
it notified and no other. Notifications are a function from ids, so that the
rows of one stick, with gaps between their ids, are an instance of it. The three
backends are shown to implement it.

**NotificationDelivery** is what the outbox promises for one notification:
queued, reached, settled, in this order, and (with its fairness) in the end.

**StickCore** has the domain functions as operators: `XError` is the error of
transition X, in the order the code checks, and `X` is its result.

**OutboxStore** has the two tables that the service and the workers share and
one action per store operation, with the guards of the SQL statements.

**StickService** composes the two with tabs. A step is one transaction: SQLite
runs on one connection, so they are serialised. A tab reads a detail page in up
to four steps (`GetStick`, `CheckHistoryVisible`, `GetHistory`,
`SubscribedStickIDs`), so anything may happen between them, then submits one of
the forms the page offers. The clock is read at the submission, as in the code,
and the transaction happens later. A refused form re-reads the stick and shows
the page again. `MaxVersion` stands for the largest int64 and is reached.

**OutboxWorker** runs workers over the same tables: read the clock, claim,
notify, record, each a step. Every reading may be off by `MaxSkew`. Processes
die and restart at any point, results stay unrecorded, and commits whose answer
is lost leave claims nobody holds.

**DeliveryLoop** is the same worker without time (a retry delay or a claim is
over when `Elapse` says so), small enough for liveness.

**RetryBackoff** is the delay loop of `backoff` over integers of a given width,
**Doubling** what an exponential delay is, and **WorkerBackoff** relates the two
to the attempts of a row.

**Fanout** is one `Notify` over a sequence of backends that accept, refuse or
hang. Every call takes time from the one deadline of the attempt, an accepted one
too: any amount up to the backend's own limit. A call that the deadline ends
before that limit (`CutOff`), or that begins after it (`Expired`), says nothing
about the backend, which therefore does not count as unavailable.

**PostgresStore** takes the transactions of the PostgreSQL backend apart into
statements, with the locks on the stick's row, on subscription rows and on
outbox rows. Statements read what is committed; a commit publishes a
transaction's writes; any statement may fail. Whether statements that *can*
interleave still behave as the atomic steps of the other modules is what its
properties are about.

**MongoStore** does the same for MongoDB, operation by operation: a transaction
reads the snapshot of its first operation; writing a document that another open
transaction has written, or that changed since the snapshot, is a conflict; the
driver's `WithTransaction` runs the callback again, repeats a commit of unknown
outcome, or gives up. The rules of server and driver are external to the
repository and marked so in the map. One of them is an assumption worth
knowing: that the `$inc` of zero in `GetStick` counts as a write of the stick's
document, as the comment at `mongodb/transaction.go:29-31` says. It is what
keeps a subscription from slipping past a release; without it (the mutant
`GetStickUnreserved`) `ImplementsContract` fails.

**Migrations** is the start-up of several processes with different binaries on
one database: three protocols side by side, chosen by a variable that no step
changes. The repository has one migration per backend today; the model has two
so that a newer binary exists.

**OIDCDiscovery** is `providerConfig`: one step per stretch between two mutex
operations, channels as numbers, and a set of those that are closed.

**Login** composes it with what its callers do: logins, callbacks and logouts
of several tabs over one cookie jar, where a request carries the cookies of the
moment it was sent and may then wait for the discovery; cookies of an older
deployment at the root, which the server may read first; restarts that forget
the provider; pages, forms and their tokens.

**Config** has the providers as operators: what each source says of a setting,
and what is left after applying it. **Lifecycle** is `mainContext` on top of it
(load, build the backends, open, compose), `application.Run`,
`serveWithContext`, and the loop of the worker as one who uses the database.

**Pagination** is a reader who opens and follows pages while sessions end;
**Dashboard** adds the dashboard's three reads, between which sticks and
subscriptions change, and the way between the two.

## 3. Runs

| Run | Question and answer |
|---|---|
| `service` | Two tabs race on a stick until its version is exhausted, with subscriptions. `HolderMatchesSession`, `NoInconsistentSession` (the errors for a missing or second open session never occur), `VersionIdentifiesPage`, `SessionsInOrder`, `ChangesOnlyWhatWasSeen` hold; `OfferedFormApplies`: a form that a page offers is not refused while the version stands; `ImplementsContract`: each stick behaves as StoreContract, so a change of its holder takes the next version and a release queues one notification for every subscription of that moment. |
| `worker_prompt` | Rounds fit in the claim's time to live: `ClaimKept`, `OneDelivererPerRow`, `NoUnexcusedRepeat` hold with skewed clocks and crashes. |
| `worker_slow` | Rounds do not fit: repeats happen, but `ClaimHasOneOwner` and `DeliveryEndsItsGeneration` still hold, and the workers implement NotificationDelivery's safety (`ImplementsDelivery`): what is recorded as delivered has reached its recipient and is never taken up again. `BackoffIsCappedDoubling` for all options at the edge of the integer type. |
| `delivery_loop` | `ImplementsDelivery`, liveness included: every notification is eventually recorded as delivered, whatever crashes and fails. |
| `fanout` | `NilMeansEveryBackend`; and `BoundedStopsNoOther`: k calls that take time, successful or not, with a limit of m each leave everyone else their time while k * m is less than the attempt's deadline. |
| `fanout_smtp` | `UnavailableStopsNoOther`, the documented promise, for one unavailable backend among others that take no time: **violated**, see section 6. |
| `postgres_store` | `ImplementsContract` at statement granularity: the mapping is the committed state, so a commit is the contract's step and every statement before it a stutter. Stick and session stay in step, a release misses no subscriber, a recorded delivery has ended its generation and is final. `NoDeadlock`: no cycle of lock waits, no lock left behind. |
| `mongo_store` | `ImplementsContract` on snapshots with retries; `AnswersAreTrue`: a request answered with success was applied once, a refused one not at all. |
| `migrations` | `HistoryIsTrue`, `OpenMeansSupported` (nobody opens a store that lacks something or is too new for its binary), `EveryoneSettles` on each backend. |
| `login` | Of the discovery `SingleFlight`, `NoWaiterForgotten`, `QuietAfterFailure`, `EveryRequestAnswered`; of the login `ExchangesOwnVerifier`, `UndisturbedLoginAccepted`; of pages `FormActsAsShown`. |
| `lifecycle` | `RunsAsConfigured`: the configuration equals a reference definition of the documented precedence, and every backend in it is built; `StoreOutlivesItsUsers`, `ExitReportsFailures`, `StopsTogether`. |
| `browsing` | `LinkedPagesHaveSessions`, `LinksConverge` (every page that the handler serves is reached by following links, whatever page is open), `ReadingHasNoGap` of the history, `UntouchedShownRight` of the dashboard. |

**Bounds.** One stick is enough for the service: no transaction reads or writes
two, and the theorems cover any number. Two tabs make every pairwise race;
`MaxVersion` 4 allows claim, release and claim after creation and then the
exhausted version. `MaxToken` 2 lets a subscription be renewed or made by
two users. The worker runs have two workers; the prompt one has one row, since
rows interact only through the order of claims, and a clock long enough for a
claim to go stale and be taken over; the slow one has two rows so that a user
can be notified twice; its durations have three bits, so doubling overflows
within the attempts that are tried. Two logins and two callbacks are a
discoverer, a waiter, a cancelled waiter and a late arrival, and two tabs that
overwrite each other's cookies; the second failure reaches the largest delay,
and a restart happens between a login and its callback. PostgreSQL and MongoDB
have two requests and two workers, which is what a lock-order cycle or a
conflict of two kinds of transactions needs, and two releases so that a release
meets the delivery of the one before. Migrations have an old and two new
binaries and three faults: enough for a fault of each of two racing processes
and another on restart. Configuration has the default providers, the documented
ones with Azure, an unusual order and one provider alone, every list of up to two
servers, and every combination of absent, empty, unusable and usable values.
`pageSize` 2 and a window of 3 reach both ends of the window and six pages, of which
the handler serves four (`maxHistoryPage`), with links and typed page numbers beyond
that. The fan-out counts in units of five seconds; a call that takes none is one
quick enough not to matter. An SMTP backend, three webhooks and Teams are enough for
three slow calls of ten seconds to leave the last backend nothing.

Deadlock is checked except where the system may stop: processes that have
exited (`Lifecycle`) or all opened their store (`Migrations`), work that is
finished (`DeliveryLoop`, `Fanout`), requests that are all answered (`Login`).

**Fairness.** Only liveness runs use it.

- `DeliveryLoop`: the loop of `Worker.Run` polls for ever, attempts are cut off
  by `attemptTimeout`, results by `resultTimeout`; a crashed process is assumed
  to be restarted. Strong fairness of `NotifySucceeds` per row is an assumption
  on the world: a backend that is asked again and again takes the notification
  at last. Faults of the store are bounded by `MaxFaults`.
- `OIDCDiscovery`: goroutines run, and a discovery ends by its timeout, which
  `context.WithoutCancel` keeps independent of the caller.
- `Login` uses the fairness of `OIDCDiscovery` and adds none: users, browsers
  and the provider owe nothing.
- `Migrations`: whoever supervises a stopped process starts it again; started
  ones go on; PostgreSQL serves those who wait for the advisory lock in turn
  (strong fairness of `PostgresLock`). Faults are bounded by `MaxFaults`.
- `Lifecycle`: every blocking step of a component ends by a timeout or with the
  context. Handlers and the signal are owed nothing.

## 4. Proofs

Constants are arbitrary, subject to the named assumptions of each module. Every
safety property of a passing run is a theorem, except `NoDeadlock`, which has a
theorem beside it (see PostgresStoreProofs and the end of this section). No
property is inductive by itself; for each module the invariant that is, and why
it is needed:

**StickServiceProofs.** `ServiceInvariant` proves `IInv`, from which
`TypeCorrect`, `HolderMatchesSessionHolds`, `NoInconsistentSessionHolds`,
`VersionIdentifiesPageHolds`, `SessionsInOrderHolds` and the action property
`ChangesOnlyWhatWasSeenHolds` follow. That sessions do not overlap, for
instance, needs a claim in flight to carry a time after every recorded one,
which holds only *while its version is current* (`RequestsAreLate`), and that
needs forms to carry the version of the page they came from
(`RequestsFromPages`). The argument is one idea: every transaction that touches
a stick or its sessions advances its version, so whatever is known about a page
or form while its version is current cannot be disturbed. The same idea gives
`OfferedFormAppliesHolds`: the page's copy of the stick is the stick.

`ImplementsContractHolds` is the refinement of StoreContract, for every stick:
the number of open sessions is 0 or 1 by `HolderMatchesSession`, tokens are
unused before they are handed out (`TokensUsedHolds`), and
`EnqueueReleaseNotifications` appends one row for each subscription and nothing
else (`EnqueueAppends` of OutboxStoreProofs). Steps that concern another stick
change neither rows nor subscriptions of this one and are stutters.

**PostgresStoreProofs.** `PostgresInvariant` proves `PInv`, which says of every
open transaction what its locks have kept true since the statement that took
them. A request that is past `SELECT ... FOR UPDATE` has the stick as it checked
it, and is alone there (`StickKept`). A worker that has updated its notification
finds it unsettled at the commit (`RowKept`), and has locked the user's row
exactly if the generation it notified is still there (`GenerationKept`). What a
release has read for its notifications can be out of date at its commit in one
way only: deliveries have ended some of the generations meanwhile
(`QueuedKept`), which is the reason for the clause of `Release` in StoreContract
about generations an earlier notification has just ended. From this,
`PostgresImplementsContract`: a commit is the contract's step, every other
statement, rollback and lost answer a stutter.

`WaitsFormNoCycle` is about the locks themselves. `LockInv` says that a lock is
held from the statement that takes it to the end of the transaction and by
nobody after that. Whoever has a user's row is about to commit; whoever has the
stick or a notification waits for a user's row at most; so as long as any
transaction is open, one of them is not waiting. `Waits` lists, statement by
statement, the locks that `NoDeadlock` meets as guards.

**MongoStoreProofs.** `MongoInvariant` proves `MInv`, where write conflicts do
the work of locks. No document has two open writers (`Isolated`), and what a
transaction sees is what is there unless the document is marked stale for it, in
which case writing it would be a conflict (`SnapshotKept`). A request past
`GetStick` has written the stick's document, so that nobody else can change the
stick before it ends (`StickKept`): this is the reservation of
`mongodb/transaction.go:29-31`. What it sees of the subscriptions can be out of
date in one way only, by deliveries (`SeenKept`); a worker deletes the user's
subscription exactly if it has the generation that was notified
(`GenerationKept`). All this survives the other transactions because a commit
changes no document but those it has written (`StepKeeps`, `Covers`).
`AnswersAreTrueHolds` follows from `AppliedOnce`: through repeated callbacks and
commits of unknown outcome, a request is applied at most once, and never after
it was refused. `MongoImplementsContract` is the refinement: applying a commit
is the contract's step, whether or not its answer arrives; every other step is a
stutter.

**OutboxWorkerProofs.** `BaseInv` (types, distinct tokens, valid deliveries)
holds for any timeouts and clock errors and gives `WorkerTypeCorrect`,
`SucceededMeansNotifiedHolds`, `ClaimHasOneOwnerHolds`, the refinement
`ImplementsDeliveryHolds` (a row is never taken up again once it is settled, and
settled only after it was delivered) and the action property
`DeliveryEndsItsGenerationHolds`. Under `Prompt` (claim latency + attempt
timeout + result timeout + twice the clock error < claim TTL; 30 s + 5 s against
60 s by default) `PromptInv` holds too: every live worker is within its deadline
(`Timely`), has the row it claimed (`ClaimsHeld`), and each delivery is recorded,
about to be, or excused (`Accounted`). It gives `ClaimKeptHolds`,
`OneDelivererPerRowHolds` and `NoUnexcusedRepeatHolds`. The key lemma,
`TakesFreeRow`, is the arithmetic: no live claim is stale for anybody.

`BackoffIsCappedDoublingHolds` is for any options, any width of a duration and
any number of attempts. `LoopDelayDoubles` is the induction over the rounds of
the loop; that doubling does not wrap (`DoubleIsExact`) follows from the halving
test before it. `BaseInv` supplies that a worker recording a result has an
attempt behind it.

**RecursionProofs** has what the proofs about delays and about providers share.
The library's induction theorems take an operator, which the installed provers
cannot instantiate; here induction is about a *set* of natural numbers
(`Induction`, from the well-foundedness of <), and recursion about a function
that is iterated (`Iteration`: it can be, any number of times). `DoubledFacts`
follows, and likewise that the recursive functions of RetryBackoff and Config
have the values that their definitions say.

**WebProofs.** `IInv` ties the handler's channel to the one request that will
close it, in both directions; `SingleFlightHolds` and `NoWaiterForgottenHolds`
are about OIDCDiscovery alone, `LoginSingleFlight` and `LoginNoWaiterForgotten`
about all of Login, restarts included. `WInv` is about the browser: in every
path of the jar, and in every request under way, the state and the verifier
belong to one login, since cookies are always stored and cleared in pairs. Hence
`ExchangesOwnVerifierHolds`. It also says what an undisturbed login's callback
must carry (`UndisturbedLoginAcceptedHolds`) and whose token a page has
(`FormActsAsShownHolds`).

`QInv` adds to `IInv` that the handler's last delay is the one that the number of
failures calls for, and that nobody discovers before it is over. The step,
`NextDelay`, is exact because the cap is even. `QuietAfterFailureHolds` follows,
and `LoginQuietAfterFailure` with restarts, after which counting starts again.

**LifecycleProofs.** `LInv` follows each component from its goroutine through
the results channel into what `Run` has heard: a component that `Run` no longer
counts has returned, and its failures, which
`serveWithContext` has joined into the server's error, are in what `Run` will report.
`StoreOutlivesItsUsersHolds` and `ExitReportsFailuresHolds` follow. The fan-out
is proved in the same module: `FInv` accounts for every backend the loop has
called (accepted, unavailable, or met by the deadline) and for the time its slow
calls have used, whatever came of them. `NilMeansEveryBackendHolds` and
`BoundedStopsNoOtherHolds` are about any list of backends with any timeouts, in any
unit of time: in one so fine that every call takes some, k is simply the number of
calls.

`RunsAsConfiguredHolds` relates the configuration, which is made by applying
provider after provider, to a definition that looks at all of them at once.
`PromisedAt` is that definition for the first k providers; one more provider
changes it exactly as applying that provider does (`NextPromised`, with a lemma
each for the database, a file with and without a list, and the variables), so
the promises are a solution of the recursion in `Applied`, and by induction the
only one (`AppliedIsPromised`).

Migrations are in this module too. Their invariant, `MInv`, has one part for each
protocol. SQLite's writer and PostgreSQL's owner of the advisory lock are the
only ones with a migration applied and not recorded, and what they inspected is
what is there; on MongoDB a version is recorded only after what it names exists,
by whichever process. `HistoryIsTrueHolds` and `OpenMeansSupportedHolds` follow.

In **WebProofs** again, `PInv` is about the reader of a history: what was read is
a range from the first page of the reading downwards, and the page on the screen
adjoins it although sessions that ended have moved it. The page window is
arithmetic (`historyPageLinks` for any number of pages), which gives
`LinkedPagesHaveSessionsHolds` and `LinksConvergeHolds`; the latter needs a
window of at least three links, and the code's has seven. It is about the pages
the handler serves. `historyPageLinks` is not told of `maxHistoryPage` (5001, so
100 020 sessions of twenty a page), so a longer history has links to pages beyond
it, which all lead to page 5001 again: the sessions there cannot be read, by links
or otherwise. `DInv` says of each
stick nobody has touched since the first of the dashboard's reads that what the
reads have returned so far is how it is now (`UntouchedShownRightHolds`).

**OutboxStoreProofs** has lemmas on the tables that the service and the workers
share: the types after every operation, what a release appends, what a claim
and a recorded result leave alone.

Only model-checked:

- everything under fairness (liveness is out of the prover's reach): the
  liveness part of `ImplementsDelivery` in DeliveryLoop, `EveryoneSettles`,
  `EveryRequestAnswered`, `StopsTogether`;
- `NoDeadlock` of PostgresStore as it stands, with ENABLED, of which the prover
  knows nothing. `WaitsFormNoCycle` proves its substance for any number of
  connections; that a transaction which does not wait has a step is what TLC
  checks.

## 5. Not modelled

- Text: names, reasons, e-mail bodies and webhook payloads are model values;
  validation of a name is membership in `ValidNames`.
- Service processes with clocks that disagree: `SessionsInOrder` is about one
  process. The worker modules do have clock errors.
- The mode without notification backends, in which pages offer no
  subscriptions, and the new-stick form's own page.
- In PostgresStore and MongoStore: rename, archive and create (a version check
  and one row or document under the same lock), sessions other than the number
  of open ones, times. Other sticks appear in MongoStore only as conflicts on
  the counter documents, which may happen at any operation.
- Forged or replayed cookies and tokens: signatures are taken to be sound, and
  states and verifiers to be unguessable. The provider exchanges a code once,
  for its own verifier.
- MongoDB operations outside their session: that each one gets the session's
  context (`mongodb/transaction.go:260-268`) is taken for granted.
- A stick that is archived or restored between the reads of one dashboard page is
  listed twice or not at all; `UntouchedShownRight` leaves such sticks out.
- In Config: the single settings other than one, the lists other than one, and
  the syntax of values. The precedence is the same code for all of them.
- Public URL parsing, mount paths, durations and text limits: pure functions on
  characters, where a model with small sets would only restate itself.
- HTTP routing, logging, health, headers, static content: no state of the
  system.

## 6. Finding

`application/notification.go:64-67` says "All backends are attempted even when
one fails; ... so one unavailable backend does not prevent the others from
receiving the notification." `smtp.Notify` sets its ten-second limit only if the
context has no deadline (`adapters/notification/smtp/smtp.go:111`); the worker's
always has one. An SMTP server that stops answering therefore uses up the whole
attempt, and the webhooks and Teams, which come after it, are called with an
expired context in this attempt and every retry. `fanout_smtp` has the trace.

`BoundedStopsNoOther` in `fanout` shows what remains of the promise. Time is used
up by slow backends of either kind, those that fail and those that accept in the
end: k of them, each with a timeout of at most m, leave everyone else their time
as long as k * m is less than the deadline. With the ten seconds of webhooks and
Teams in an attempt of thirty that is two of them. Three slow webhooks can leave a
fourth backend without any, even if all three accept; SMTP, which has no timeout of
its own there, can do so alone, also by accepting late.

## 7. Plan

Done, in the order of importance: the service with its pages and subscriptions,
the outbox worker, delivery liveness, backoff, fan-out, discovery, lifecycle,
pagination, PostgreSQL statements; then the abstract specifications and their
refinements, MongoDB, migrations, login and sessions, dashboard, configuration.
Then the proofs of section 4, in the order service, workers, discovery; the
refinements of StoreContract by the service and by PostgreSQL and of
NotificationDelivery by the workers; migrations, lifecycle, fan-out, login,
dashboard; MongoDB, delays, configuration, lock waits.

Next:

1. Rename, archive and create in PostgresStore and MongoStore, which share the
   lock or reservation of the claim and need no new invariant.
2. Detail reads across transactions (`service.go:47`): a property of what a
   history page may show of a stick that is archived meanwhile.
