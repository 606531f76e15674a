# Formal models of docker-playground

TLA+ models, TLC runs and TLAPS proofs of the programs in this repository that
have logic of their own: the virtual waiting room (`queue-based-site-access`),
the banking API with its authentication (`api-keycloak-security`) and its copy
behind a token wrapper, in-place MFA enrollment and a browser page
(`api-keycloak-mfa-email`), the users service over PostgreSQL replicas
(`postgresql-db-replicas`), and the RabbitMQ producer and consumer
(`rabbitmq-producer-consumer`).

Run a model with `tlc -config <cfg> <module>`, check the proofs with
`tlapm` on the modules whose names end in `Proofs`.

## The system

| Component | State | Operations | Interacts with |
|---|---|---|---|
| Waiting room, store and scripts (`queue-service/internal/queue`) | Redis: capacity, active set, queue list, session hashes, heartbeat keys, timing history | six Lua scripts and five single commands | called by handlers and worker, concurrently |
| Waiting room, handlers (`internal/handler`) | none; a chain of Redis calls per request | gate, queue page, position, heartbeat, leave, capacity, release | browsers, target site |
| Waiting room, worker (`worker.go`) | none | admission tick, reaper tick | Redis |
| Account service (`api-keycloak-security/api/internal/service`) | PostgreSQL: accounts with a balance, transaction history | deposit, withdraw, create account, list | pool of connections, row locks |
| MFA enrollment (`api-keycloak-mfa-email/api/internal/enrollment`, `handler/enroll.go`) | process memory: pending codes, step-up windows | start, verify, step-up check | mail server, Keycloak admin API |
| Token wrapper (`api-keycloak-mfa-email/authz`) | a cache of Keycloak's keys | validate with one forced refresh, sign headers, proxy tokens | Keycloak, browsers, API |
| Page (`api-keycloak-mfa-email/nginx/spa/app.js`) | session storage: tokens; the dialog and the request it will replay | write, enroll, refresh, replay, log in | wrapper, API |
| API authentication (`api-keycloak-security/api/internal/auth`, `cmd/server`) | a cache of Keycloak's keys, the API's key pair | start-up fetch, background refresh, decide on a request | Keycloak, clients |
| Users service (`postgresql-db-replicas/client`) | a table with a sequence on the primary, replicas that follow | create with or without an id, delete, read from a replica | PostgreSQL, dbresolver |
| RabbitMQ demo (`producer.py`, `consumer.py`) | a durable queue; unacknowledged deliveries | publish, close, consume, acknowledge | the broker |
| Circuit breaker and Dapr demos | proxy or sidecar state | short clients | third-party services |
| Other directories | none | configuration of third-party software | |

What is hard in it, and hence what the properties are about (`PROJECT.json`
lists each hazard at its line):

* a request handler of the waiting room makes up to five Redis calls; other
  requests, the worker, the administrator, expiries and crashes come between;
  errors of Redis calls are dropped and read as "no";
* deposits and withdrawals are four statements with a row lock, on a bounded
  pool, with money rounded in two places;
* an enrollment reads state it has already deleted, and merges a record that
  an administrator reads and writes back in two calls as well;
* keys, tokens and signatures are cached, expire or are replaced while requests
  that depend on them are between two calls;
* the API of `api-keycloak-security` never asks Keycloak about a request, so
  its keys lag: for how long depends on the library's refresher, slow answers and
  failures;
* an id in the body of a POST bypasses the sequence of the users table, and reads
  go to replicas that lag by different amounts;
* neither a published message nor an acknowledgement has arrived when the call
  that sends it returns; a message may be delivered again, or die with the broker;
* after an accepted code the page goes on whatever fails: the claim in a new
  token and a window in the API's memory stand in for each other.

## Modules

| Module | Models | Checked by |
|---|---|---|
| `QueueStore` | the Redis state and every script and command as an operator on it | `QueueProofs`, all queue runs |
| `QueueService` | handlers, worker and environment over `QueueStore` | `MCQueueService`, `QueueProofs` |
| `WaitingRoom` | what the waiting room promises: visitors enter below a limit, wait, depart | `ImplementsRoom` |
| `QueueClaims` | statements of the README and of comments that do not hold | two violation runs |
| `AdmissionEta` | the admission history and `CalculateETA` | `MCAdmissionEta`, `EtaProofs` |
| `Money` | NUMERIC(15, 2) rounding | through the two below |
| `Bank` | what the account service promises: atomic deposits and withdrawals | `ActsAtOnce` |
| `BankLedger` | the transactions of `service/account.go` statement by statement | run `bank`, `BankProofs` |
| `MfaEnrollment` | the enrollment store, its handlers, the calls to Keycloak | through `StepUpPage` |
| `MfaClaims` | a comment about enrollment that does not hold | one violation run |
| `StepUpPage` | the page and the `RequireMFA` gate, composed with `MfaEnrollment` | `MCStepUpPage`, `StepUpProofs` |
| `TokenWrapper` | the wrapper's key cache, validation, token proxy and signed headers, and the API's check of their age | `MCTokenWrapper`, `WrapperProofs` |
| `ApiGate` | the API's key cache and key pair, and what it answers to a token | run `api_gate`, `GateProofs` |
| `UserReplicas` | the users service, the primary's sequence and log, the replicas | run `replicas`, `ReplicasProofs` |
| `WorkQueue` | producer, consumers and broker | run `work_queue`, `WorkQueueProofs` |
| `QueueProofs`, `BankProofs`, `WrapperProofs`, `StepUpProofs`, `GateProofs`, `ReplicasProofs`, `WorkQueueProofs`, `EtaProofs` | theorems | TLAPS |

Definitions marked "Faulty" are variants of the definition that follows them
with a plausible mistake; no specification uses them. Each property of a
passing run is violated when the variant named in `PROJECT.json` takes the
definition's place.

### Waiting room

`db` is the Redis state. `proc[p]` says which Redis call goroutine `p` makes
next, in which handler, for which session. An action is one round trip: it
receives the outcome `o` (replied, not delivered, reply lost, reply lost and
sent again), changes `db` as the script does, and moves `p` to the next call as
the handler does with that reply, or with the zero value it uses on an error.
A handler's first call is part of the action that receives the request.
`Cancel` is a client that goes away; `Crash`, `Start` and `RedisLosesData` are
restarts. Pages are not modelled: any browser may send any request at any time.

Sessions have identity, no content. A session may have several entries in
the list (it can leave with two tabs open, lose its hash, and come back). The
history is represented by its length, and by its times in `AdmissionEta`. There
`Timestamps` says what the sorted list is (its i-th entry has fewer than i entries
below it and at least i up to it), which `MCAdmissionEta` compares with `SortSeq`, and
`Total` is the loop of `CalculateETA` as a recursive function.

### Account service

A request runs begin, select-for-update, update, insert, commit; each may fail.
Money is counted in mills so that rounding is visible: an amount below half a
cent violates `CHECK (amount > 0)` after rounding, a half cent may be rounded
either way in the balance, since `float64` sums of decimals lie on either side
of it, and always up in the history. `Conns` bounds the pool: a request holds
its connection while it waits for a row lock. A killed process or a cancelled
request is an `Abort` of its transactions.

`api-keycloak-mfa-email/api` contains the same service without account
creation; the model stands for both.

### MFA enrollment

A step is one critical section of `Store.mu` or one call to another service.
Durations are left out: a code or a step-up window may lapse at any time. The
Keycloak record holds the email and `mfa_enabled`; the user cache is what tokens are
made from, as the comment before `clearUserCache` describes it. An administrator
gets the record (`OpenForm`) and later puts all of it back, as it was then
(`EditUser`) or without the enrollment (`ResetUser`, which is `make reset-carol`);
`wiped` remembers whose enrollment was undone that way. A user's record is in one
administrator's hands at a time. All users begin without MFA, as carol does; the
realm's alice and bob, who are enrolled from the start, are outside `Init`. `policy`
is the realm setting that `main` turns on at start-up and without which Keycloak
rejects the attribute; a failure of that call is only logged, so it is an initial
state of its own, with one fault spent.

### Page and gate

`StepUpPage` extends `MfaEnrollment`: a request of the API belongs to the tab of
that name, and a step of the tab that calls the API is that action of
`MfaEnrollment` together with what the page does with the answer. A tab keeps
the `mfa_verified` claim of its tokens and, separately, `hasMFA`, which the page
computes when it is loaded and does not update after an enrollment (its write
buttons then open the dialog once more, until a reload). A refresh
may be refused, after which the page goes on with the tokens it has, or its fetch
may reject, which leaves the dialog open and replays nothing. The dialog is left,
and the page reloaded, only while nothing is awaited: Cancel does not stop the
handler that awaits an answer, which ends as it would have, so what is left out
is the use of the page in the meantime, and a reload that drops the answer. Access tokens do not expire here; that is
`TokenWrapper`'s subject.

### Token wrapper

A key of Keycloak is a number, a token the key it was signed with and its `exp`. A
request is between two calls: waiting for a grant, before the first parse, before
the forced refresh, before the second parse, between the check of `exp` and the
stamp (two readings of the clock, with seconds in between if need be), or on its way
to the API with signed headers. `jwk.Cache` fetches in the background as one more
process; an answer may be stored after a later one. The API's clock is off by a
fixed `drift`; Keycloak's and the wrapper's are one. A restart of the wrapper cuts
off the requests that are in it and fetches the keys again. Decryption is left out:
the key comes from the environment and survives restarts.

### API authentication

No request changes anything, so a request is an operator, `Answer`, that
decrypts, parses and looks for the role as `Middleware` and `RequireRole` do. The
actions are those that it depends on: the start-up, which ends the process if
Keycloak cannot be reached, the refresher, a new deployment with another key
pair, a change of Keycloak's keys and the issue of tokens. Time is kept as
remaining and elapsed seconds, so that nothing grows: `age` stops at `MaxAge`, past
every bound that a property mentions.

`NewKeyCache` passes `JWKS_REFRESH_INTERVAL` to `WithMinRefreshInterval`, which is a lower
bound. `jwk.Cache` waits longer if the headers of the answer ask for it (`Longest`)
and finds keys that are due only when it next looks (`Window`, a quarter of an hour
unless `WithRefreshWindow` is given, which the code does not do). So the time to
the next refresh is any between `Interval` and `Period`, their sum, and `Lag` is a
multiple of `Period`: with the compose file's 300 seconds the keys may lag by about
twenty minutes without any failure, not by the five that the demo's README names.
A fetch takes at most `FetchTime`; nothing in the code promises that, the bound `Lag`
is what follows if it holds.

### Users service

A handler runs one statement, hence one action. `log` is the table after each
write, and a replica is a place in it. `PostUser(0)` is a body without an id, for
which gorm leaves the column to the sequence; any other id is inserted and the
sequence not moved. Reads are operators on a replica; every error of
`GET /users/{id}` is answered by 404.

### RabbitMQ

The broker is modelled from what the programs ask of it: a durable queue,
persistent messages, `prefetch_count=1`, explicit acknowledgements. `wire` and `acks`
are what was sent and has not arrived, `disk` is what a crash leaves, written at
any time. A cut connection is noticed by the consumer later: until then it goes
on with what it has, and the broker may give the message to another.

## Runs

Passing runs:

| Run | Instance | Shows |
|---|---|---|
| `queue` | 2 sessions, 2 handlers, worker, one fault anywhere, expiring hashes, list of 2 | no interleaving admits past the limit, makes a hash say active without a slot or queued without an entry, or moves a waiting session back, also with failed, lost and repeated calls, crash and data loss; every step is one of `WaitingRoom` |
| `queue_liveness` | 2 sessions, 1 handler, list of 3, one fault | a free slot does not stay free while somebody waits; a holder without a heartbeat goes or is heard of |
| `eta` | 2 admitters, history of at most 6, clock to 5 | the estimate is the mean distance of admissions for each place ahead, also with times out of order |
| `bank` | 3 requests, 2 accounts (one without a row), 2 connections, 1 fault, amounts 0, 0.5 and 2 cents | transactions act at once; balance and history agree but for half cents; no overdraft; callers are told what happened; nobody waits for a waiter, and again and again no request is under way |
| `wrapper` | 2 requests, 1 browser, clock to 3, drift of a second either way, 1 change of keys, 1 fault | a change of keys refuses no good token; an expired token is served less than the skew longer, plus what passed between the check of `exp` and the stamp; the cache catches up |
| `step_up` | 2 tabs of one user, an administrator, 2 enrollments, 2 codes, 2 faults | one window per code, bounded wrong tries, no stale token; the gate opens only after a code; a verified user is enrolled; the replay is refused only if two things go wrong; no tab loses the MFA claim but by an administrator |
| `api_gate` | 1 client, 2 changes of keys, 1 deployment, 1 fault | the keys lag for a bounded time; a live token is refused only for a withdrawn key, within the lag, or after a deployment; no refresh locks out who was let in; the API ends up with the current keys |
| `replicas` | 2 replicas, 4 ids, 4 writes, 2 faults | a POST collides at most once per id that a request brought; the id of a deleted user comes back only if some request has brought it (and then also in a POST without an id); the replicas end up with the primary's answers |
| `work_queue` | 3 messages, 2 consumers, 1 lost connection, 1 crash of the broker | nothing is lost but what a crash found unwritten; the producer's report is true; repeats and overtaking are bounded; what is on disk is printed in the end |

Violation runs, each against a sentence of the repository quoted in
`PROJECT.json`:

| Run | The code does otherwise |
|---|---|
| `claim_fifo` | a newcomer overtakes the line, `luaTryAdmit` never looks at it |
| `claim_atomic` | the gate deletes the hash of a session that has just been admitted again |
| `claim_mfa_email` | `EnrollVerify` writes the token's email, not the one of `/start` |

### Bounds

Named constants, all given in the cfg files.

* `queue`: two handlers and the worker suffice for every race between a read and
  a later write of one session, and a second session can fill the room while the
  first waits. All safety properties of this run are proved for any number. `MaxList`
  holds visits back when the list is full, since the list is unbounded in Redis;
  `MaxScan`, 50 in the script, is small so that a scan that ends early occurs.
* `bank`: `MaxMoney` is small so that a deposit can exceed the column; amounts
  that round to nothing are left to the theorems. Three requests are the least
  with which two can hold all connections while one waits.
* `wrapper`: the token's life and the skew are one second each, so that both
  limits lie inside the clock's range, and the one change of keys may fall between
  any two steps.
* `step_up`: two faults are needed to reach a replay that is refused, two
  enrollments for one to run into the other. An administrator may act any number
  of times.
* `api_gate`: clients do not influence one another, so there is one. Within the one
  to three seconds between fetches (`Interval` 1, `Longest` 2, `Window` 1) a change of
  keys can fall before, in and after a fetch; a token lives for two, so that it can
  outlive one. `Lag` is tight, a bound smaller by one is violated.
* `replicas`: four ids let a request choose an id ahead of the sequence and the
  sequence reach it; four writes allow to create, delete and create again.
* `work_queue`: three messages are the least with which one can overtake two.

`MaxFaults` counts faults of any kind. Sessions and handlers are symmetric in
`queue`; runs with liveness use no symmetry. Deadlock checking is off where the
bounds, or the finite number of requests, let a behaviour end.

### Fairness

* `queue_liveness`: the worker's calls are weakly fair, its loop never stops;
  the two ticks are strongly fair, because `select` chooses at random among
  channels that are ready and a ticker keeps one tick. Nothing is assumed
  of handlers. `GhostIsReaped` assumes that the worker is idle again and again:
  while `admitPending` always finds somebody to admit it never returns, and
  the code gives no bound for it.
* `bank`: a request that can make its next statement does so. There are
  finitely many requests, so a waiter is passed over finitely often.
* `step_up`: a handler of the API that has begun goes on, since each of its calls
  returns or times out. Users click if they like.
* `wrapper`: a handler goes on to its next call, and the refresher of `jwk.Cache`
  never stops. Changes of keys and faults are finitely many; `CacheCatchesUp` says
  what holds after the last.
* `api_gate`: compose starts the API again, its refresher runs on, time passes.
* `replicas`: a replica that is up replays, and compose restarts one that is not
  (`restart: always`). Nobody has to send a request.
* `work_queue`: the broker reads what was sent; a consumer goes on and is restarted
  (`restart: unless-stopped`). The producer may stop at any time (`restart: "no"`),
  and nothing is assumed of the disk.

## Proofs

For every value of the constants (under the named assumptions
`StoreAssumption`, `ServiceAssumption`, `MoneyAssumption`, `LedgerAssumption`,
`WrapperAssumption`, `NoTokenAssumption`, `EnrollmentAssumption`, `GateAssumption`,
`ReplicasAssumption`, `WorkQueueAssumption`, `EtaAssumption`, which TLC evaluates for each
instance):

* `QueueProofs`: `TypeCorrect`, `ActiveHashTheorem`, `QueuedHashTheorem`,
  `LimitTheorem`, `PlaceTheorem` and `RefinementTheorem`. The inductive invariant
  `IInv` is the type invariant and `Sound(db)`, the two statements about hashes
  together with well-formed lists: neither is inductive without the types, since
  the reaper's filter is defined by ranks of list places. One lemma per script
  says that it keeps `Sound`; `CallKeepsIInv` then covers each of the four
  outcomes of a call once, so an action only has to name its script. The least
  place of a set and the filter `KeepIn` have lemmas of their own; a run checks
  `KeepIn` against `SelectSeq`. `StoreStep` says that whatever a goroutine does
  and however its call fares, Redis goes from `d` to `e` by one command or script
  (`Effect`), and the three statements about steps are then shown script by
  script. For the places in line (`KeepsPlaces`) every list operation moves the
  entries of those who go on waiting ahead or leaves them: `luaAdmitNext` drops
  only entries without a hash and the one it admits, the reaper only entries of
  sessions whose hash it deletes. For the refinement each script is `Enter`,
  `Wait`, `Depart`, `SetLimit` or `Reset` of `WaitingRoom` (`RoomStep`); a slot
  holder who joins the list, or loses the hash only, is a stutter. No invariant
  but the types is needed for it.
* `EtaProofs`: `EtaTypeCorrect`, with the lemma `PushProperties` (LPUSH and LTRIM
  keep the order of the history and lose only the oldest push), and `EtaIsMean`.
  Two facts carry the latter. Every place of the sorted list is taken
  (`EveryPlaceIsTaken`): the least number with so many entries up to it is itself an
  entry, so the list has all its places, the first an earliest time and the last a
  latest (`TimestampsProperties`). And the loop telescopes (`TotalTelescopes`): the
  closed form solves the recursion's equation, so the function exists, and a least
  place where it differed from the closed form would contradict the equation. The
  least number of a set of naturals takes the place of an induction.
* `BankProofs`: `TypeCorrect`, `BooksTheorem`, `Atomicity`, the refinement of
  `Bank`, `AnswersTheorem` and `NoCircularWait`. The invariant adds what a
  transaction relies on between its statements: it holds the row lock, its account
  exists, the balance it read is the committed one, the value it is about to publish
  is that balance moved and rounded, and rows belong to answered requests.
  `BooksAgree` alone is not inductive: a commit could publish a stale value. Lemmas
  on `Round` say that rounding commutes with whole cents but for a half.
  `AnswersAreTrue` is inductive together with it, since a request without an answer
  owns no row. `NobodyWaitsForAWaiter` needs the converse of the first part,
  `LocksAreHeld`: a locked row belongs to a transaction past its SELECT that works
  on that row, so every way out of a transaction must free it. A holder then has all
  it needs, and when all connections are taken there is a transaction, which goes on
  or waits for a holder. It is the part of `EveryRequestIsAnswered` that needs no
  fairness, for any number of requests.
* `WrapperProofs`: `TypeCorrect`, `RotationTheorem`, `FadesTheorem`, the last two
  action properties. The invariant says what a request carries from one call to the
  next: its token's key is one Keycloak has or had, a key that it fetched is no
  older than the token's (the request had its token when it fetched), and the token
  was valid at the time `chk` of its check, which is not after the stamp. Without
  the second part the forced refresh could bring a key that does not fit a good
  token.
* `StepUpProofs`: `TypeCorrect`, `WindowTheorem`, `WrongTriesTheorem`,
  `FreshTokenTheorem`, `GateTheorem`, and `ClaimTheorem` and `ReplayTheorem` of
  steps, for the page composed with the API. A step of the page is a step of
  `MfaEnrollment`, a fault elsewhere, or leaves the servers alone (`PageStep`), so
  the invariant of the servers, `EInv`, is shown once. `WrongTriesAreBounded` needs
  the tries that a pending code has left; `ClaimIsKept` needs that a tab's claim is
  backed by the record and not contradicted by the cache unless an administrator
  took it back, which in turn needs that the cache is never ahead of the record, and
  that a form which says enrolled was read of a record that still does
  (`FormIsPast`). `ReplayIsServed` needs `Guaranteed`: from the accepted code to the
  replay a tab has two guarantors, the window and the record or the token made of
  it, at every step, and each fault, lapse or reset takes away one at most, also
  when another tab of the user enrolls at the same time. `GateOpensAfterCode` needs
  `Earned`: who has a window, a record that says so or an enrollment under way has
  entered a code, whatever other users' requests do; a tab's claim leads back to the
  record.
* `GateProofs`: `TypeCorrect`, `LagTheorem`, `RefusalTheorem`,
  `AcceptedTheorem`. The bound on the lag is not inductive: `Waits` says how much
  of it is left for the refresh to come or under way, `Missed` that an answer
  which is out of date when it arrives leaves room for another refresh. The third
  theorem adds `Handed`, that no login or token is for a key pair of a deployment to
  come; the fourth `Order`, that answers are stored in Keycloak's order, so that a
  late one never puts an older key in the place of the current one.
* `ReplicasProofs`: `TypeCorrect`, `CollisionTheorem`, `ReuseTheorem`. Ids at or above the
  sequence came with requests (`Ahead`), and there were no more collisions than
  such ids that the sequence has passed (`Spent`): it passes each once. For the
  third theorem `EverAhead` says the same as `Ahead` of every user there ever was.
* `WorkQueueProofs`: `TypeCorrect`, `NothingIsLostTheorem`, `SentTheorem`,
  `RepeatsTheorem`, `OvertakingTheorem`. The invariant: what is acknowledged or
  about to be was printed (`Handled`), what was ever on disk and is not was
  printed (`OnDisk`), and what the producer has published is on the wire or taken
  by the broker (`Sending`). The two bounds add that messages are read in order
  (`InOrder`) and that a consumer has one at a time (`Prefetch`). The repeats are
  counted by the places where a message waits to be printed, queue or inbox, less
  one for each message that was never printed (`Spare`): only a lost connection
  makes one, a repeat uses one up (`SpareIsPaid`). `repeats` is a variable that
  only counts what was printed again; no action looks at it. For the overtaking,
  the earlier messages that are not printed are each with another consumer
  (`BehindIsBounded`).

Only model-checked: the liveness properties (`FreeSlotIsFilled`, `GhostIsReaped`,
`EveryRequestIsAnswered`, `CacheCatchesUp`, `VerifiedUserIsEnrolled`, `StaysUpToDate`,
`AnswersConverge`, `StoredIsPrinted`), which rest on fairness and on what is enabled;
and, on short lists, that `KeepIn` and `Timestamps` are the standard filter and sort.
Every other property of a passing run is a theorem.
The types of `ApiGate`, `UserReplicas` and `StepUpPage` are proved and not checked by
a run as well.

## Not modelled

Rendering, logging and configuration; the read-only endpoints (they change
nothing, what they read is covered where a property needs it); the retry loop
of `connectRedis`; token cryptography; the cached admin token of the Keycloak
client; the command line tool that decodes a token; the part of
`authz/internal/jwe` that has no caller (`FetchPublicKey`). The
circuit breaker's consumer only displays what it observes of a proxy that is
third-party software, and keeps nothing; the Dapr programs are a few lines around
a sidecar. The remaining directories configure third-party software;
`PROJECT.json` gives the reason for each.

## Plan

1. Done: waiting room, account service, API authentication, enrollment, page,
   token wrapper, users service, RabbitMQ, as above.
2. Done: every safety invariant, action property and refinement of the passing runs
   is proved.
3. Left, models: the cached admin token of the Keycloak client.
