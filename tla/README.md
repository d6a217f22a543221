# A verification project for mestory-core

`mestory-core` is the library every Mestory service uses to check access tokens
and to publish events. Most of it is declarative. What is hard about it is the
JWKS cache: many coroutines share one dictionary of public keys, one lock, one
throttling mark and one remembered error, and an unlucky order of failures,
cancellations and late answers can lock users out, flood the key source or bring
a withdrawn key back. Most of this project is about that cache, about what an
endpoint makes of its answers, and about the second place where failures matter:
events on their way from an outbox, through a broker, to an effect at a consumer.
The rest is about time: how long a token, and the rights written into it, outlive
what `auth_service` has since decided.

The modules are written from the source under `src/mestory_core`. All paths below
are relative to that directory unless they start with `src/`.

## 1. The system: parts, state, interactions

| Component | State it keeps | Operations | Modelled in |
|---|---|---|---|
| Key cache, `auth/jwks.py` `JwksClient` | `_keys`, `_fetched_at`, `_last_attempt_at`, `_last_error`, `_lock` | `get_key`, `_attempt_fetch`, and the decisions `_is_stale`, `_may_refetch`, `_should_attempt_fetch` | `JwksClient`, over `AsyncLock`; promise: `KeyDirectory` |
| Document parsing, `auth/jwks.py` `_fetch`, `_to_pem` | none (a dictionary under construction) | reply → fate and dictionary kid → PEM | `JwksReader`, step by step; `JwksDocument`, at one stroke |
| Rotation of the keys at the source | the published document (outside the library) | publish, answer a GET | `KeyRotation` |
| Token verification, `auth/verifier.py`, `auth/claims.py` | none | `verify`, `verify_access_token`, `remaining_seconds` | `AuthPipeline`; against the clock: `TokenLifetime` |
| FastAPI dependencies, `auth/dependencies.py` | `app.state.access_token_verifier` | `get_claims`, `require_roles`, `require_permissions` | `AuthPipeline`, `AccessControl` |
| Roles and permissions, `permissions.py` | none (a table) | `permissions_for_roles` | `AccessControl`; for accounts that change: `TokenLifetime` |
| Event publishers, `events/publisher.py` | the pool of channels; a line in the log | `RabbitEventPublisher.publish`, `EchoingEventPublisher.publish`; `LoggingEventPublisher.publish` is one line in the log | `EventPublisher`; promise: `EventDelivery` |
| Event contracts, `events/schemas.py`, `events/keys.py` | none (declarations, a map built at import) | `_all_event_types`, `model_dump_json`, `model_validate_json`, the lookup in `EVENTS_BY_ROUTING_KEY` | `EventContract`, used by `EventConsumer`; promise: `EventEffects` |
| Body of an error, `errors.py` | none (two texts) | – | not modelled; its `code` is a `Code` of `AuthPipeline` |
| Categories, `categories.py` | none (an enumeration) | – | not modelled |

How they interact: a request enters `get_claims`, which takes the verifier the
lifespan put on `app.state`; `verify` reads the token's header, awaits
`JwksClient.get_key(kid)` and checks the token with the key it got; the exceptions
of both are turned into 401, 503 or 500 by `get_claims`; the checkers of
`require_roles` / `require_permissions` then answer 403 or admit. All requests of
a process share one `JwksClient`; the only suspension point of the whole path is
inside `get_key`. Events travel separately: an outbox worker of another service
calls `publish`, and takes a return for a delivery. A consumer takes the message
from its queue, looks its class up by the routing key, validates the body as that
class and drops what it has seen before by `event_id`. `auth_service`, which issues
the tokens and is not in this repository, asks `remaining_seconds` how long a token
that was logged out must stay on its denylist.

What makes the parts correct, and what is hard about it:

* **Key cache.** One load at a time and one per window whatever the outcome of
  earlier ones; a cached key survives an outage; a refusal never rests on a cache
  nobody checked; nobody waits for ever. Hard because of the recheck under the
  lock, of the gap between `release()` and the moment the woken waiter runs, of
  cancellation at both awaits, and of four ways a load can end.
* **Document parsing.** Nothing of a partly bad document reaches the cache; the
  errors are of the promised kinds.
* **Rotation.** Answers on the wire are never applied out of order; a new key is
  refused only on the word of a GET that left before it was published; a withdrawn one
  is honoured for less than one TTL and the time a document was on the wire. Hard
  because a reply does not say how old it is.
* **Pipeline.** 401 means a bad token, 503 a bad key source, 500 a bug, whatever
  other requests do meanwhile.
* **Access control.** Roles add up; an unknown role opens nothing.
* **Token lifetime.** Rights that were taken away pass for less than the life of a
  token; a denylist entry is not shorter than the token it stands for. Hard because
  times are rounded and pass between the steps of a logout.
* **Publishers.** What is logged or recorded as delivered is delivered for good;
  channels are not leaked; every event arrives in the end.
* **Event contracts.** Every event is read as what it was written as; it takes
  effect once, with copies, crashes and messages of other releases around it.

## 2. Modules

```
AsyncLock      KeyDirectory                       EventDelivery
    \            /  (refinement)                       |  (refinement)
JwksDocument -- JwksClient ---- KeyRotation        EventPublisher
    |               |
JwksReader          |
                    |
AccessControl -- AuthPipeline                     EventContract    EventEffects
    |                                                  |           /  (refinement)
TokenLifetime                                     EventConsumer
```

`MCx` instantiates module `x` for TLC, `xProofs` holds its theorems. Operators
called "Mutant of D" are plausible wrong versions of the definition D that follows
them; no specification uses them. They record which bug each property is meant to catch.

### JwksDocument and JwksReader

A reply is a record: its `kind` tells how far `_fetch` gets before the `keys`
list (no reply, an error status, no JSON, no object, no list), and `entries` is
the list. An entry is a scalar or an object with a `kid` (a string, absent, a
hashable non-string, or an unhashable list or object) and key material (the PEM
`_to_pem` makes of it, or `BadKey` if it raises). `Outcome` is the fate of a
reply: `"ok"`, `"http"` (`httpx.HTTPError`), `"malformed"`
(`MalformedJwksDocumentError`), `"bug"` (any other exception). `ParsedKeys` is
the dictionary. Both are written declaratively: which entry decides the fate, which
entry of a kid wins.

`JwksReader` is the code that has to find that out: `_fetch` as a state machine that
looks at the reply (`RaiseHttp`, `RefuseBody`, `AcceptBody`), then at the shape of one
entry after the other (`AcceptEntry`, `RefuseEntry`, `BeginReading`), then runs the
dictionary comprehension over the entries (`SkipEntry`, `RefuseKey`, `RaiseUnhashable`,
`InsertKey`) and ends with the check of the empty dictionary (`Conclude`). Nothing
suspends `_fetch` in between, so `JwksClient` uses `Outcome` and `ParsedKeys` for the
whole of it; that this is right is `ParseIsComprehension`.
The one way to `"bug"` the model has is an unhashable kid. An exception of the key
library that `_to_pem` does not list would be another and would meet the same fate.

### AsyncLock (external)

`asyncio.Lock`: `locked()` and the queue of waiters. `release()` clears the flag
and wakes the first waiter; the waiter takes the lock only when the event loop runs
it, and meanwhile `locked()` is false though a newcomer's `acquire()` must queue.
A cancelled waiter leaves the queue from any place.

### JwksClient

A call of `get_key` is a coroutine: the code between two awaits that suspend it
is one action, and there are two such awaits, `acquire()` and the GET.

| Action | Segment of the code |
|---|---|
| `ServeFresh` | step (1): a fresh cache answers |
| `AnswerThrottled` | no load is running and none is due: step (4) |
| `JoinQueue` | `async with self._lock` suspends |
| `StartFetch` | the lock is free: recheck, mark the attempt, send the GET |
| `ResumeFetch`, `ResumeSkip` | the lock is obtained after a wait; the recheck says yes / no |
| `FetchSucceeds`, `FetchFails` | the GET ends: the cache or the error is stored, the lock released, the call answered (steps 3 and 4) |
| `CancelFetching`, `CancelQueued` | `CancelledError` at either await |
| `Finish` | the caller has its answer; the task may call again |
| `Tick` | time passes |

`time.monotonic()` is only ever compared with two thresholds, so the state keeps
*ages*: `docAge` (since `_fetched_at`, saturated at `TTL`) and `attemptAge` (since
`_last_attempt_at`, saturated at `MinRefetchInterval`). `None` and `-inf` are the
saturated ages. Nothing is lost by saturation, there is no horizon, and the state
space is finite without a bound on time. A segment takes no time; a GET takes any.
`_last_error` keeps the kind of the exception; `_respawn` renews an exception of
the same kind and is the identity on kinds.

Two history variables serve properties only: `quiet` (time since the source last
received a GET, independent of the throttling mark) and `refresh` (how the last
attempt ended).

`KeyDirectory` is what a caller may rely on, with no cache, lock, clock or
network: one directory at a time, replaced as a whole, only by a document the
source sent and only while a call waits; a kid of the directory is never refused as
unknown or for an outage, and one outside it never gets a key. The refinement
mapping hides whether a call waits for the lock or for the source.

### KeyRotation

The source publishes the documents of `Rotation` one after the other. A GET is
answered with the document published at some moment of its flight
(`SourceAnswers`), and the answer arrives later or is lost. Every step of the
client is an action of `JwksClient`, taken as it is; the module adds to it what
happens to the document. `asked` and `loaded` are history, and so are the three ages:
`unseen`, how long ago the source stopped showing each document; `onWire`, how long ago
it answered the GET in flight; and `flight`, how long the document in the cache had been
on the wire when it arrived. The client knows none of them: `_fetched_at` is the time the
reply came. Time passes for them also when the client's own ages are saturated.

### AccessControl and AuthPipeline

`AccessControl` holds the role table, `permissions_for_roles` and `Admits`, the
decision of the checkers. `AuthPipeline` composes it with `JwksClient`: each
request is one caller of `get_key`. Nothing but `get_key` suspends a request, so
what precedes it (`EarlyCode`: no credentials, no verifier, no usable header)
belongs to the segment in which `get_key` starts, and what follows it (`CodeOf`:
signature, claims, mapping of the exceptions, the checker) to the segment in which
it answers. A token has a header, a kid, the key that signed it and a payload;
`Rejected` is any payload `jwt.decode`, the type check or the claims model refuse.

### EventPublisher and EventDelivery

`publish` suspends three times: for a channel, for `declare_exchange`, for
`exchange.publish`. Each may raise or be cancelled, and `async with` then gives
the channel back. The echo is written in the segment in which the inner `publish`
returns. Around it, external: the worker (submits a row that is not sent, marks it
when `publish` returns, tries again when it raises, may crash), the broker (takes a
message, writes a persistent one to disk, confirms it, may restart and then lose
what is in memory), the consumer (handles a message and acknowledges it).
It is assumed that the service opens its channels with publisher confirms, which is
the default of the AMQP library, and that the consumer's queue is bound to the
exchange before events are published. A message nobody has a queue for is
not delivered by any publisher.
`EventDelivery` is the promise: delivered first, announced and recorded only then,
and never undone.

### TokenLifetime

One token, one endpoint, one account. `iat`, `exp` and TTLs are whole seconds and
the clock is finer, so an instant is a second and a fraction of it.

| Action | What it stands for |
|---|---|
| `Issue` | `build_access_token` in `auth_service` (external): the rights of the account now, for `Lifetime` seconds |
| `Grant`, `Revoke`, `ToggleSuperuser` | the rights of the account change at `auth_service` (external) |
| `Logout` | a logout request arrives with a token `verify_access_token` still accepts |
| `Measure` | `remaining_seconds` is asked, by now perhaps past `exp` |
| `Deny` | the denylist entry is written with that TTL (external) |
| `Tick` | an instant passes |

`Accepts` is what `jwt.decode` does with `iat` and `exp`, `remaining_seconds` is
`max(exp - int(now), 0)`, and the decision of the endpoint is `Admits` of
`AccessControl`. `admittedAt` is history: the last instant at which the account itself was
entitled. All hosts read one clock; with clocks apart by d, rights would outlive their
withdrawal by d more, since the code gives `jwt.decode` no leeway.

### EventContract, EventConsumer and EventEffects

`EventContract` is the table of event classes with their fields and routing keys, the
walk `_all_event_types`, the map it is made into, and `Dump` and `Validate`, which do
to an event what `model_dump_json` and `model_validate_json` do: all fields are written, a missing
field with a default is filled in, a missing one without refuses the body, an unknown
one is ignored. Fields are names; their values are one datum. `Readings` is what a
consumer may make of a message.

`EventConsumer` is the consumer `src/README.md` shows, in several replicas on one
queue (external but for `Readings`). An event may arrive again long after the first
copy. A worker takes a message, then does one of four things with it: `Apply` (not seen
before), `Skip` (seen), `Reject` (no class, or the body does not fit) or `Fail` (the
service's own handling raises). `message.process()` acknowledges after the
first two (`Ack`) and drops the message for good after the others. `Crash` returns an
unacknowledged message to the queue. That the record of an `event_id` and the effect are one transaction
is an assumption on the consumer. Without it no consumer can promise "once".
`EventEffects` is the promise: an event takes effect once, after it was published,
as what it was published as.

## 3. Runs

All passing runs explore their whole state space. Together they fire every action.

| Run | Instance | What it shows |
|---|---|---|
| `document` | a reply of each kind, every list of ≤ 3 entries, 2 kids, 2 PEMs | `_fetch`, entry by entry, ends as `JwksDocument` says and with its dictionary; what becomes the cache is a nonempty dictionary of PEM texts |
| `document_shape` | same | **finding 1**: an unhashable kid escapes as a bare `TypeError` |
| `client` | 3 calls, 2 kids, TTL 3, interval 2, six replies, one of each fate and documents that differ | single flight, the lock's queue and the order of its waiters, the throttling, the fallback, the refusals, the join, and the refinement of `KeyDirectory` |
| `client_live` | 3 calls, TTL 2, interval 1 | an expired document is retried; the refinement with liveness: every call that waits is answered |
| `client_cold` | 2 calls | **finding 2**: a refusal before any document was loaded |
| `client_stale` | 2 calls | **finding 3**: a refusal from an expired document |
| `rotation` | 2 calls, TTL 2, interval 1, a source that replaces its key by another one | no document is applied out of order; after a good GET a published key is refused only if that GET left before its publication; a withdrawn key is honoured for less than one TTL and the flight of its document after the source stopped showing it, but for the fallback after a failed or cancelled GET; the last rotation is followed in the end |
| `rotation_refused` | same | **finding 4**: a published key is refused from a fresh document |
| `pipeline` | 2 requests at a time out of 6, five replies | who passes; what 401, 503 and 500 mean |
| `lifetime` | one token of 2 s against 5 endpoints, all roles, one unknown role | withdrawn rights and revoked tokens end in time; grants never close a door; an unknown role opens none |
| `publisher` | 2 events that compete for 1 channel | no leak; logged or recorded means delivered; the refinement of `EventDelivery`; every event arrives |
| `consumer` | 2 workers, 2 events in 2 copies, 2 messages of other releases | no event that arrives is lost, whatever dies or fails; the refinement of `EventEffects`; every event takes effect |

**Why the bounds are enough.** Three calls are the smallest number with one that
loads, one that the lock has woken and one that arrives in between, and with a
waiter in the middle of the queue that is cancelled. TTL 3 over an interval 2
separates the two thresholds and makes all their orders occur: a load slower than
the window, a document that expires inside it, a window that ends between two
ticks of the TTL. Ages saturate, so a longer TTL adds no kind of state. Two kids
give one that is cached and one that is not, two PEMs tell the old key of a kid
from the new one. The replies hold one of each fate and the documents that matter:
one kid, two kids, a repeated kid, a renewed key, a kid no token carries. Three
entries per document are one bad entry with one on each side. In `rotation`, two
calls are enough for one load to overtake another: with a lock of its own for each
call (`StartFetchOwnLock`) the directory does go back in this instance. Its two documents
have no kid in common, so every step of the rotation withdraws a key and adds one. The
ages of its history are counted up to `MaxAge` = 3: with a TTL of 2 that tells a document
that came at once (2 is too late) from one that was on the wire for a tick (3 is too
late); for a longer flight the bound says nothing here, and the theorem, which holds for every
`MaxAge`, does. Saturation is sound: the ages on both sides stop at the same number. In `publisher`, two events and one channel are the smallest instance with
contention and with a row that is retried while another is in flight. In
`lifetime`, a token of 2 seconds issued at any moment of the first second expires
before the clock stops at second 3, with two instants in every second, so every
rounding and every delay between the three steps of a logout occurs; the five
guards are a role, an unknown role, a permission of users, one of moderators and a pair
no role below the administrator grants. In `consumer`, the two events have one
shape and opposite meanings, so that a wrong class goes through validation
unnoticed; two copies and two workers are one copy in each hand, and one that comes
after the other was handled. The foreign messages have a key without a class, or come
from an older release and lack a field this one requires; each is sent once. Symmetry on
calls is used in the safety runs `client` and `pipeline` only.

Deadlock is checked everywhere but in `document` and `document_shape`, where
`_fetch` ends, in `publisher`, where an outbox that is all sent leaves nothing to do, and
in `consumer`, where the last copy has been handled.

**Fairness.** `FairSpec` of `JwksClient` assumes of each call that it runs when
the lock has woken it (the event loop is fair) and that its GET ends (httpx gives
every request a timeout). Nobody has to call or to cancel. `StaleIsRetried` speaks
of a service with traffic, and states it as a hypothesis (`Traffic`): time passes,
calls keep coming, and cancellation does not for ever strike each waiter the lock
has just woken. Without that last part the property is false: the woken waiter
can be cancelled before it runs, again and again. `Connected` in `KeyRotation`
adds that not every GET is lost. `FairSpec` of `EventPublisher` assumes that the
worker takes its rows, that the pool serves its waiters in turn, and, with strong
fairness, that failures do not strike the same step for ever. A broker that is
always down delivers nothing, and the docstring of `EchoingEventPublisher` says so.
`FairSpec` of `EventConsumer` assumes that a worker goes on with what it holds,
that the broker passes no message over for ever, and, with strong fairness, that crashes do
not for ever strike the worker that holds a message. Nobody has to publish.

## 4. Findings

1. **An unhashable kid is a 500, not a 503** (`document_shape`; `auth/jwks.py:328`).
   `_fetch` checks the shape down to "an entry is an object" but not that `kid` is
   a string; an array or object there raises `TypeError` in the comprehension.
   The docstring (271–275) names exactly this as what the checks are to prevent.
   The error is kept for the window.
2. **A cancelled first load turns an outage into 401** (`client_cold`; 232). The
   attempt moves the throttling mark, the cancellation records no error, and with
   an empty cache every call in the window ends in `UnknownSigningKeyError`,
   which the docstring (101–102) reserves for a loaded, nonempty document.
   `ColdRefusalOnlyAfterCancel` shows, and proves, that this is the only way.
3. **During an outage the same kid gets 503 or 401** (`client_stale`; 170). With an
   expired, nonempty cache and a failed refresh, the call that led it raises
   the outage; calls in the window are told the kid is unknown, from a document
   that the comment (171) takes to be fresh.
4. **A fresh document is no proof that a key does not exist** (`rotation_refused`;
   211). A key published just after a load is refused with 401 until the
   window ends; `src/README.md:116-117` says of that 401 that there is no such key
   and will be none. `NewKeyWaitsOneWindow` says when that can happen: after a good GET
   only to a key published since that GET left, and only in its window or as it answers. It
   is no bound in time if GETs are slow, fail or are cancelled.

Noticed while modelling, and not counted as disagreements:

* A document whose kids are all numbers or null is accepted and replaces a good cache
  (`auth/jwks.py:344`): the dictionary is not empty, though no token can name its kids.
* `event_id` has a `default_factory` (`events/schemas.py:20`), so a body without it
  validates, under a new id at each delivery, and is never recognised as a copy. Publishers
  of this library always write it (`Dump`), which is why `ProvidesEffects` holds.
* `message.process()` drops what raised. A handler that fails once loses the event,
  hence the alternative in `EveryEventTakesEffect`.
* `ProfileUpdated.account_type` has no default: messages of a release that did not
  have the field yet are rejected for good.

## 5. Proofs

Proved for every number of calls, kids, replies, documents, events, channels, workers
and copies, for every endpoint and set of unknown roles, and for every TTL, interval and
lifetime. The role table and the table of events are those of the source.

**Assumptions**, each checked by TLC in every run of its module: the special
values differ from kids, PEMs and results (`DocumentAssumption`,
`ResultAssumption`); `TTL >= MinRefetchInterval`, which `__init__` enforces, and
`Reply \subseteq ReplyType` (`ClientAssumption`); unknown role names are not in the
table (`AccessAssumption`); requests are well formed, and `NoRequest` and `Rejected`
are no request and no claims (`PipelineAssumption`); the documents of a rotation are good replies
and `MaxAge` is a number (`RotationAssumption`); the replies looked at are replies
(`ReaderAssumption`); `NoChannel` is no channel (`PublisherAssumption`); the guards
are endpoints and the lifetime and the fractions of a second are positive
(`LifetimeAssumption`); ids drawn afresh are ids (`ContractAssumption`); events
have ids of their own, which uuid4 yields, and no class fits a foreign message
(`ConsumerAssumption`).

**JwksClientProofs.** The safety properties are not inductive by themselves: that a
GET leaves only when the source has been quiet for a window follows from the
throttling mark only if the mark records every GET, and that an expired key is
served only after a failure needs to know what a successful load leaves behind. The
inductive invariant is

    IInv == TypeOK /\ SingleFlight /\ AttemptsLeaveTheirMark

`AttemptsLeaveTheirMark` ties the history to the state: the mark is the time
since the last GET; while a load runs the lock is held; a failure has left an
error; a success has left a nonempty document no older than the attempt. The
`TTL >= MinRefetchInterval` of the constructor is what `StaleIsLastResort` rests
on. The action properties follow from `IInv` through lemmas that say which actions
answer a call (`AnsweredBy`), what the answer says of the cache (`VerdictType`) and
which actions send a GET (`FetchesBy`). `NobodyIsForgotten` is proved on its own, from three lemmas on what
joining, taking one's turn and leaving do to a duplicate-free queue
(`JoiningQueue`, `TakingTurn`, `LeavingQueue`). `NobodyOvertakes` adds how far the
place of each other waiter moves (`PlaceIs`, `RemovingOne`): a call that waits behind n others
waits for the load that runs and n more at most. `WaitersAreNotStuck` joins the two
invariants: whenever a call waits for the lock, a GET is in flight or the first in the
queue can run. Fairness is then all that liveness still needs. `ClientProvidesDirectory` maps each
action to an action of `KeyDirectory` or to a stutter.

**KeyRotationProofs.** `RotationRunsClient` shows that beside a rotating source the
client takes only steps of `JwksClient`, so every theorem above carries over. The
invariant `OrderInv` says that only the one GET in flight carries a document, that
it is between what is loaded and what is published, and that after a good load the
cache holds a document published no earlier than the GET left; it rests on
`SingleFlight`. From it follow `RotationIsNotUndone` and, with `RefusalIsChecked` and
`CachedKeyIsServed`, `NewKeyIsSoonKnown`. `WithdrawalIsFollowed` needs the ages. `AgeInv`
says that the document on the wire has been unseen for no longer than it has been on the wire
(`WireAge`: the source showed it when it answered), and that while the client takes its
document for fresh it has been unseen for no longer than `docAge + flight` (`CacheAge`). Both
start at the moment the reply is fixed or arrives and grow together, up to the bound too
(`OlderKeepsOrder`). By `StaleIsLastResort` a key is served from an older document only after a
GET that failed or was cancelled. The term `flight` cannot be dropped: a GET answered just
before a withdrawal, on the wire for a TTL, gives the withdrawn key another TTL.
`RotationProvidesDirectory` carries the promise of `KeyDirectory` over.

**AuthPipelineProofs.** `PipelineRunsClient` does for the handlers what
`RotationRunsClient` does for the source: every step of a request is a step of
`JwksClient` or leaves it alone. The invariant `PipeInv` adds that a task waiting for
a key does so for a request that passed the checks before `get_key`, for the kid of
that request's own token, and has not answered it yet; without it a verdict could
belong to another token. `AnsweredHow` splits the answers into those given before
`get_key` and those judged after it, `JudgedHow` reads each code off the verdict and
`VerdictType`, and the four action properties follow. `PipelineProvidesDirectory` and
`PipelineThrottlesSource` are what `PipelineRunsClient` carries over from the client.

**EventPublisherProofs.** `SentMeansDelivered` is inductive once one adds that a
`publish` that has returned has delivered (`ReturnedIsDelivered`); a confirmation
means delivery because the message is persistent (`ConfirmedIsDelivered`), and
nothing takes a delivery back (`DeliveredStays`). `PoolBalances` is inductive with the
types. `PublisherProvidesDelivery` is the refinement, with and without the echo.
`PublishesAreNotStuck`: a publish that waits for a channel finds one free or in the hands of a publish that
does not wait for one (from `PoolIsAccounted`), and a publish that waits for a confirmation
waits for a message the broker still has or has delivered (`ConfirmationIsDue`, inductive
with the types).

**TokenLifetimeProofs.** Neither property is inductive. `LifeInv` adds to the types that
a token expires `Lifetime` seconds after a second that has come (`IssuedBefore`), that
an account whose token opens the endpoint was entitled when the token was issued or later
(`EntitledSince`), and that what the logout holds, first a TTL and then an instant,
reaches beyond `exp` (`LogoutCoversToken`). The rounding of `remaining_seconds` is used
in one place, where `Measure` establishes the last. The two action properties follow
from `AdmissionIsMonotone` and `ForeignRoleOpensNothing`.

**EventConsumerProofs.** `RoundTrip`: an event of any of the 14 classes is read as itself and
as nothing else, even with fields of a later release added. It rests on three facts about the
tables: no two classes have one key (`KeysDiffer`), the walk yields every class
(`WalkIsComplete`), the map inverts the keys (`MapInvertsKeys`). `ReadingIsOwn` carries
it over to whatever a worker can hold; with the invariant that nothing is held or has taken
effect that was not sent, it gives the refinement `ConsumerProvidesEffects`.
`ConsumerLosesNothing` needs to know why a worker may acknowledge: `DoneIsApplied` says that
the event of a message a worker is done with has taken effect, in this worker's hand or in
another's before (`SeenIsApplied`, where ids of their own are used). With it `NoEventIsLost` is
inductive (`CareInv`).

**JwksDocumentProofs, JwksReaderProofs.** What an accepted document is, and that a
refused entry cannot be made good by later ones, for lists of any length. That `_fetch` finds
out what `JwksDocument` says would be an induction over the list if the loops were
recursive operators; as a state machine it is an invariant:

    ReaderInv == ReaderTypeOK /\ NothingBuiltEarly /\ CheckedSoFar /\ ReadSoFar
                     /\ ParseIsComprehension

`CheckedSoFar` says that the first loop goes on only past objects, `ReadSoFar` that no entry
read so far stops the comprehension and that the dictionary holds their kids, each with the key
of its last entry. When the second loop ends, what was read is all there is (`AllIsTaken`);
when it stops early, the entry it stops at is the first that could stop it (`FirstBreakIs`).
So `ReaderImplementsParse` holds for every reply, and `ReaderYieldsDocument` with it.

**AccessControl**, in `TokenLifetimeProofs`: admission is monotone in the roles
(`AdmissionIsMonotone`), an unknown role opens only endpoints that name it
(`ForeignRoleOpensNothing`), and the table is a hierarchy (`TableIsHierarchy`).

**Model-checked only.** All liveness (`StaleIsRetried`, `ProvidesLiveDirectory`,
`RotationIsFollowed`, `EveryEventArrives`, `EveryEventTakesEffect`), which the prover does not
handle. Every invariant and action property of the runs, and every refinement without fairness,
is a theorem.

## 6. Not modelled

* **Clocks that differ** between the host that issues a token and the one that checks it.
* **Audience, issuer, token type and algorithm** each on their own: a payload that
  `jwt.decode`, the type check or the claims model refuse is `Rejected`. All these lead to
  one and the same 401.
* **The body of an error** (`ProblemDetail`): two text fields, of which the `code` is
  modelled.
* **A ttl below the interval**: `__init__` refuses it (`auth/jwks.py:67`) and the models
  assume what it ensures. Without it `StaleOnlyAfterFailure` is false: the document expires
  inside the window and expired keys are served though no GET has failed.
* **The walk of `_all_event_types`** as a recursion: `all_event_types` is its result.
* **Texts**: `detail`, `WWW-Authenticate`, log messages, role descriptions.
* **`_respawn`'s tracebacks**: what it renews is modelled by the kind of the
  exception; the growth of `__traceback__` it avoids is memory, not behaviour.
* **`LoggingEventPublisher`**: one write to the log.
* **Values and types of event fields**: a field is a name; fields of one name have one
  type in every class.
* **Categories**: an enumeration with no behaviour.
* **Queue bindings**: which keys a consumer asks for is not in this repository.

## 7. Plan

Done, in this order: `JwksDocument`, `AsyncLock` and `JwksClient` with its
properties, `KeyDirectory` and the refinement, the proofs of the client,
`AccessControl`, `AuthPipeline`, `EventPublisher` with `EventDelivery` and its
proofs, `KeyRotation` and its proofs, the proofs of the pipeline; then
`EventContract`, `EventConsumer` with `EventEffects` and its proofs, `TokenLifetime`
and its proofs, the order of the waiters in `JwksClient`, and `JwksReader` with its
proofs.

Left:

1. `TokenLifetime`: a clock of the checking host that lags, with the bound it
   adds to `StaleRightsExpire`.
2. An abstract specification of what the handlers promise a client of the service, refined
   by `AuthPipeline` as `KeyDirectory` is by `JwksClient`.
3. `KeyRotation` composed with `TokenLifetime`: how long a token lives whose key has been
   withdrawn from the source.
