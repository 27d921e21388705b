# A formal model of the marketplace microservices

The repository is a small marketplace: an `api-gateway` in front of
`users-service`, `products-service`, `checkout-service` and `payments-service`
(NestJS, each with its own PostgreSQL database), and a `messaging-service`
(RabbitMQ) between the checkout and the payments. This directory holds TLA+
models of the parts whose correctness depends on interleavings, failures and
retries, the TLC configurations that check them, and TLAPS proofs.

`tlc -workers 2 -config X.cfg M` runs a check, `tlapm M.tla` checks proofs.
`PROJECT.json` lists the runs, the theorems, and for every definition the lines
of the source it stands for.

## The system

A client adds and removes products in its cart and checks it out through the
gateway. The checkout service stores the order and publishes a payment message
to the exchange `payments` with the routing key `payment.order`. The instances
of the payments service consume `payment_queue`, charge the order at a simulated
payment gateway and store the payment. Messages that cannot be processed end in
a dead-letter queue, which operators inspect and empty over HTTP.

| Component | State | Operations | Talks to |
| --- | --- | --- | --- |
| api-gateway: circuit breaker | a map of circuits | `executeWithCircuitBreaker`, `onSucess`, `onFailure` | wraps every proxied call |
| api-gateway: proxy | fallback cache | `proxyRequest` (circuit, retry, timeout, HTTP), fallbacks | the four services |
| api-gateway: routes and guard | the identity of a request | registration, login, validation of tokens, forwarding | the proxy, users-service |
| api-gateway: health checks | last results, one circuit per service | probes of `/health`, the overall status | the services |
| checkout: cart | tables `carts`, `cart_items` | `addItem`, `removeItem`, `getActiveCart` | products-service, PostgreSQL |
| checkout: orders | table `orders` | `checkout`, queries | PostgreSQL, RabbitMQ |
| checkout: broker connection | one channel | connect at the start, `publishMessage` | RabbitMQ |
| payments: processing | table `payments` | `processPayment`, queries | PostgreSQL, payment gateway |
| payments: broker connection, consumer | connection, channel, subscription | connect, subscribe, ack, nack, dead-letter | RabbitMQ |
| payments: dead-letter queue | none of its own | peek, reprocess, reprocessAll, discard, purge, stats | RabbitMQ |
| payments: metrics | counters | counting | the consumer |
| messaging-service | main, retry and dead-letter queues | dead-lettering, TTL, x-max-length | the two services |
| users-service | table `users` | register, login, validate-token, queries | PostgreSQL |
| products-service | table `products` | create, queries | PostgreSQL |

### What is hard here, and what makes each part correct

- **Payments.** Several instances may get the same order: after a lost ack, a
  crash, a reprocessing or a second publication. The code looks the payment up,
  inserts a pending row (unique `orderId`), charges, and saves the outcome, with
  an await between each. Correct: no order is charged twice, a stored decision
  is final and agrees with the charge.
- **Messages.** Channels close, processes die, TTLs fire and a bounded queue
  evicts. Correct: a routed order is never lost, the broker and the handlers
  agree on who holds a message, and no message is stuck.
- **Dead-letter requests.** Each is a loop of get and nack over a queue that
  changes meanwhile. Correct: nothing lost or left held, duplicates bounded,
  every request ends, and a 404 means that the message is not there.
- **Cart and checkout.** Transactions under READ COMMITTED interleave statement
  by statement. Correct: one active cart, a product once in it, a total that is
  the sum of its items, one order per cart with the cart's total, at most one
  payment message per cart, no ring of waiting transactions.
- **Gateway.** Overlapping calls share a circuit that each reads once and
  reports to much later, and a timed-out request goes on. Correct: the circuit
  agrees with the outcomes it got, a client's answer agrees with what happened,
  every call ends, and the circuit closes once the service is back.
- **Accounts and identities.** A registration looks for the e-mail, hashes for a
  long time and inserts; the gateway tries it again while the first attempt
  still runs. The guard asks the users-service who a token belongs to through
  the same proxy, with its caches and fallbacks. Correct: an e-mail gets one
  account, an answer is true when it is given, and nobody is forwarded as
  somebody else.
- **Health.** Health checks overlap and their results arrive in any order.
  Correct: a report agrees with its own probes, every check ends, and the stored
  health follows a service that recovered.

`PROJECT.json` lists each hazard at its line, with the properties that cover it
or the reason why none does.

## The modules

```
OrderPayment <--implements-- PaymentsService <--+
                                                +-- PaymentPipeline
             Broker <--extends-- DlqService <---+
CartOrders      <--implements-- Checkout <--extends, implements-- CheckoutFlow
CircuitBreaker  <--implements-- GatewayProxy, HealthChecks
AccountRegistry <--implements-- UserAccounts <--instance of-- GatewayAccess
```

### PaymentsService (payments.service.ts, payment-consumer.service.ts)

`payments[o]` is the row with the unique `orderId` `o`, `charges[o]` counts the
calls of the payment gateway that took effect, `step[i]` is the await instance
`i` is at. `Receive` parses and validates; `Lookup`, `SavePending`, `Charge`,
`SaveOutcome` are the four awaits of `processPayment`; `DatabaseError` fails any
query, with or without its effect in the database (an answer can be lost after
the commit); `Settle` ends the handler; `Crash` and `Restart` may happen
anywhere. Money is in cents; the gateway's rules (limit, cents `.99`) are
translated as they are. `OrderPayment` is the abstract promise: register, charge
once, conclude.

### Broker, DlqService (rabbitmq.service.ts, dlq.service.ts)

`Broker` models the three queues the payments service declares: sequences of
messages, each with the order it names, its count and reason of deaths and the
channel that holds it. Publishing over `x-max-length` evicts the oldest ready
message, `ExpireMain`, `ExpireRetry` and `ExpireDlq` are the TTLs, a rejected
message goes to the retry queue, and the retry queue dead-letters to the
dead-letter queue as the code declares it. Durations are abstracted: a TTL may
fire at any time. The broker's own behaviour is external code, modelled as the
services use it.

`DlqService` models the loops of the five operations. `Start` reads the number
of ready messages, `Get` fetches one, `PutBack` is nack with requeue, which
returns it to the head of the queue, `Republish` followed by `AckRepublished` is
a reprocessing. `Abort` is a lost channel: a publication that fails is only
logged and its ack follows, but what makes it fail is the channel both use, so
the ack fails with it and the message stays. An ack that was written and never
reached the broker leaves the queues as `Abort` does; only the HTTP answer differs,
which is left out, as is what a peek shows.

### PaymentPipeline

Composes both with the connections: `link[i]` says whether instance `i` is
connecting, consuming, has a channel that consumes nothing (it gave up
subscribing before the connection was there), or has no usable channel. A closed
channel is never reopened by the code, so only `Restart` leaves `"dead"`.
`Deliver` respects prefetch 1; `Ack`, `Nack` and `DeadLetter` settle what the
handler did on a channel that stays open. `LoseSettlement` is a channel lost
before the broker takes what the handler last wrote to it: the message becomes
ready again although its handler is over, and of a dead-lettering, which publishes
first and then acks, the publication may have arrived, so that the order is in
both queues. `SettleOnClosedChannel` throws and ends the process. `Host[r]` is
the instance that serves a dead-letter request, over the same channel.

### Checkout (cart.service.ts, orders.service.ts)

Every SQL statement is an action. `tx[r]` holds the local variables of request
`r` and its uncommitted writes; `Seen(r, i)` is what a READ COMMITTED statement
of `r` reads of row `i`; `ItemHolders` and `CartHolders` are the row locks that
make a write wait. `Commit` makes the writes visible. `addItem` is `StartAdd`,
`AddFindCart`, `AddFindItem`, for an existing item `Reload` (the `save` of
TypeORM selects first) and `UpdateItem` or `ReinsertItem`, then `SumItems`,
`SetTotal`, `Commit`; `removeItem` and `checkout` likewise. `CompleteCart` is the
conditional UPDATE on `status = 'active'`. `Publish` comes after the commit and
may not happen. `Fail` is a failed statement or process: the transaction is
rolled back. No statement touches rows of another user, so one user is enough.
`CartOrders` is the abstract promise: a cart opens, and is finalized once with
one order.

### CircuitBreaker, GatewayProxy (circuit-breaker, retry, timeout, fallback, proxy services)

`CircuitBreaker` is the circuit under overlapping calls: `Admit`, `Succeed`,
`Fail`, and `Elapse` for `resetTimeout`. `failures` stays at the threshold, since
the code only compares it. `GatewayProxy` drives it with the calls of
`proxyRequest` to one service (the circuit's key is the service): `Begin` or
`Refuse`, `Receive`, `Backoff`, `Retry`, `GiveUp`, and `StoreDefault` for a
fallback that caches its default. `net[c][n]` follows the request of attempt `n`
after the timeout abandoned it: `Serve`, `Break`, `LateAnswer`. `healthy` says
whether the service answers in time; while it does, no attempt is lost. The
constants `Cached` and `Reads` tell apart the fallbacks: for the products a GET
reads and fills the same entry; for the users the fallback is an entry no response
ever fills, because `createServiceFallback` tests for `'user'` while the service
is called `'users'` (`proxy.service.ts:118`); the other calls have a fallback
that fails.

### CheckoutFlow (rabbitmq.service.ts of the checkout)

`channel` is the connection of the process: `onModuleInit` makes it once, before
the first request is served, and a failure only leaves it `"none"`; a channel
that closes is only logged and stays where it is, so every later publication
throws and is logged. Only `Restart` connects again. A request is a request of
`Checkout`, whose `Publish` hands over its message exactly when the channel is
open and its amount positive. A `Publish` that finds no open channel, and a
`Fail`, put the request into `excused`; `overlapped` remembers that two requests
of the user were ever under way together. `added[i]` counts the additions to the
row `i` that were committed, which are those a client was told of (`Counted`).

### AccountRegistry, UserAccounts (auth.service.ts of the users-service)

`users` is the table, `work[q]` what request `q` has read so far. `register` is
`FindForRegister` (`LOWER(email)`), then `Insert`, with the hashing in between;
`login` is `FindForLogin` and, after bcrypt, `Compare`, both over the row as it
was read; `validate-token` is `Validate`, which reads no row. `Normalized` is
what the schemas do to an e-mail: a person may type `Ana` for `ana`. A person
stands for the password they know. The status of a row is set by hand in the
database, so a login may find any. `AccountRegistry` is the promise: an e-mail
gets one account and keeps it.

### GatewayAccess (auth service, JWT strategy, guard and controllers of the gateway; `create` of the products-service)

Instantiates `UserAccounts` with requests `<<p, n>>`, attempt `n` of client `p`.
`Identify` sends a registration or a login through the proxy, `VisitGuarded` asks
whose the token is before the handler runs, and `Retry` sends the next attempt,
while the earlier ones go on and answer nobody (`LateAnswer`). `GiveUp` gets the
proxy's fallback: the users-service is not among the cases of
`createServiceFallback`, so its text comes with status 200, which as an identity
does not parse. `cached` is the entry of `validate-token` in the fallback cache,
one for all clients. `Forward` sends on the token and the identity; `Serve` may
carry the request out several times, and late. The routes are those of the five
controllers (`UserRoutes`, ...). The circuit of the proxy is `GatewayProxy`'s
concern: here an attempt may be lost at any time.

### HealthChecks (health-check.service.ts, health.service.ts, health.controller.ts)

One service followed through overlapping requests: `Probe` or `Refuse` by the
circuit of the service's own name, `Respond`, `Settle` when the promise of the
probe settles, `Report` when those of every service have. The other services of a
report are whatever they are. `stored` is the entry of `healthCache`, which
`GET /health/services/:name` returns. `Overall` is the three-way status of
`getServicesHealth`; `ready` is answered exactly when it is `"healthy"`.

## The runs

| Run | Module, configuration | Asks | Bounds |
| --- | --- | --- | --- |
| payments | MCPaymentsService | `IInv`, `ChargedAtMostOnce`, `LedgerAgrees`, `OutcomeIsFinal`, `ImplementsOrderPayment` | 2 instances; an order that is approved, one rejected, one that breaks the schema; any number of crashes, errors and redeliveries |
| payments_pending | MCPaymentsServicePending | `DecidedAfterProcessing`, violated | the same |
| dlq | MCDlqService | `IInv`, `NothingLost`, `HeldByActive`, `CopiesBounded`, `EveryRequestEnds` | 2 concurrent requests, 1 order and 1 message that is not JSON, main queue of 1 |
| dlq_not_found | MCDlqNotFound | `NotFoundMeansAbsent`, violated | 1 request, 2 orders |
| pipeline_faults | MCPipelineFaults | `NothingLost`, `HeldByItsHandler`, `ChargedAtMostOnce`, `EventuallySettled`, `ImplementsPaymentsService` | 2 instances, 2 messages, 3 faults |
| pipeline_dlq | MCPipelineDlq | `IInv`, `NothingLost` with an operator at work | the same, 1 request, 1 fault, `MaxRetries` 0 |
| pipeline_retries | MCPipelineRetries | `DlqOnlyAfterRetries`, violated | 1 fault |
| checkout | MCCheckoutFlow | `FlowInv`, `OneOrderPerCart`, `OneMessagePerCart`, `NoEndlessWait`, `SerialCartRules`, `PublishedUnlessFault`, `FinalizedStays`, `ImplementsCartOrders` | 4 requests, all at once, 2 products; any number of lost channels and restarts |
| cart_total | MCCheckoutFlow, MCCheckoutTotal.cfg | `TotalIsSum`, violated | 4 requests, 2 at once |
| access | MCGatewayAccess | `IInv`, `RepliesAreTrue`, `IdentityIsOwn`, `SellersAreRegistered`, `ImplementsRegistry` | a seller and a buyer, 3 spellings of 2 e-mails, 2 attempts of a call, 3 requests at the users-service at once; calls are made again and again |
| health | MCHealthChecks | `TypeOK`, `ReportIsTrue`, `EveryCheckEnds`, `HealthRecovers` | 3 overlapping requests, made again and again, threshold 2, one other service |
| gateway | MCGatewayProxy | `IInv`, `CircuitConsistent`, `AnswerMatchesEffects`, `ImplementsBreaker`, `EveryCallEnds`, `RecoversWithService` | a GET and a POST, each made again and again, threshold 2, 2 attempts |

Why these bounds are enough for the question:

- Two instances are what a double charge takes; a third adds only more of the
  same race, and the proofs hold for any number.
- In the pipeline a message goes through at most one handler per instance at a
  time; three faults allow a crash of each instance and a lost or late connection
  in one behaviour. A main queue of length 1 makes every second publication
  evict, which the code's 10000 would need as many messages for. `MaxFaults`
  is the only bound on behaviours; it bounds crashes, lost channels and late
  connections together.
- `maxRetries` is 3 in the code, and the branch that publishes to the
  dead-letter exchange is never taken with it: a rejected message is not
  delivered again from the retry queue, so the count it reads is 0. The run
  pipeline_dlq sets `MaxRetries` to 0, a legal argument, to explore that branch.
- Four requests let two additions, a removal and a checkout, or three additions
  and a checkout, all overlap; the quantity of an addition is 1. Two products
  with different prices tell a wrong sum apart. Requests are symmetric in the
  concurrent run, which has no liveness.
- The cart rules of the documentation are the five parts of `SerialCartRules`. No
  unique index and no lock stands behind them, so they hold only in the behaviours
  whose requests have not overlapped so far, which is where the run checkout checks
  them. Two overlapping requests break every one of the five: cart_total is kept as
  a run, and four configurations of `MCCheckoutFlow` with the bounds of cart_total,
  which are not among the runs, show the others (below).
- That every order sends its message (`PublishedUnlessFault`) has the same
  condition, since a total that drifted to zero makes a message that is refused,
  and excuses faults: an order whose message was lost with the channel or the
  process has no outbox to come back from, and the documents accept that
  (`03-order-checkout.md:175`).
- In pipeline_dlq the single fault reaches the window between the publication of a
  dead-lettering and its ack; the mutant that acks first loses the order there.
- In access both persons want the same e-mail, one of them in another spelling,
  so two registrations race in every order; three requests at once are both of
  those and a retry. Two attempts leave one abandoned request behind every
  answer. One guarded and one public route are visited: the routes differ in
  where they go, and only `create` acts by the role. The guard is the same.
- In health, three requests are one that settles late, one that opens the
  circuit and one refused; the services share only the report.
- Two calls with a threshold of 2: one opens the circuit with two failures
  while the other, begun before, is still under way and then succeeds or fails.

`CHECK_DEADLOCK FALSE` is set where the system may stop: the broker's runs end
with every message settled and no fault left, the operators' with every request
done. In the other runs deadlock is checked.

### Fairness

- `PaymentPipeline`: weak fairness of `Consume(i)`, since a handler runs in the
  event loop of a living process, and of `Expire`, since RabbitMQ applies the
  TTLs. Nothing is assumed of connections, deliveries, operators or restarts:
  `EventuallySettled` holds even when no instance consumes any more.
- `DlqService`: weak fairness of the steps of a request under way.
- `GatewayProxy`: strong fairness of the steps of a call: a timer is not put
  off for ever although the service flaps. Weak fairness of `Elapse`, and of the
  network while the service is healthy. `RecoversWithService` supposes a
  service that stays healthy and clients that go on calling.
- `HealthChecks`: weak fairness of `Elapse` and of the steps of a check: the
  timeouts of the probe end it, whether the service answers or not.
  `HealthRecovers` supposes a service that stays healthy and checks that go on.
- `PaymentsService`, `Checkout`, `CheckoutFlow` and `GatewayAccess` have none; `NoEndlessWait` states the absence
  of endless waits as an invariant instead.

### Findings

1. A crash, or a failed save, between the insert of the pending row and the
   outcome leaves the payment pending for ever, because the redelivery finds a
   row and returns it (payments_pending).
2. A targeted reprocess or discard cannot see past the first message of the
   queue that is not its target, and answers 404 (dlq_not_found).
3. Nothing is ever retried: the retry queue feeds the dead-letter queue
   (pipeline_retries).
4. Overlapping requests leave a wrong cart total (cart_total).

The other four cart rules fail like the fourth finding. TLC shows a violation of each
under the configuration named; they hold one request at a time (`SerialCartRules`).

- `OneActiveCart` (MCCheckoutCarts.cfg): two overlapping first additions create two
  active carts, for `findOrCreateActiveCart` takes no lock (`cart.service.ts:130`).
  `02-cart-management.md:155` allows a user one.
- `ProductOnce` (MCCheckoutProduct.cfg): two overlapping additions of a product put
  it into the cart twice (`cart.service.ts:48`; `02-cart-management.md:158`).
- `AdditionsSum` (MCCheckoutQuantity.cfg): of two overlapping additions of a product
  that is in the cart, both confirmed, one is lost, for the quantity is computed
  from a row read before (`cart.service.ts:53`; the same line says they sum).
- `OrderMatchesCart` (MCCheckoutOrder.cfg): an order takes the total its cart had
  before the transaction began, so an addition that commits in between is in the
  cart and not in the order (`orders.service.ts:92`; `03-order-checkout.md:189`).

Divergences met while reading, told here because no run is needed to see them:

- The TTL of the main queue is 2.4 hours and its comment says 24
  (`rabbitmq.service.ts:171`).
- The gateway caches every GET, those of carts, orders, payments and identities
  too, which its documents exclude (`proxy.service.ts:78`); no fallback reads
  those entries, and `IdentityIsOwn` would fail if one did.
- A registration that timed out can be answered 409 because its own first attempt
  created the account: the gateway repeats a POST that is not idempotent.
  `RepliesAreTrue` therefore promises of a conflict only that the account exists.
- `createServiceFallback` tests for `'user'`, the service is `'users'`: a login
  without its service gets a text and status 200.
- The throttler's storage gives `CustomThrottlerGuard` a record where it expects
  a number (`guards/throttler.guard.ts`): `Number(totalHits)` is NaN and no
  request is ever refused.
- No code changes the status of an order after `pending`.

## The proofs

The theorems hold for any finite or infinite set of instances, orders, calls and
products, and of requests, except where sums are taken: the requests of the
checkout, and so its carts and items, are finitely many (`RequestsAssumption`).
The named assumptions on the constants mostly give them their types. The others: the name `Free` of nobody is not a request nor
an instance (`FreeAssumption`), `NoId` is no row (`NoIdAssumption`), prices are
positive (`PriceAssumption`), thresholds, attempts and the bound on faults are
numbers (`MaxFaultsAssumption` and its like). Nothing bounds the queues, the
faults or the number of calls. Each inductive invariant below is named `IInv`
(`FlowInv` for `CheckoutFlow`) and is checked by TLC in a run too.

**PaymentsServiceProofs.** `IInv` says that an instance past the insert owns its
order: no other instance is past it for the same order, the row is pending, and
the order was charged once if the instance is past the charge and not at all
before. Ownership is what makes the rest inductive: `ChargedAtMostOnce` alone
does not forbid a second instance at the charge. The unique column enters as the
guard of `SavePending`. From it: `NoDoubleCharge`, `LedgerIsConsistent`,
`DecisionIsFinal`, and `ServiceImplementsOrderPayment`, where lookup, crash and
errors are stutters of `OrderPayment`.

**BrokerProofs.** What each operation on a queue keeps. `Count(q, P)` is the number
of messages of `q` in the set `P` (a kind of message is a set, since a lemma can
not take an operator), and there is a lemma for every operation: hold, ack,
release, publish with its eviction, expire, purge. The order of a queue does not
matter to them, only which messages of each kind it has. Induction is needed
twice, for the collections that `Release` and `Purged` build message by message;
`NumberInduction` is the induction over numbers for a set of them, proved from
the well-foundedness of `<`, since the library's takes an operator.

**DlqServiceProofs.** `NothingLost` is not inductive: a request that republished
an order and still holds the old message acks it, and the order is lost unless
the new copy is there. `LastingCopies` therefore counts without the messages of
requests in that state (`Lasting`): every order that was sent and not removed has
a lasting copy, and at most one more than there are failed requests. Putting
back, acking, discarding and expiring change this count by what they do to one
message; a republication moves a copy from not lasting to lasting by adding one
to the main queue. What a lost channel does to the queue is stated of any queue
that is as released or has one free message more (`Extends`, `AbortStep`), because
the publication of a dead-lettering may have arrived. `HeldByActive` says that a request in `holding` or
`published` holds exactly one message, which is what lets a step act on "its"
message; `OnlySent` and `Counting` type the rest. From `DlqInvariant`:
`DlqLosesNothing`, `DlqHeldByActive` and `DlqCopiesBounded`.

**PaymentPipelineProofs.** Every action of the pipeline is an action of the
payments service or leaves its variables alone (`WorkerStep`), so the pipeline
implements it (`PipelineImplementsService`) and inherits `NoDoubleCharge`
(`PipelineChargesOnce`), whatever the broker and the operators do. The invariant
of the broker's side joins three things: that of the dead-letter requests, whose
step lemmas are reused through the instance `Dlq`; `HandlersAgree`, which relates
the connection of an instance, its step and its order; and `Accounted`, that an
order sent and not removed has a lasting copy or a registered payment. An ack
removes a copy, so it must come after the row: `HandlersAgree` says that a
handler that is about to be acked has one, and the rows only grow. With
`HeldByItsHandler`, also part of the invariant, the ack is for that order. From
`PipelineInvariant`: `PipelineLosesNothing` and `PipelineHeldByHandler`.

**CheckoutProofs.** The row locks are an invariant, `OneWriter`: no two
transactions wrote the same cart. With `Completing`, that a transaction about to
insert its order holds the lock of a cart that is still active, it gives
`OneOrderPerCart`: a second checkout waits for the lock and then finds no active
cart. `NoSecondOrder`, `FinalizedForever` and `ImplementsAbstract` follow from
these parts (`RowsInv`). `Shape` replaces the full type of `tx` in the invariant,
since amounts play no part in the argument. `Locks` adds at which steps a row is
held, and `Messages` that only the last step of a request publishes, once its
order is there (`Invariant`). From `Locks`, `NobodyWaitsForEver`: who waits for
an item waits for a request past its item, who waits for a cart waits for one
about to commit (`CartHolderCommits`: it is not the cart's creator, for the cart
was found and so committed); of a set of waiting requests, one that waits for a
cart if there is one, else any, waits for none of the set. `OneMessageEach` needs
the sum over the orders of a cart only for no order and for one (`SumOfOne`).

`FlowIsCheckout` shows that the service with its channel takes only steps of
`Checkout`, so `FlowIsSafe` carries all of this over to it.

`FlowInv` adds `SerialInv`, which speaks of the behaviours whose requests have not
overlapped: at most one is then between its first step and its last. `RowsAgree`
says of the committed rows what the documents say, in the form that steps can
keep, and `Progress` what a request under way may rely on: which cart and item it
found, that the total it computed is the sum of the items as it sees them, that
the total a checkout read is still the cart's and is positive. No other request
moves, so what was read stays true until the request commits (one lemma per group
of steps: `FindCartProgress`, `ItemProgress`, `TotalProgress`,
`CheckoutProgress`). `AddedAgree` says that the quantity of a row is the additions
committed to it, and a request that read the row writes one more (`CommitAdds`);
at the commit the rows become what the request saw
(`CommitAgree`, `SaveOrderAgree`). That an order's amount is positive, so that
the message is not refused, needs the sum to be at least each of its parts:
`SumBounds`, by induction over the subsets of the finite set of requests
(`SumsExist`, `SmallSets`). From `FlowInvariant`: `SerialRules` and
`SentUnlessFault`.

**GatewayAccessProofs.** The invariant has a part for the users-service and one
for the gateway. `AccountsInv`: every row has its e-mail in normal form and no two
rows share one; only this makes the unique column decide for all spellings.
`WorkInv`: what a request is about to answer is still what the rows say, which
holds because rows are only added (`HandleInvariant`). `ClientInv`: a client has
no token but its own, and a call to the guard goes on with the token it began
with. `SentInv` then follows from the identity a request was asked for. The
lemmas are by kind of step: a request arrives, advances, is over, inserts; a call
begins or is tried again, receives, ends. From it `TruthfulReplies`,
`OwnIdentity`, `RegisteredSellers`, and `ImplementsAccounts`, where `NewRow` finds
no account under its e-mail (`RegistryStep`).

**HealthChecksProofs.** `ReportInv` adds to `ReportIsTrue` that a settled request
has its result and that a request under way has dropped its last report; hence
`TrueReports`. `ChecksImplementBreaker` maps probes to calls of `CircuitBreaker`,
and `ChecksTyped` is the type invariant.

**GatewayProxyProofs.** Each step of a call either moves it within, or outside,
the calls under way, and leaves the circuit alone, or is one step of
`CircuitBreaker` (`CircuitStep`); hence `ProxyImplementsBreaker`, and, from the
threshold being positive, `CircuitIsConsistent`. `AnswerMatchesEffects` is not
inductive: what a call may answer depends on what its requests did.
`CallsUnderWay` says how many attempts a call has made at each step, and
`ServedIsCarriedOut` that a write whose answer is on its way was carried out;
each step then touches one call (`OneCall`), and one request of it, which leaves
the network before it counts as an effect (`MoveRequest`). Hence `ProxyInvariant`
and `AnswersMatch`.

Only model-checked: the liveness properties (`EventuallySettled`,
`EveryRequestEnds`, `EveryCallEnds`, `RecoversWithService`, `EveryCheckEnds`,
`HealthRecovers`), which are out of the prover's reach. Every invariant and every
safety property of the passing runs is stated by a theorem.

## What is not modelled

- The throttler, which never refuses a request (above), and the consumer's
  metrics: counters written by one synchronous step and read by another.
- `RoleGuard`, `SessionGuard` and `validateSessionToken` of the gateway, used by
  no route.
- The read-only queries of every service, the contents of products and profiles.
- The JWT strategies of the services behind the gateway, request validation,
  environment schemas, `/health` of the services (a constant), bootstrap, tests
  and documentation: pure checks and configuration.
- A message published before any payments instance has bound the queue is
  dropped by the exchange. The pipeline begins where an order is routed.
- The strategies of the retry, timeout and fallback services that no code calls.

## Plan

1. `PurchaseFlow`: the orders `CheckoutFlow` published composed with the pipeline,
   from the commit of an order to its payment; abstract specification: an order
   is pending, paid or rejected.
2. Its proofs: that it implements both, and that no order is charged unless its
   cart was finalized.
