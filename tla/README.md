# A TLA+ model of the payment gateway

The gateway (`src/`, Go) takes payment requests of merchants, sends them to a
payment provider, hears from the provider by webhook, stores what it knows and
tells the merchant. This directory models it in TLA+, checks the models with TLC
and proves theorems about them with TLAPS.

## The system

| Component | State it keeps | Operations | Talks to |
| --- | --- | --- | --- |
| Orchestrator (`internal/orchestrator/simple`) | none across requests but the state manager and the sessions, which are written and never read | `CreatePayment`, `failAndSave` | every component below |
| Transaction store (`internal/subsystems/storage`) | a response per (merchant, idempotency key); a view by payment; refunds | `Save`, `GetByIdempotencyKey`, `GetByPaymentID`, `SaveRefund`, ..., `BuildTransactionReport` | called by all handlers at once |
| Adapters (`internal/subsystems/adapter`) | none | `Send`, `Refund` for YooKassa, PayAnyWay, digital ruble, simulated; `Resolve` | the providers |
| Webhook handlers (`internal/httpapi/webhooks`) | none | YooKassa and PayAnyWay notifications, digital ruble scan | store, notifications |
| Notifications (`internal/subsystems/notifications`) | a log of deliveries | `Notify` | the merchant's URL |
| Refunds (`internal/httpapi/refunds`) | the refund records | create, status, search | store, adapters |
| Antifraud (`internal/subsystems/antifraud`) | velocity events of 24 hours | `Check` | OPA |
| Routing, validator, tokenizer | routes and tokens in Postgres | `Route`, `Validate`, `Tokenize` | called by the orchestrator |
| Reports, status | none | transaction report, payment status | store |
| Authentication, authorization (`internal/subsystems/merchantauth`) | the table of merchants: keys, role, active | `AuthenticateMerchant`, `CanReadMerchantData`, `CanWriteMerchantData`; the operator's scripts change the table | middleware of every API request |
| Network and transport security (`internal/httpapi/security`) | none | HTTPS enforcement, address lists, the client's address behind a proxy | middleware |
| Event log, secrets | the log; encrypted fields | `Log`, `Protect`, `Reveal` | called by all |

Every HTTP request, provider notifications included, has a goroutine of its own.
What they share is the store (and, unread, the state manager and the sessions)
and the tables an operator edits while the process runs; no lock is held from one
store operation to the next. So the hard behaviour is that of handlers overtaking
each other between their store operations, provider calls and notifications, of calls
that are carried out but not answered, of notifications that are repeated, of tables
changed while a request goes by them, and of a restart anywhere in between. The
hazards, each with its line, are listed in `PROJECT.json`.

What makes each component correct:

* orchestrator, store, YooKassa: nothing says CAPTURED of money that was not
  taken; a retry does not charge twice; a stored outcome stays; what was paid is
  stored in the end; every request ends;
* PayAnyWay, digital ruble: the same for their notifications and scans; a payment
  has one record; an ended payment does not start again; an expired code captures
  nothing;
* refunds: only of a payment that was captured; a success is the provider's, and all
  answers for a key are about the same refund;
* antifraud: an attempt counts once and for as long as its window;
* reports: they hold the newest transactions of those that pass the filter, in
  order, and both stores tell the same;
* from the network to the provider: a request is let through by one state of its
  sender's row; a payment goes where the rules say, a refund to whoever captured.

## Modules

| Module | Models |
| --- | --- |
| `PaymentStatus` | the statuses and the pure functions over them: `mapYooKassaStatus`, `ShouldRetry`, `HandleCallback`'s classification |
| `Orchestrator` | `CreatePayment` and `failAndSave` run by any number of requests over one store; the adapters' `Send`; the operations the providers open; a restart |
| `Orchestrator_proofs` | lemmas on the types, on what a step of a request can do, and on the store, shared by the proofs of the three gateways |
| `YooKassaGateway` | `Orchestrator` composed with `YooKassaWebhookHandler`, the buyer, YooKassa's repeated notifications; the specification and all properties |
| `YooKassaGateway_proofs` | its theorems, the implementation of `PaymentContract` among them |
| `PaymentContract` | the abstract specification: what a merchant may rely on of a YooKassa payment, in terms of operations and of what was told. `YooKassaGateway` implements it |
| `Refunds` | the refund handler's `create` run by any number of requests over the refund records of either store; the adapters' `Refund`; the providers' refunds; a restart. The payments are an environment: any handler may store a status |
| `Refunds_proofs` | its theorems, the implementation of `RefundContract` among them |
| `RefundContract` | the abstract specification of refunds: what was captured, what the providers gave back, the one record of each key and the answers given for it. `Refunds` implements it with the database |
| `PayAnyWayGateway` | `Orchestrator` composed with `PayAnyWayWebhookHandler`, the buyer on the payment form, repeated Pay URLs |
| `PayAnyWayGateway_proofs` | its theorems |
| `MarkedMoney` | the mark a purchase needs, the demo wallets, `CheckMarkedMoney` |
| `DigitalRubleScan` | `Orchestrator` composed with `DigitalRubleSandboxHandler`, codes that expire, scans in any order |
| `DigitalRubleScan_proofs` | its theorems |
| `VelocityScore`, `Velocity` | the score card of `checkVelocity` and the verdict of `Check`; the velocity store with its pruning, deduplication and counts, used by concurrent attempts |
| `Velocity_proofs` | its theorems |
| `TransactionStores` | `Save` and the two lookups of the Postgres and the in-memory store, given the same calls: rows by key against two maps, time stamps against the order of writes |
| `TransactionStores_proofs` | its theorems |
| `TransactionReport` | the transaction report on both: filter, order, limit |
| `CardNumber` | the check digit of a card number, the card scheme |
| `Routing` | rules and defaults of the router, the adapter factory, the way back from a `PaymentSystem` to an adapter |
| `Access` | network policy, credentials, roles and scopes |
| `Admission` | one request at a time on its way through the middleware, the validation and the router to the provider, or back to it with a refund, while an operator changes the tables, time passes and the process restarts |
| `Admission_proofs` | its theorems |
| `MC...` | the values of the constants for TLC |

`Orchestrator` has no specification of its own: what its requests do between a
link and a capture depends on the handler it is composed with, and each
composition adds that handler's goroutines to its state.

### How state and actions correspond to the code

| TLA+ | Code |
| --- | --- |
| `byIdempotency`, `byPaymentID` | the two maps of `InMemoryTransactionStore`; `byIdempotency` is also the table `payment_transactions` |
| `Durable` | `DATABASE_URL` set: the store survives a restart, its operations may fail, and merchant notifications are on. Otherwise the in-memory store, which cannot fail, and no notifications (`main.go`) |
| `req[r]` | the local variables of one `CreatePayment` call and the point it is at |
| `byPayment`, `sessions` | `inMemoryStateManager`, `simpleWorkflowEngine` |
| `ops` | what YooKassa and the other providers have on their books: external |
| `notices` | what arrived at the merchant's callback URL |
| `hooks[h]`, `unacked` | goroutines of the webhook handler; the operations YooKassa has yet to get a 200 for |
| `saved`, `req[r].calls` | history: what was ever stored under a key, how often a request called its adapter |
| `faults` | how much of `MaxFaults` is used up |

A step of `CreatePayment` ends where another handler can notice or overtake it:
`Replay`/`Begin`/`LookupError` are the idempotency lookup, `Prepare` and `Refuse`
everything up to the adapter call, `OpenAtYooKassa`, `RepeatAtYooKassa`,
`NotSent`, `LoseAnswer`, `SendSimulated`, `SendDigitalRuble` and `SendPayAnyWay`
the adapter call and its outcomes, `TryAgain` and `Conclude` the end of the retry
loop's body, then `Notify` and `SaveAndReply` (or `NotifyRefusal` and
`SaveRefusal`) in the code's order. The webhook handler is `ReceiveHook`,
`LoadHook`, `SaveHook`, `NotifyHook`. The lookup and the state manager go on by
the key as it was sent, everything after the validation by the trimmed one:
`TrimmedKey`, `ValidatedKey`, and `RefusedKey` for what `failAndSave` is given.

In `Refunds`, `refunds` has a record for each refund identifier, which is drawn
for the request; `Taken` is the table's UNIQUE (merchant_id, idempotency_key),
which the in-memory map does not have. `Replay`/`Miss` are the idempotency lookup,
`Load` and `Reject` the load of the payment and all checks of it, `SaveRequested`
the first `SaveRefund`, whose error the code drops, then the provider
(`RefundAtYooKassa`, `RepeatAtYooKassa`, `RefusedByYooKassa`, `LoseAnswer`,
`RefundEmulated`) and the second `SaveRefund` with the reply (`SaveResult`,
`ResultLost`). `captured` is history. YooKassa may know a repeated key or refuse
it, since the body carries the new refund's identifier: both are allowed. Amounts
are left out: a refund is full or partial.

In `PayAnyWayGateway`, `ReceivePayURL`, `LoadHook`, `SaveHook` and `NotifyHook`
are the handler, `Pay` the buyer, `Resend` a receipt that was lost. PayAnyWay's
link and Pay URL name the payment only, so `ops` has a payment under
`TransactionKey`, the key that reads like its payment_id.

In `DigitalRubleScan`, `Scan` is the handler up to the response it will store,
`SaveScan` and `NotifyScan` the rest; a refused scan changes nothing and is left
out. `Expire` is the passing of a code's `qr_expires_at`. `attempts` is history:
which code was to be paid in time, and from which wallet. The wallets are the
code's table; nothing ever decreases them, so two payments may spend the same
money, as in the code. Building the SOAP message and reading it again cannot fail
for a message the gateway built, and is left out with its signature; so is the
rounding of the amount to two digits in it, since amounts here are whole rubles.
Merchants' wish to require marked money (`RequireMarkedMoney`) is never read by
the code.

In `Velocity`, a judgement is one step, since recording and counting is under one
lock; `wait` is how long before it the goroutine took its time, so steps need not
come in the order of their times. `log` is history: every attempt recorded since
the start. A
hash of nothing is the empty string. `Restart` empties the store, and the history
with it: the limits are those of one run of the process. Attempts whose context is cancelled before
they are recorded leave nothing and are left out.

In `TransactionStores` a caller takes its stamp in `Stamp`, when it evaluates the
arguments of `Save`, and writes in `Save`, in any order; both stores are written
in that step, so that what they would answer can be compared. `log` is history:
the Saves in the order of their writes. The lookups and reports are one statement
or one critical section each, hence functions of the state; where the code leaves
the choice open (rows of one time stamp, the iteration of a Go map) they are sets
of what may be answered. `TransactionReport` adds no variable. Its `IsNewest` is
the meaning of `ORDER BY created_at DESC LIMIT`: the statement's own, and what the
in-memory store's exchange sort and cut are measured by. Left out of it: the
payment method, which is filtered like the payment system, and the totals counted
over the list; dates are inclusive, as the handler's end of day makes them.

In `Admission`, `call` is the request under way. `Receive` is the transport policy,
`GetByID` the one read of the sender's row, `Check` the rest of
`AuthenticateMerchant`, the network policy and the authorization of the handler, in
this order: all three go on by the row that was read. `Validate` is the card's check
digit, `ChooseRoute` and `RouteError` are `Route` and `Resolve`, `Send` the adapter's
last result with the `PaymentSystem` that is stored, `Load` the refund handler's load,
its way from that `PaymentSystem` to an adapter, and the adapter's `Refund`.
`Announce` and `Scan` are the handlers that store a capture later. The operator is
the scripts of `payment_gateway_tools`: `SetActive`, `SetRole`, `IssueKeys`,
`AddRoute`, `DisableRoute`, `DeleteRoute`. `Restart` writes the merchant of the
environment over its row, as `seedDefaultMerchant` does at every start. Keys are
versions, and a signature is of one of them; `call.rows`, `call.choices`,
`call.arrived` and `payments[x].by` are history: the rows, the rightful providers
and the time since the request came, and who captured. Requests share nothing here
but tables that they only read, so that one at a time is enough; a payment is one for
each merchant.

Abstracted: a response is its key, status, error code, external operation,
whether it carries a payment page, and its retry count. The outcomes of the
validator, antifraud, routing and tokenizer are a choice, since all of them are
possible for some request. `YOOKASSA_FRAUD_SUSPECTED` is folded into
`YOOKASSA_PAYMENT_DECLINED`: nothing depends on the reason. A request without its
required fields, an unmarshalling error of a stored response (the store holds
only what the gateway marshalled) and the wait before a retry are left out. A
webhook without metadata is acknowledged and changes nothing.

`SaveAndReply` and `SaveRefusal` are one step each: a restart between Save and the
reply is folded into one after the reply, where the merchant has heard what he would
not have heard.
A row that could not be read is answered like wrong keys, 401 AUTHENTICATION_ERROR
(`GetByIDError`).

External, taken from how the code uses it: YooKassa answers a repeated
`Idempotence-Key` with the operation it already has; announces an operation when
it is final and repeats the announcement until it is acknowledged, and sometimes
after; a buyer can pay once the merchant has the payment page. PayAnyWay takes a
payment of one transaction id once, and repeats the Pay URL until it is answered
with 200.

## Runs

Where every request or scan is sent once every behaviour is finite, and
`CHECK_DEADLOCK` is off; payments of `MCRefunds` may change, the process of
`MCVelocity` restart, and requests of `MCAdmission` be sent for ever.

| Run | Instance | Shows |
| --- | --- | --- |
| `safety` | 2 requests, 2 webhook goroutines, 1 key, Postgres, 2 faults | `TypeOK`; `CapturedIsBacked`; `WebhookNoticeWasSaved`; `AttemptsAreCounted`; `PaidIsRecorded`; `InStepForGood`; `ContractIsKept`, that every behaviour is one of `PaymentContract` |
| `adapters` | 2 requests, 1 webhook goroutine, 6 keys (2 of one payment, one another with a space before it), all adapters, in-memory store, 1 fault | `StoreViewsAgree`; `OneOperationPerRequest`; `SettledForGood` |
| `liveness` | 2 requests, 1 webhook goroutine, 1 key, Postgres, 1 fault, fairness | `RequestsEnd`; `CaptureIsSaved` |
| `single_charge` | 2 requests, 1 key, a simulated provider, no fault | violated: two concurrent requests with one key are both captured |
| `captured_stays` | 2 requests, 1 key, YooKassa, no fault | violated: a late result replaces CAPTURED |
| `padded_key` | 2 requests, 1 key and the same with a space before it, no fault | violated: a repeated request is processed again |
| `refunds` | 2 requests, 2 keys, 3 payments (YooKassa, simulated, PayAnyWay), Postgres, 2 faults | `TypeOK`; `SuccessIsBacked`; `RefundedWasCaptured`; `OneStory`; `RecordedForGood`; `ContractIsKept`, that every behaviour is one of `RefundContract` |
| `payanyway` | 2 requests, 2 webhook goroutines, 1 payment under 3 keys (2 for PayAnyWay, one of them its payment_id; 1 simulated), Postgres, 2 faults | `TypeOK`; `CapturedIsPaid`; `PaidIsShown`; `NoStrayRecord` |
| `digital_ruble` | 2 requests, 2 scans, 1 payment with 2 codes for purchases with different marks, 2 wallets, Postgres, 1 fault | `TypeOK`; `CapturedWasHonoured`; `OutcomeIsExplained` |
| `velocity` | 5 attempts with one card, 4 under one e-mail address, and the first one's key again with another card; times 0 to 4, a wait of at most 1, windows of 0, 1, 1 and 3; restarts at any time | `TypeOK`; `CountedOnce`; `CountsAreExact`; `FourPassAtMost` |
| `stores` | 3 Saves over 3 keys and 3 payments, 2 statuses, times 0 to 2, 6 filters, a default and a greatest limit of 2 | `TypeOK`; `SameByKey`; `LatestAgrees`; `RecordsAgree`; `OrderIsKept`; `ReportIsNewest` |
| `admission` | 20 requests of a shop and an administrator behind a proxy, 2 route rules and 2 more to add, 2 environments, 2 changes, times 0 to 2 with a window of 1 | `TypeOK`; `DecisionIsRight`; `SentAsRouted`; `RefundGoesHome`; `MistypedIsRefused` |

Two requests are what a race takes, and a third adds no new pair of steps; two
webhook goroutines handle one notification twice; one key shows every conflict
within a key, and the two keys of one payment the conflict across keys; two
faults allow a failure and a restart, or a repetition of what failed. Three
attempts of each request are always explored (`maxAttempts` is the code's). Of
refunds, two requests race for a key or one replays what the other left, and two
keys let one body be sent under another key; what changes with the in-memory
store (`Durable` FALSE: no unique key, everything lost in a restart) is left to
the theorems, which are for either. Three Saves let a payment be stored under two
keys and then again under the first, and three dates are what a sort of three
records needs to go wrong after its first pass; a limit of two cuts one of them,
and the limits' order is all that is kept of the code's 100 and 500. Two scans with two codes
are what it takes for one scan to work on the other's outcome, or for a code to
be replaced between load and save. Five attempts with one card are one more than
may pass; the windows keep the order of 5 minutes, 30 minutes, an hour and a day
and, what the pruning depends on, a day that exceeds an hour and the wait
together (`WindowsAssumption`; the theorems hold for the real lengths). The last
tick of the clock lies beyond a day, so that events are pruned and a key counts
again. `OPAFails` limits to one request the policy errors, which all look alike. In `admission` the
requests are one of each kind that is treated differently: stale or future stamps,
rotated keys, another merchant's data, addresses and protocols claimed by a proxy and
without one, a card of the scheme that is routed by its number, one with neighbours 0
and 9, a mistyped one. Two changes are what it takes to exchange keys and role of a
merchant while his request is checked, or a rule and the environment between a payment
and its refund; a clock of 2 lets a request's window end while it is under way.

`PaidIsShown` and `NoStrayRecord` say when the record PayAnyWay's handler files
is the merchant's: by payment_id through any fault, by the merchant's key when
nothing failed. Both conditions are needed: a failed lookup files the payment
under its transaction id.

That YooKassa opens one operation for an `Idempotence-Key`, for payments and for
refunds, is assumed of it and not a property of the gateway; the other adapters send
no such key. What the gateway itself owes is `OneOperationPerRequest`: lost answers,
retries and restarts included, no request opens two operations anywhere, so that the
operations can be told apart by the requests that sent them. Two requests with one
key may open two, which `single_charge` shows. `StoreViewsAgree` is about the
in-memory store: Postgres has no second map but looks a payment up by
`updated_at`. `LatestAgrees` says when that makes no difference: a payment's Saves
have to take effect in the order of their stamps, each later than the last, and
no key may have served two payments. Without the first, the row with the latest
stamp is not the last one written; without the second, a row has left the payment
that the in-memory map still shows. For a payment tried under two keys Postgres
reports two transactions and the in-memory store one; `RecordsAgree` says that
it is one of the two, and that no payment is missing. The three `velocity`
properties speak of one run of the process, and a restart begins the limits anew.
`SettledForGood` and `InStepForGood`
need the key to be settled, that is, stored and with no request past its lookup:
`captured_stays` shows what happens otherwise.

### What the abstract specifications say

The `ContractIsKept` of `YooKassaGateway` is `PaymentContract`'s specification under a refinement mapping:
`charges` is the number of operations YooKassa has under a key, by their status;
`told` what is stored, answered or notified of it, where a notification says PENDING
or CAPTURED only, since its status does not tell whose refusal a refusal is. So
every step of a handler, failed writes and restarts included, tells at most one
thing, and that is true; an operation is opened once and becomes final once, and is
paid only by a buyer whom the merchant could send to the payment page. This last
point is true only because the answer is stored, or sent, before the buyer can pay.

That of `Refunds` is `RefundContract`'s specification: `given` are the providers'
refunds, `record` the rows of a key, `told` the answers given for it. So a key's
record is written as requested at most once, concluded once, at the moment it is
answered, with what is true of the provider's refund it names, and never changed;
answers are that record as it was. It holds with the database only: the in-memory
map takes a second record of a key. A conclusion may be a refund still in progress,
as when YooKassa leaves it pending, and nothing follows it; and a failure that
names no refund says nothing of the provider, which may have carried it out
(`LoseAnswer`). `OneStory` is what a merchant notices of all this: of two answers
for a key, one may be the refund as it was requested, and the other what came of it.
It would fail if a result were told whose second `SaveRefund` has failed, as the
orchestrator does with payments.

### Admission

`DecisionIsRight` measures what is let through and what is turned away by
`Permits`, which is README's table of roles with the keys, the clock and the lists,
of one row at one moment. It would fail if the role were read again after the keys.
`RefundGoesHome` is about two namings of the same thing, the provider of a rule and
the `PaymentSystem` that is stored: a refund finds its provider because the adapter
puts its own name into the result, whatever the rule calls it. `SentAsRouted` does
not say which rule applies of those a change replaces while the request is under
way.

### Fairness

`FairSpec` asks for weak fairness of each request's goroutine and of each webhook
goroutine (the Go scheduler runs what can run, and every call they make has a
timeout), and of YooKassa starting to deliver what is unacknowledged (it repeats
its notifications). Nothing makes a buyer pay or an operation succeed. Which of
several outcomes a step has is never fair: an adapter call may fail in all three
attempts, and a merchant may miss every notification. Store failures, restarts
and repetitions end because `MaxFaults` bounds them; without such a bound no
liveness of a store that always fails could be claimed.

## What the documentation says and the code does not do

* `single_charge`: the documentation says idempotency protects against a repeated
  charge; it does so for a request sent after the first one has ended.
* `captured_stays`: the documentation says the webhook brings the final status;
  a request that missed the record writes over it, with nothing to correct it.
* `padded_key`: the documentation says a request whose key was used is answered
  from the store; with a space around the key it is stored under the trimmed key and
  never found.

Seen while modelling, and not run, since the model states them as the code has them:

* the documented order is store, then notify; the orchestrator does the reverse
  (`orchestrator.go:282`, `:288`), the webhook handler keeps the order
  (`WebhookNoticeWasSaved`);
* the documentation says a refund's result is saved as a success or a failure; one
  that YooKassa leaves pending is saved in progress, no webhook brings its end, and
  a retry with the key is answered from the record;
* README.md:390 says an administrator works with the data of any merchant; a payment
  is always its sender's, since the body has to name him (`auth.go:125`), so that an
  administrator makes refunds for others but no payments. For the same comparison a
  `merchant_id` with a space around it is refused on payments and accepted elsewhere;
* a start of the process writes the merchant of the environment over its row
  (`postgres_store.go:98`): what the operator changed of him, keys, role and being
  disabled, is undone.

## Proofs

Every theorem holds for all values of the constants that satisfy the assumptions
named with it, so for any number of requests, keys, payments, merchants, handlers
and faults; the runs check the same properties on the instances above. A property
is seldom inductive as it stands. Each proof module strengthens it, first with what
handlers hold locally, since what is stored or sent was local before, and the
strengthened invariant is checked step by step: a lemma for each kind of step, or
one that says which effects a step can have (`StepFiles`, `OpsGrow`, `Moves`), so
that the lemmas after it need not go through all the actions again.

### The orchestrator and YooKassa

`Orchestrator_proofs` has the lemmas; the assumptions are those `Orchestrator`
states of its constants: `PaymentOf` and `AdapterOf` are functions on the keys,
`TrimmedKey` is one from keys to keys that trims nothing twice, the empty string is
no key, `Durable` is a Boolean, `MaxFaults` a natural number.
`Step` in `YooKassaGateway_proofs` lists the effects a step of the gateway can have,
and `NextMoves` proves that a step has one of them.

* `TypeCorrect`: `Spec => []TypeOK`, strengthened by `HandlersAreReady`: what a
  handler is about to store is a whole response, and a webhook goroutine works on an
  operation that exists.
* `RequestsOpenOne`: `Spec => []OneOperationPerRequest`. `AllCallOnce`: what adapters
  other than YooKassa's answer is never retryable, so their requests call once; one of
  YooKassa's that calls again repeats a key YooKassa knows, or has opened nothing. The
  sender of a new operation (`StepOpens`) therefore has none yet.
* `CapturesAreBacked`: `Spec => []CapturedIsBacked`, from `HooksKnow` (a webhook
  goroutine works on an operation of YooKassa's that is final, and the status it
  derived is still right) and `Truth`: every response anybody holds is `Truthful`. That
  is more than the property says: `PENDING` has an operation, a refusal has a refused
  operation, and a payment page belongs to an operation of its key.
* `KeepsContract`: `Spec => ContractIsKept`, the implementation of `PaymentContract`.
  The initial states map to initial ones. For a step, `StepUtters` shows that it is
  silent or says one word more of one key, and takes none back: what was stored once,
  answered or notified stays so, also in a restart. `ToldIsSaid` ties this to the
  mapping. Charges change when an operation is opened or settled
  (`BooksShowCharges`), never in a step that speaks. By `Truth` the word is a true one, so that the step is
  one of `Contract!Next` or leaves `Contract!contractVars` alone.
* `NeverContradicted`: a merchant never hears both that a payment was captured and
  that the provider refused it. What is said of a key is true of its one operation,
  which is final when either is said.
* `PaidAreRecorded`: `Spec => []PaidIsRecorded`. `PagesKnown`: pages a buyer can pay on
  belong to requests' answers, never to what a webhook stores. So a buyer who paid was
  sent by an answered request, and `RecordsFollow`, which speaks of the goroutines that
  have stored and are yet to acknowledge, too, is inductive.
* `InStepStaysInStep`: `Spec => InStepForGood`, and `SettledStaysSettled`:
  `Spec => SettledForGood`, action properties. Who stores under a settled key is a
  webhook goroutine, which by `HooksKnow` stores what the operation says, or a request
  for another key, which by `OwnKeys` stores under its own.
* `NoticesWereSaved`: `Spec => []WebhookNoticeWasSaved`, by `WrittenFirst`.
* `ViewsAgree`: `Spec => []StoreViewsAgree`, by `Shelved`: responses are stored under
  their own keys, and a payment's record is the current one of a key of its own.
* `AttemptsCounted`: `Spec => []AttemptsAreCounted`, by `Counted`.

### PayAnyWay

`PayAnyWayGateway_proofs`, with `TransactionKeyAssumption`: the transaction id of a
payment is a key of that payment for PayAnyWay.

* `TypeCorrect`: `Spec => []TypeOK`.
* `CapturesArePaid`: `Spec => []CapturedIsPaid`. `BooksKnown` says that a Pay URL is
  about a payment PayAnyWay took; `AllPaid` that any response anybody holds is paid if
  it says CAPTURED.
* `NoRecordStrays`: `Spec => []NoStrayRecord`. `Steady` describes a gateway nothing has
  failed in: every answer is on record, and what is stored is under a key that a request
  came with. By `PayersKnown` a buyer has the link from an answer, so that the handler
  finds that record and builds none.
* `PaidAreShown`: `Durable => (Spec => []PaidIsShown)`, by `Recorded` for the lookup by
  payment and `Steady` for that by key. It is stated for the database, as the property
  is: an in-memory record is gone after a restart, and is not sent again.

### Digital ruble

`DigitalRubleScan_proofs`. `PurchaseAssumption` gives each key a category and an amount.

* `TypeCorrect`: `Spec => []TypeOK`.
* `CapturesWereHonoured`, `OutcomesAreExplained`: `Spec => []CapturedWasHonoured`,
  `Spec => []OutcomeIsExplained`. `Truth` says of all responses, those scans hold between
  load and save included, what the two properties say of stored ones, and that they name
  an operation of their key. `StepGrows`: attempts and operations are never taken
  back, so that a capture stays honoured when its code expires later.

### Admission

`Admission_proofs`, with the assumptions of `Access`, `Routing` and `Admission`: the
tables and what the operator adds are well-formed and finite, cards are sequences of
digits, issued cards have 13 to 19 of them and the check digit of ISO/IEC 7812
(`IssuedCardsAssumption`), the simulated and the digital ruble adapter are always registered, as the
factory does.

* `TypeCorrect`: `Spec => []TypeOK`, with finite tables, so that there is a first rule.
* `DecisionsAreRight`: `Spec => []DecisionIsRight`. `Judged` adds that the history of
  a request has the row its sender has now and the row it is checked by, and that the
  clock has not gone back. `Remembers`: what one of them could judge so stays so.
* `PaymentsAreSentAsRouted`: `Spec => SentAsRouted`, an action property. `Routed`: the
  history of the request has what the tables designate now, and what was chosen is one
  of it and configured.
* `RefundsGoHome`: `Spec => []RefundGoesHome`. `Kept`: the `PaymentSystem` of a captured
  payment names a provider that captured it; `HomeOfSystem` leads from it to that
  provider's adapter or to none.
* `MistypesAreRefused`: `Spec => []MistypedIsRefused`, for card numbers of any length.
  `Checked`: only a valid number is on its way to be routed, and only one that is not
  was refused. The rest is arithmetic of the partial sums of `luhnValid`: they exist and
  are what the recursive definition says (`SumsExist`, `SumIsLast`), two numbers that
  differ in one digit or in two neighbours have sums that differ by as much
  (`ReplacedLater`, `ReplacedNow`), doubling loses no digit (`TensAgree`), and neighbours
  tell their order but for 0 and 9 (`NeighboursTell`). `CheckDigitAddsUp` leads from the
  issuer's check digit to a sum that is a multiple of ten.

### Refunds, antifraud, stores

`Refunds_proofs` is from the assumptions that `AdapterOf` is a function on the
payments, that the empty string is no key, that `Durable` is a Boolean and `MaxFaults` a natural number.

* `RefundsTypeCorrect`: `Spec => []TypeOK`, strengthened by `Ready`: from `Load`
  to the reply a request holds its own refund, of its key, payment and kind.
* `RefundsWereCaptured`: `Spec => []RefundedWasCaptured`. `CapturedInv` adds that
  the payment of a request past `Load` was captured, and that what is stored as
  CAPTURED is in the history.
* `SameRefund`: `Spec => []SameRefundForKey`: with the database, all answers for a key
  are about one refund. The run checks it as part of `RefundContract`. `StoreInv` says a key has one
  record, written by the request whose identifier it has under that request's
  key, and whoever was answered was answered with it; `RefundsStep` and
  `RequestStep` say who writes the store and who is answered how.
* `SuccessesAreBacked`: `Spec => []SuccessIsBacked`. `BackedInv` says it of the
  refunds requests hold, too.
* `RecordedIsFinal`: `Spec => RecordedForGood`, an action property. By `StoreInv` a
  record under a key is that of the request it names; if no request works on the key,
  no step can write it or reach a provider with it (`RecordedStep`).
* `KeepsRefundContract`: `Durable => (Spec => ContractIsKept)`, the implementation of
  `RefundContract`. `Follows` says what a request may conclude: it has saved nothing, or
  its refund as requested, until it saves what came of it, which is true of the
  provider's refund it names. With `StoreInv` every step is a step of the contract or
  changes nothing of it; a `SaveRefund` that fails or that the UNIQUE constraint refuses
  is the latter, and so is a restart.
* `AnswersTellOneStory`: `Spec => []OneStory`, for the database. `InStory`: what was
  answered is the record of its refund, now or as it was requested.

`Velocity_proofs` is for any requests, data, windows and waits, under
`WindowsAssumption`, the only one that restricts anything.

* `VelocityTypeCorrect`, `AttemptsCountOnce`, `JudgementsCountAll`: the inductive
  invariant is `ForgottenIsOld`, an event the store no longer has is more than a
  day old by the clock. So it is older than the longest window, less the wait, of
  any judgement to come: it cannot be missing from an hourly count, and its key
  may count again.
* `FourPass`: `Spec => []FourPassAtMost`. Whoever is recorded last of an hour's
  attempts with a card has counted the others, whatever their order
  (`FifthIsBlocked`). `Judged` adds that a recorded attempt has its verdict.
* `MoreAttemptsNoMilder`: the score card is monotone.

`TransactionStores_proofs` is for any callers, keys, payments and bound of the
clock, from the assumptions that the empty string names nothing, that what is
saved are statuses, that the bound is a natural number and, for the reports, that
limits are integers and the default one is at most the greatest (`ReportAssumption`).

* `StoresTypeCorrect`, `KeysAgree`: `Spec => []TypeOK`, `Spec => []SameByKey`. The
  invariant `StoresInv` adds that no stamp is ahead of the clock, without which the
  in-memory creation time could exceed the database's, that a record is where its
  key and its payment say and goes back to a Save (`FiledRight`), and that a
  payment's record has the creation time of its key's (`SameCreated`).
* `ReportsAgree`: `Spec => []RecordsAgree`. `AllListed`: the payment of every key's
  record is on file; `MapsAgree`: unless a key moves to another payment, a payment's
  record is that of its key. `HistoryGrows` says that a condition on
  the history that holds after a Save held before it.
* `StatusAgrees`: `Spec => []LatestAgrees`, by `NewestIsFiled`: the record filed
  under a payment is its key's, and newer than those of its other keys.
* `PlacesAreKept`: `Spec => OrderIsKept`, an action property, from `SameCreated`.
* `ReportsAreNewest`: `Spec => []ReportIsNewest`, for any number of payments and any order
  of the map. After a round of the inner loop none of the records compared is newer than
  the one in place (`NewestToHeads`), after one of the outer loop the places up to it
  hold the newest in order (`SortSorts`), and all records are still there, each once
  (`ExchangeFacts`); what is left after the cut satisfies the statement
  (`CutIsNewest`). `FinitelyMany` is inductive: finitely many payments are on file.

The recursive functions, `SumOf` over the digits of a card and the loops of the sort,
are reasoned about without the library's induction theorems, which take an operator:
`UpTo` and `FromTo` say that a set with 0, and with each number after one it
has, has all numbers up to n, and are proved from the least number outside it.

### What is only model-checked

* `RequestsEnd` and `CaptureIsSaved` need fairness, and the prover does not reason
  about ENABLED.
* The three properties that are violated, `SingleCharge`, `CapturedStays` and
  `RepeatIsReplayed`.

Every other property of a run is stated by a theorem.

## Plan

Modules, most important first:

1. `PaymentStatus`, `Orchestrator`, `YooKassaGateway`, `PaymentContract`: modelled,
   checked and proved, the implementation of the contract included.
2. `Refunds`, `RefundContract`: modelled, checked and proved, the implementation of the
   contract included. Left of it: amounts, and with them what two
   refunds of a payment under two keys add up to.
3. `PayAnyWayGateway`, `MarkedMoney`, `DigitalRubleScan`: modelled, checked and proved.
4. `TransactionStores`, `TransactionReport`: modelled, checked and proved.
5. `VelocityScore`, `Velocity`: modelled, checked and proved.
6. `CardNumber`, `Routing`, `Access`, `Admission`: modelled, checked and proved.

Left to prove: lemmas on the operators the theorems above do not reach, such as
`Matches` of the reports and the order of the router's rules, and a contract of a
payment with PayAnyWay or digital rubles like `PaymentContract`, to be stated and
implemented by their gateways.

## Not modelled

* Event logging: written, never read.
* Encryption, Vault and card tokens: what a cipher does is beyond a model; that it may
  fail is among the orchestrator's refusals and `Admission`'s failed lookups.
* SOAP and signature encoding, bodies of provider calls and of webhooks.
* The validator's field formats other than the card's check digit and the trimming of
  the key: conditions on one field of one request.
* Notifications of YooKassa about anything but payments: the handler does not look at
  the event's type, and the gateway is taken to be subscribed to payments only.
* The parameters `payment_id`, `merchant_id` and `idempotency_key` of a Pay URL: the
  link the adapter makes sets none of them (`payanyway_adapter.go:88`), so PayAnyWay has
  none to send back.
* The address list for webhooks, which uses the operators of the others, and the
  response headers.
* The static merchant store, which is the same lookup in a table nobody changes.
* Totals of a report; amounts of refunds, and what two refunds of a payment under two
  keys add up to: nothing in the code bounds it.
* Process start-up and configuration beyond which store, adapters and policies are in
  use and which combinations stop the start (`StartUpAssumption`).

## Running

    tlc -config MCSafety.cfg MCYooKassaGateway.tla
    tlapm YooKassaGateway_proofs.tla
    tlapm PayAnyWayGateway_proofs.tla
    tlapm DigitalRubleScan_proofs.tla
    tlapm Admission_proofs.tla
    tlapm Refunds_proofs.tla
    tlapm Velocity_proofs.tla
    tlapm TransactionStores_proofs.tla

and so on for the other runs, whose modules and configurations `PROJECT.json`
lists with the mutant that each property is shown to catch.
