# A formal model of MyMTLWalletBot

MyMTLWalletBot is a Telegram bot that keeps Stellar wallets.  It consists of
one or more bot processes (aiogram handlers, FastStream subscribers and asyncio
tasks in one event loop), a small FastAPI web application for signing in the
browser, Redis (FSM data, pending signatures, notification queues, locks) and a
Firebird database.  Outside are Telegram, Horizon, an operations notifier that
calls a webhook, and WalletConnect.

The modules in this directory model the parts of the program where several of
these actors meet.  TLC checks them on small instances; TLAPS proves every invariant that
the runs check, an action property and a refinement for every instance.

## Inventory

State, operations and interactions of the components; what makes each hard, and
what makes it correct.  PROJECT.json lists the source files of each and every
hazard with its line.

| Component | State | Operations | Hard because | Correct means |
|---|---|---|---|---|
| Notification keys (`notification_redis_store.py`) | hold, flow generation, schedule, list, id set, deduplication set, lock; per user in Redis | Lua scripts, atomic | several processes, TTLs, clocks read before the script runs | list and ids agree; work always has a timely schedule entry |
| Notification delivery (`notification_coordinator.py`, activity middleware, badge button) | locals of each flush, captured generation of each update | `accept`, `flush`, recovery after a lost lease, `complete_flow`, manual flush | each await is a place for other flushes, updates, crashes and lost leases | nothing lost, order kept, extra copies only after a fault, silence during a hold, holds end with their flow |
| Polling worker (`notification_delivery_worker.py`) | the set of flush tasks | `poll_once`, restart | reads its set before and after an await; paged scan of a shared sorted set | no user starved |
| Web App signing (`webapp/app.py`, `signing_worker.py`, `faststream_tools.py`, `signing_facade.py`, `sign.py`) | hash and TTL of a pending transaction, message queue, FSM data | publish, POST, submit / offer / login, cancel, `clear_state` | check-then-write over HTTP, the worker reads FSM data that other handlers change, messages are popped first | cancelled is not sent, one signature is one submission, sign-only is not submitted, the callback of a payment is called |
| PIN signing (`sign.py`, `uri.py`) | FSM state and data | PIN entry, sign, send, resend, SEP-7 callback | long conversations over shared FSM data | what is sent is what was confirmed |
| WalletConnect (`faststream_tools.py`) | pending requests with an event, FSM data | sign request, answer, timeout | ten concurrent requests share the FSM data of one user | a dApp gets the answer to its own request |
| Sealed boxes (`sealedbox.py`, `sealedbox_worker.py`, `webapp/app.py`) | request hash, user pointer | publish, complete, relay | as for Web App signing, and a newer request replaces an older one | one delivery, to the owner |
| Cheques (`cheque.py`, `core/use_cases/cheque`) | cheque rows, history, in-memory queue, FSM data, escrow account | create, claim, cancel | database commits before the network payment, the row is written from FSM data after it, claims queue behind cancellations | the escrow covers what is promised; no share is paid twice |
| Markup lock and badge (`notification_badge_service.py`) | lease per user, last badge | lock, heartbeat, refresh | leases across processes | two writers never edit one keyboard |
| Webhook and subscriptions (`notification_service.py`) | nonce, subscriptions at the notifier | intake, synchronise, watchdog | partial failures of a remote service | every active wallet is subscribed once |
| Payments, swaps, trades, tools, anchors (`send.py`, `swap.py`, `trade.py`, `mtltools.py`, `mtlap.py`, `assets.py`, `wallet_setting.py`) | FSM state, some twenty keys of FSM data, the buttons of the last message | one handler per text, button and command | a text goes to the state, a button comes from the screen, "Back" and commands leave data behind, a photo starts a payment anywhere | what is confirmed is what is signed; a prompt names what its answer is used for |
| Deposits and withdrawals (`inout.py`, `tron_tools.py`) | TRON account, row `usdt_amount`, FSM data, `new_wallet_lock` | check, sweep, payout, retry | row, account and FSM data are read, and used after HTTP calls | no more is paid than came in; what was paid for is sent once |
| Wallets (`add_wallet.py`, `common_setting.py`, `wallet_setting.py`, wallet repository) | wallet rows, the default one, FSM data, `new_wallet_lock` | create, import, switch, protect, buy, delete | every handler acts on the default wallet of the moment; creations and payments take long | the limit of free wallets, a wallet is the user's own when paid, `use_pin` tells how the key is encrypted |
| Counting lock (`counting_lock.py`) | owner, waiting tasks | acquire, release | | one owner |
| Messages, throttling, retry, database pool | small counters and rows | | crash between two steps | |
| Stellar access and cryptography, rendering, administration, start-up | | | | external, formatting or sequential |

## Modules

| Module | Models | Used by |
|---|---|---|
| `NotificationStore` | the Redis keys of one user and every Lua script over them | `NotificationDelivery` |
| `NotificationDelivery` | flushes, updates, webhook, clock, TTLs and faults around the store | checked through `MCNotificationDelivery` |
| `NotificationQueue` | the abstract at-least-once FIFO queue the delivery implements | refinement in `NotificationDelivery` |
| `NotificationWorker` | the polling worker over all users of a process | |
| `NotificationDelivery_proofs`, `NotificationQueue_proofs` | theorems about the delivery | |
| `WebAppSigning` | pending transactions from publication to submission | checked through `MCWebAppSigning` |
| `WebAppSigning_proofs` | theorems about it | |
| `SigningConversation_proofs` | theorems about the module below | |
| `SigningConversation` | confirmations with a PIN or password, and WalletConnect, over the FSM data of one user | checked through `MCSigningConversation` |
| `Cheque` | one cheque: the conversation that pays for it, claims, cancellation, worker | checked through `MCCheque` |
| `Cheque_proofs` | theorems about it | |
| `ConversationData` | FSM state and data of one user, the last message, confirmation and PIN | the five modules below |
| `SendConversation`, `SwapConversation`, `TradeConversation`, `ToolsConversation`, `WalletConversation` | the handlers of one group of routers each | `Conversations` |
| `Conversations` | all of them, in any order | checked through `MCConversations` |
| `Conversations_proofs` | theorems about them | |
| `Deposits` | USDT in and out for one user | checked through `MCDeposits` |
| `Deposits_proofs` | theorems about them | |
| `Wallets` | the wallets of one user | checked through `MCWallets` |
| `Wallets_proofs` | theorems about them | |

### Notifications

A blockchain event is *accepted* by the webhook: the script `_CLAIM_ACCEPT`
drops duplicates, appends the event to the list of its user and schedules the
user in the sorted set `notification:due`.  If the user is in a conversation a
*hold* is in force, and the event waits for its end; otherwise the event is
flushed inline.  The activity middleware *touches* the hold on updates and
numbers each touch with a *flow generation*; a flow that finishes releases the
hold of the generation it captured, and only that.  The poller starts a flush
for users that are due.  A flush takes a lease on the user, and then peeks,
renews the lease, reads the hold again, sends and acknowledges, one event at a
time.  If the lease is lost between the delivery and the acknowledgement, it
acknowledges, without sending, under a second token.

`NotificationStore` has one variable per key and one operator per script: Redis
runs a script atomically, so it is one step.  The fallbacks for a Redis without
Lua (`_without_lua`, lines 513-825) do the same in WATCH/MULTI transactions that
retry, and are the same steps.  The `now` argument of a script was read before
the script ran; `ClockReadings` is the set of readings it may carry.

`NotificationDelivery` has one action per stretch of code between two awaits of
`flush()`: `pc` says at which await a flusher is suspended, `item`, `seen` and
`expired` are its locals.  A flusher is a coroutine, either started by a poller
(`Workers`) or by the webhook or the badge button (`Handlers`).  `JudgeHold`
uses the deadline that `ReadHold` read one step before, as the code does.
`Enter`, `Touch`, `Complete` and `Leave` are the middleware; a background result
that completes "the current flow" takes the same snapshot.  A lease can be lost
at any moment (`LockExpires`), any await of a flush can raise (`Abort`: the
`finally` blocks run, so the flush goes to `release`), and the process can die
(`Crash`: the locals are gone and the lock stays until its TTL).  `accepted`,
`shown`, `copies` and `heldBy` are history variables.

`NotificationWorker` abstracts a flush to its outcome and follows the poller
instead: `Scan` is the paged script, with the limit computed from the tasks that
run when it is sent, and `StartFlushes` counts the free slots when the answer
has arrived.  Users in `Broken` never get their notification.

### Web App signing

A wallet without a key on the server (`pin_type` 10) signs in the browser.
`Prepare` stores in the FSM data what is to be signed, `Publish` writes
`tx:<id>`; `CheckPending`, `StoreSignature` and `Push` are the three Redis calls
of `POST /api/tx/{id}/sign`; the actions from `Receive` to `DeleteKey` are those
of the sequential worker.  `ClearKeys` and `ClearData` are the two halves of
`clear_state()`, called by commands and by the worker.

The state of a key tells whether it still has a TTL and its fields: HSET on a
key that was deleted after the check creates it again, without either
(`rebuilt`).  `flow` holds the two facts in the FSM data that the worker looks
at.  `update_data()` merges, so that a conversation that does not begin with
`clear_state()` inherits the marks of the one before.  The publication is one
step although HSET and EXPIRE are two commands: nobody knows the id yet.
Requests are handled in any order, because the order of the list does not
matter to the properties.

### Signing conversations

A user whose key is on the server confirms with a PIN or a password.  Three kinds of
transactions meet in the FSM data of the user: payments of conversations (`Prepare`,
`Yes`; signed and submitted), pasted transactions (`Paste`; signed and shown, then
sent if the user wants) and requests of WalletConnect (`Arrive`; signed and sent back).
A pasted transaction and a request share `cmd_check_xdr()`: `Check` writes the
transaction, and `Ask` the FSM state and the prompt, after HTTP calls that render it.
`screen` is the last message and `Enter` what the user confirms there.  Two presses
may be under way (the last digit and Enter each run `sign_xdr()`, and so does a double tap
of Enter); `ReadData` to `End` are the awaits of `sign_xdr()`: it reads the FSM data, then
the FSM state, and resets it, in three calls of Redis.  `Press` reads the transaction of a "Send" button, and
`Answer` reads the data again when it answers the dApp.  Another transaction may have come
into the data below such a button: an envelope that is not signed yet is refused by the
network (`Envelope`), and "Resend" is offered.

Commands and Return are one action each, whatever the state, because any command runs
`clear_state()` (Return alone is refused for a while during a submission).  The PIN
pad is the `Enter` of the right PIN; a wrong one changes nothing but digits.  A
password is not tested before `sign_xdr()`, so that `Enter` takes wrong ones too.
`fsm_after_send` is a counter per payment; what the callbacks do belongs to the models
of their conversations (`Conversations`, `Deposits`, `Wallets`, `Cheque`).

`crossed`, `overlap`, `raced` and `failed` are waivers.  `crossed`: a transaction came while
another one was under way (`Underway`: on the screen, in the data, or with a handler that will
sign it), shares its data, and nothing keeps them apart; or `sign_xdr()` read the data of one
and the state of another.  `overlap`: a confirmation ran beside another one or beside an answer
to a dApp, which reset the FSM state.  `raced`: two confirmations of a payment read
`sign_and_send` before either reset it.  `failed`: the network refused it or lost the answer.
`SignedWasSeen`, `SubmittedAsWished` and `AnswersFit` waive only the first.  `CalledOnce` says
when a follow-up is called twice: only for a payment that `raced` or `crossed`.  Both can be;
nothing else, no `clear_state()`, new conversation, button or refusal, has this
effect.  `SignedWasSeen` and `CalledOnce` say what is left: `clear_state()` takes the
PIN with it, so that no command and no new conversation during the test of a PIN can
put another transaction under it.

### Cheques

`EnterCount`, `Confirm`, `Clear` and `ClaimElsewhere` change the creator's FSM data
(`draft` is `send_count`, `xdr` the payment into the escrow account).  A confirmation
`p` is one run of `sign_xdr()`: `Press` reads the FSM data and state (two calls; what comes
between them is in `SigningConversation`), `Sign` resets the state and writes the signed
payment back, `Submit` sends it, and `ReadData`, `Lookup` and
`Create` are the awaits of `cheque_after_send()`, which reads the FSM data *again*.
After a refusal the button "ReSend" is offered: `ReSend` reads the payment that is in the FSM
data by then and `ReSubmit` submits it, without `cheque_after_send()`.  One press at a time is
under way, at any time after the first refusal, since a press may reach the bot after its
message was replaced; a payment that is not signed is refused.
`Open`, `Cash` and `CancelCheque` are the buttons of a cheque; `Cash` checks nothing.  `Take` to
`Refund` are the worker: it takes one item at a time from an in-memory queue, checks
it, commits (`Record`, `CancelRow`), and then builds and pays.  An exception is logged
and the item is gone (`WorkerFails`); a `Restart` loses the queue and the coroutines.

Amounts are counted in shares.  `ledger` holds the payments that reached the escrow
account; the sequence number of a payment (`after`) is what keeps a stale one from
being applied, and one that was applied is confirmed again when it is sent again.
`funded`, `paid`, `refunded` and the causes `late`, `changed`, `wiped`,
`swapped`, `resent`, `failed` and `lost` are history variables: the invariants say what holds
unless one of these causes is present, and each cause can be.  `resent` are the payments that
the button put into the escrow account: nothing writes a cheque for them, so that
`PaidHasCheque` is about the others.  For `ChequeIsFunded` the button is no exception: it may
even pay for a cheque before a confirmation that is still running writes its row.

Two facts of the code shape the model.  The key of a wallet that is created for a
newcomer is stored without encryption and then read with `decrypt()`, which returns
nothing: the claim of a newcomer always fails after its receipt was committed
(`Build`).  And the claim of a user with a wallet is signed only if the escrow account
is the default wallet of user 0 (`Signed`, constant `OneKey`).

### Conversations

Here handlers are atomic, and all of them are present: what meets are the data that one
conversation leaves to the next.  `fsm` is the FSM state, which decides who gets a text;
`screen` is the last message, whose buttons are the only ones that
`CheckOldButtonCallbackMiddleware` lets through (`Pressed`); `data` are the FSM data, one
field per key that a property tells apart.  Amounts and names are left out.  A *deed* is
what a transaction does, and what a message says or asks of it, so that `screen.deed` can
be compared with what `Yes` and `Sign` take from the data.

The order of the routers matters: in some states a command of a later router is a text
for an earlier one (`BeforeTools` to `BeforeSwap`).  A command begins with
`clear_state()`, except for a few (`/about`, a link); a photo with a QR code and an
address as a text do not, and start a payment in the middle of anything.  `mixed` is set
then, and weakens five of the six properties.  `Confirm` stores the request of a
signature and shows the message with "Yes"; `Request` is `request_signature()`, which
resets what the conversation before may have left; `Sign` is `sign_xdr()` for a wallet
with its key on the server.

### Deposits

`chain` is the balance of the user's TRON account, `row` the column `usdt_amount`.  A
check (`StartCheck` to `PayIn`) waits for `new_wallet_lock`, looks at the account, writes
the row and pays in USDM, in this order.  A sweep (`StartSweep` to `UpdateSweep`) reads the
row, provides TRX and energy, transfers all of the account and subtracts what it had
read.  A withdrawal (`Prepare` to `SendPayout`) is a payment in USDM, after which
`cmd_after_send_usdt()` sets `out_pay_usdt` and tries the payout; "Check" tries it again.
`tx` is the payment in the FSM data and `ready` the FSM state in which it can be confirmed.
Any number of confirmations may run: `Confirm` reads the data and the state (in one step, as
in `Cheque`), `Sign` resets the state and writes the payment back, `Submit` sends it.  A payment
that was accepted is confirmed again when it is sent again (`Applies`), and its follow-up runs
again.  `ReSend` and `ReSubmit` are the button below a refused payment, which has no follow-up.
A handler is the coroutine of a button, of the end of `sign_xdr()` or of `usdt_worker()`.

`clear_state()`, a restart, a transfer that fails and one that succeeds without an answer
are in the model.  The `causes` are the cases in which the code promises nothing:

* `sweeps`: two sweeps overlap.  Both subtract the row they read, the row becomes
  negative, and the next checks pay once more.
* `cleared`: `clear_state()` ran between the payment and the payout.  Between submission
  and `cmd_after_send_usdt()` it leaves `out_pay_usdt` without an address; the payout
  then raises a `ValueError` each time.
* `crossed`: another withdrawal was prepared during the payout of the first.  The success
  of the first clears the flag of the second.
* `twice`: two confirmations of one payment read the FSM state before either reset it.  Both
  submit it, both run `cmd_after_send_usdt()`, and the second sets the flag again after the
  payout of the first: USDT is sent twice for one payment.
* `resent`: the button "ReSend" paid for the withdrawal.  `cmd_after_send_usdt()` does not run,
  and nothing sends the USDT.
* `doubt`: a payout was sent without an answer.  "Check" sends it again.
* `lost`: the payment was accepted and `sign_xdr()` does not know it, or the process
  ended before the flag was set.

### Wallets

`wallets` are the rows of one user, `default` the one with `default_wallet`.  A creation of
a Stellar wallet is `AddKey` (count), `LockKey` (wait for `new_wallet_lock`, count in the use
case), `CreateKey` (commit), `SubmitKey` (account and trust lines) and `EndKey`, which calls
whatever `fsm_after_send` is in the FSM data by then.  A TON wallet is `AddTon` and
`CreateTon`, without the lock.  `lock` in a row tells how the key is encrypted: with the id of
the user, with a PIN or password, or (read only) not at all; `ChangeWalletPassword` returns
without an effect when the old one does not fit (`Protect`).  Passwords (`use_pin` 2) are
PINs here.

The properties name four causes, and a behaviour has at most `MaxCauses` of them:

* `raced`: a TON wallet was created between the count and the creation of another one.
  The limit is exceeded then.
* `switched`: the default wallet changed while a payment for it, or the choice of its
  password, was under way.  `cmd_after_buy()` then frees another wallet and sets its
  `use_pin` to 0 while its key stays encrypted with its PIN, although `buy_address` is in
  the FSM data.
* `crossed`: "Buy" was pressed during a creation.  `cmd_buy_private_key()` stores
  `cmd_after_buy` before it looks at the money, and the end of the creation calls it.
* `twice`: a wallet was paid for twice; the second `cmd_after_buy()` resets the `use_pin` of
  a wallet that was protected in between.

## Runs

| Run | Question | Bounds |
|---|---|---|
| `NotificationHolds` | Is queued work scheduled in time, and quiet under its hold?  Who ends a hold? | 1 event, poller + handler, 2 updates, 2 touches, 4 seconds, holds of 2 s, clock lag 1 s, 1 fault |
| `NotificationLeases` | Is anything lost, reordered or repeated when leases are?  Does the delivery implement the queue? | 3 events, 2 pollers + handler, no holds, 2 faults |
| `NotificationLiveness` | Is everything delivered, and the lock freed? | 1 event, poller + handler, 1 update, 1 touch, 3 seconds, 1 fault |
| `NotificationPolling` | Are healthy users served? | 3 users, 1 broken, batch 2, 1 page, 3 seconds |
| `WebAppSigning` | What can cancellation, one signature, sign-only flows and callbacks rely on? | 2 transactions, 2 POSTs, 1 fault |
| `WebAppCancel` | Does "Signing cancelled" mean that nothing is sent?  (It does not.) | 1 POST, no fault |
| `SigningConversation` | Is what is signed, submitted and sent back what the user saw and asked for?  When does a follow-up run twice? | a payment, a pasted transaction, a request; 2 confirmations, 1 button, 1 fault; PIN; 2 crossed |
| `Cheque` | Who is paid how often, is the cheque funded, and what do commits before payments leave behind? | creator and newcomer, 2 confirmations, 1 press of "ReSend" at a time, counts to 2, 3 clicks, 1 fault |
| `Conversations` | Does a confirmation or a PIN do what the message says, and does an answer mean what the prompt asked for? | 2 assets, 2 addresses, 2 orders; no bound on the length |
| `Deposits` | Is more paid than came in?  Is a withdrawal sent once, and is it sent? | 2 handlers, sums of 1 or 2; deposits and number of withdrawals 2 together; 1 cause, 1 fault |
| `DepositUnchanged` | Is "balance unchanged" said only when there is nothing to pay?  (It is not.) | 3 deposits, 1 handler, no fault |
| `Wallets` | Does the limit of free wallets hold, is a wallet paid for, does `use_pin` tell the encryption? | 3 wallets, 2 of them free, 2 handlers, 1 cause, 1 restart |

Why these bounds show the interesting cases:

* *Holds.*  Two touches let a hold be renewed or replaced while a flush or an
  older update still refers to the first one.  Four seconds let a hold of two
  expire with a second hold after it.  A clock lag of one second is the case in
  which a deadline is computed before and compared after a tick.  Since the
  claims under test concern one event and one hold, one event is enough; a
  handler and a worker are the two ways of flushing.
* *Leases.*  Three flushers and two faults allow a flush that lost its lease, its
  successor, and a third one that finds the lock of either.  With three events
  the head may change twice under a flusher that has lost its lease.  Holds only
  suspend a flush and are left to the other runs.
* *Polling.*  One page of a batch of two is less than the number of users, so
  stale entries, renewed holds and the broken user can hide others.
* *Web App.*  Two transactions are one being processed and one of a later
  conversation; two requests are the overlap of two windows.
* *Signing conversations.*  One transaction of each kind: the second one is what the first may be
  taken for.  Two confirmations are the overlap of two, or one before and one after a
  `clear_state()`.  `MaxCrossed` ends a behaviour when the third transaction would have crossed:
  nothing is claimed about crossed ones, and there is no fourth.
* *Cheques.*  Two confirmations overlap, follow each other, or are a change of the
  count and a repetition.  Three clicks are a double claim and a cancellation in any
  order; two shares are one that is claimed and one that is refunded.  The newcomer
  is the claim that fails after its commit, the creator the one that succeeds and whose
  FSM data is shared with the conversation.
* *Conversations.*  With two of each kind, one can be what the other is taken for.  All
  variables are finite, and the run is exhaustive.
* *Deposits.*  Two handlers are two checks, a check and a sweep, two confirmations, a
  confirmation and the button "ReSend", two payouts, a payout and a new conversation; handlers
  start again and again.  Two deposits are one before and one after a sweep (the finding needs
  three), two withdrawals one that is taken for the other.  The two directions share
  the lock only, and one bound (`MaxMoved`).  One cause per behaviour is enough, as in *Wallets*.
* *Wallets.*  A limit of two and room for a third wallet show one that is too many (the
  code's limit is three: every count is compared with the constant).  Two handlers are two
  creations, or a creation and a payment.  One cause per behaviour is enough, because a
  property that holds without its causes is checked in the behaviours of the others.

Each property has a mutant in PROJECT.json, a plausible bug of the code that TLC
must find to violate it.  The mutated operators stand beside the originals and are
marked as mutants.

### Fairness

Safety properties are checked without fairness.  `FairSpec` of
`NotificationDelivery` assumes that pollers poll until the process is stopped
(`run()` loops), that a suspended coroutine goes on (every wait of a flush has a
timeout), that time passes and that Redis applies TTLs.  ADR-0002 notes that asyncio
timeouts are cooperative: a driver that resists its cancellation is outside of this
assumption, and `NotificationWorker` covers it by letting a flush hang.  Deliveries are *strongly* fair: Telegram may refuse any number of
times but not for ever.  Nothing obliges the user to act, the webhook to call or
a fault to occur.  A lock that expires under a live owner is a fault; under a
dead one it is an effect of its TTL, and fair.  In `NotificationWorker` only the
flushes of healthy users end; that of a broken one may hang.

## Proofs

For any sets of events, flushers and updates, any clock lag below the hold and any
bounds on touches and faults (the assumptions `StoreAssumption` and
`DeliveryAssumption`), TLAPS proves:

* `TypeCorrect`, `NeverStranded`, `AlwaysWokenInTime` and `FlowsOwnTheirHold` in
  `NotificationDelivery_proofs`;
* `NothingLost`, `ListAndIdsAgree`, `OrderIsKept`, `HoldsAreKept`, `FaultsExplainCopies` and
  `Refinement` in `NotificationQueue_proofs`.

The argument is a chain of inductive invariants, each using the ones before it.

1. `TypeInv` adds to the types that a flush in the stages from `renew` to
   `reack` carries an event (`Carries`).
2. `ScheduleInv` strengthens "queued work has an entry" to *OnTime*: an entry is
   due now or no later than the hold in force.  It needs that every
   deadline a flush saw passing is in the past (`ExpiredHavePassed`), for
   otherwise the cleanup of an expired hold could drop a hold in force.  The same
   fact gives the action property `HoldEndsWithItsFlow`.
3. `QueueInv` relates the list to what each flush carries.  A lease may be lost
   at any time, so that a lock does not tell who may pop.  What does is the
   comparison of the head: a flusher acknowledges what it carries, what it carries
   is the head or was shown already (`CarriesHead`), and once it is about to
   acknowledge it has been shown (`AckedShown`).  Hence a pop never drops an event
   that nobody saw.
4. `OrderInv` says that the events that were not shown wait in the list in the
   order of `accepted`; with the deduplication set forgotten at any time an event
   may be queued again, but then it was shown before.
5. `HeldInv` gives `QueuedStaysHeld`: while the flow under whose hold an event was accepted is
   still the latest, the deadline has not changed, so that what `JudgeHold` compares, one
   step after it was read, is the deadline in force.  A new flow has a new generation.
6. `CopiesInv` gives `CopiesNeedFaults`.  A bound on a counter is not inductive: the invariant
   adds what can still raise it (`Counted`): flushers that lost the lease between renewal
   and send (`Late`), an entry the deduplication set would accept again, and the event
   at the head that the owner of the lease is about to send.  Each fault pays for one.
7. `Refinement` maps `queue` to `pending`; every action is a step of
   `NotificationQueue` or leaves its three variables alone.

For any sets of transactions and requests (finitely many) and any bound on faults
(`SigningAssumption`), `WebAppSigning_proofs` proves all six invariants of the run
`WebAppSigning`.  `SigningInv` is their inductive strengthening:

* `FreshInv`: a key is pending once, and only before a signature was written, so that a
  cancellation then is final (`CancellationIsFinal`).
* `OnceInv`: without an overlap of two requests, the signature is at one place (request,
  message, worker) or was submitted (`OneSubmission`).
* `CountInv`: messages and submissions never outnumber the requests that got through;
  `TypeOK` needs it for the bounds on `queue` and `submitted`.
* `UseInv`: the FSM mark outlives everything but a `clear_state()` (`UserDecidesUse`).
* `RebuiltInv`: a hash without the published fields was rebuilt
  (`CallbackAfterPayment`); `RebuiltKeysGo` is inductive as it stands.

For any set of handlers and any bounds on wallets, causes and faults, with a limit of at
least one free wallet (`WalletsAssumption`), `Wallets_proofs` proves the three invariants of
the run `Wallets`:

* `FreeInv`: who has counted, or has created and not yet submitted, owns `new_wallet_lock`;
  unless a creation of a TON wallet raced, at most one handler is between count and row, and
  then there is a place (`FreeLimit`).
* `BoughtInv`: `cmd_after_buy` is in the FSM data only on the screens of a purchase, and a
  payment is for the default wallet of the moment or that was switched (`BoughtIsPaid`).
* `LockInv`, on top of it: a wallet that is being paid for is free still and nobody else pays
  for it, and a password is chosen only for the user's own wallet (`LockIsKnown`).

For any handlers, sums and limits, and any bounds on deposits, withdrawals and failures
(`DepositsAssumption`), `Deposits_proofs` proves all three invariants of the run
`Deposits`:

* `LockInv`: whoever looks at the account, pays or sends owns `new_wallet_lock`.
* `MoneyInv`: while one sweep runs at a time, what was paid is covered (`Covered`) by what was
  deposited, and the part of it that is still on the account by the row, also by what the
  row will be when the sweep ends.  The sum that a check is about to pay counts as paid, so that a
  check that began before a sweep and ends after it is safe.
* `OwnInv`: who submits a payment has one, and a payment that was applied has an older sequence
  number than the account has now, so that a new one was not.
* `PayoutInv`: without the race, the confirmation of a payment, the call of
  `cmd_after_send_usdt()`, the flag and the payout exclude each other, and each but the first
  stands for a payment of that sum that was not sent (`SentWasPaid`); so does a confirmation of
  a payment that "ReSend" has put through already.
* `SentInv`: conversely a payment that was not sent has the flag, or the call that sets it, to
  stand for it, and a payout sends the sum of the FSM data (`PaidIsSent`, for each sum).  It
  holds with the race too: confirmations that run together submit the same payment, and as
  long as it was not accepted there is neither a flag nor a call that sets one.

For any finite sets of users and confirmations, and any count, clicks and failures
(`ChequeAssumption`), `Cheque_proofs` proves all five invariants of the run `Cheque`:

* `WorkerInv`, `ShareInv` (`OneShareEach`): the receipt of a claim comes before its payment.
* `DrawInv` (`NeverOverdrawn`): the receipts never outnumber the shares; after a cancellation,
  those of claims that were taken before it no longer change.
* `FundInv` (`ChequeIsFunded`): a confirmation pays for the count that it will read.
* `AfterInv` (`PaidHasCheque`): as soon as a confirmation has put a payment into the escrow
  account, a row is there or somebody still has it to write.
* `CommitsAreHonoured` is inductive together with the first three.

For any transactions, confirmations, buttons and faults (`ConversationAssumption`),
`SigningConversation_proofs` proves all four invariants of the run `SigningConversation`:

* `SeenInv` (`SignedWasSeen`): a PIN in the FSM data stands for a transaction that was on the
  screen, or for one of two that came into the same data.
* `FreshInv`, `CarriedInv`: a transaction that `cmd_check_xdr()` has not stored yet is nowhere;
  what a handler carries past `sign_xdr()` was signed.
* `FitInv`, `AnswerInv` (`AnswersFit`): what is in the data of a request that nothing crossed is
  its own transaction, on the screen, under the buttons and with every handler.
* `WishInv` (`SubmittedAsWished`): the FSM state tells what is only to be signed, and what it
  lets be submitted the user asked to be sent, with "Yes" or with a button.
* `OnceInv`, `PairInv`, `MetInv`, `FollowInv` (`CalledOnce`): "Yes" arms the follow-up once,
  one confirmation takes it unless two read the state before either reset it (`raced`), and a
  payment that nothing has met keeps it until it is called.

`SignedWasSeen` and `AnswersFit` are proved with a PIN and with a password.  The last two
assume `Password = FALSE`, and the code needs it: `cmd_password()` goes on with
`sign_and_send` whatever was asked for (see the findings).  TLC finds both properties
violated with a password: what was to be signed only is submitted, and when the request of a
dApp comes into the data of a payment, the follow-up of the payment is called once for each.
The assumption is in the statements of these theorems.

For any sets of assets, addresses and orders (`DataAssumption`), `Conversations_proofs` proves
all six invariants of the run `Conversations`, over all 116 actions of the five modules.
The two histories `given` and `chosen` are compared with the FSM data by a chain again:

* `ShapeInv`: the data have all of their fields, so that what one handler writes leaves the
  others as they were.
* `QuestionInv` (`QuestionFits`): the last message tells the FSM state, also for the lists and
  the PIN prompt; in a list no text is awaited, so that a button there cannot end in the
  state of another conversation.
* `RecipientInv` and `PayInv` (`RecipientAsGiven`): while a payment is under way its recipient is
  the address given last, its memo and the stars belong to it, and no follow-up or function
  of another conversation is in its data; below an activation no request is pending.
* `PromptInv` (`PromptIsCurrent`): in the states that show a kept prompt again, or that may
  after "Back", the prompt names what the data say.
* `SignInv` (`ConfirmedIsSigned`, `PinDoesAsTold`): the request of a signature is the one on
  the screen, and in the states from which a confirmation without a request of its own can
  be reached (activation, donation) none is left.  "Yes" below an activation needs
  `PayInv`, that of a payment `RecipientInv`.
* `OrderInv` (`OrderAsChosen`): from the menu to the confirmation of an order the data name the
  order that the user chose, and the menu and the market none.

The parts of "Send" that several handlers share (`cmd_send_04()`, `cmd_send_for()`,
`cmd_send_choose_token()`, `cmd_create_account()`, the confirmation, the order) have a lemma
each that says what they leave behind, whatever data they are called with.  What the handlers
that start from no data make of them (`Pair`, `Ended`, `Asked`) and that a record with all
fields keeps them (`Full`) are lemmas about records, stated before any invariant is in scope;
the step proofs cite them and never expand a record of 23 fields.  No leaf of the eight proof
modules needs much of the prover's time: each is found in a tenth of the default timeouts
(`tlapm --stretch 0.1`).

Only model-checked: `NotificationWorker`, whose only property is a liveness property, and the
other two of the run `NotificationLiveness`, because liveness is out of the prover's reach.
The two runs that expect a violation have nothing to prove.  What a recursive definition
computes for every input would need induction over data; no theorem here does.

## Findings

* **A cancelled transaction can be sent** (`WebAppCancel`).  The web application
  checks the hash and writes it in two commands, and the worker does not look at
  whether the key was cancelled.  `UnsignedStaysCancelled` states what does
  hold: a cancellation that no request had passed is final.
Disagreements met while modelling that have no run of their own:

* The worker of the Web App calls `fsm_after_send` without `app_context`, which all
  callbacks of the routers require (`signing_worker.py:154`): the call fails each time.
* With a password, `cmd_ask_pin()` replaces the state `sign` by `ask_password`, and
  `cmd_password()` goes on with `sign_and_send`: what was to be signed only is submitted.
* Two confirmations in quick succession (the last digit and Enter, or Enter twice) that read
  the FSM state before either resets it (`sign.py:579-581`) both submit the payment, Horizon
  confirms the second as it did the first, and `fsm_after_send` is called twice.  For a
  withdrawal USDT is then sent twice.  `CalledOnce` and `SentWasPaid` name this window.
* "ReSend" submits a payment that was refused without what should follow it (`sign.py:1179`): a
  cheque has no row then, and a withdrawal is never sent.
* `ClaimCheque` counts the receipts and never looks at the status: a claim that waits behind
  the cancellation is paid on top of the full refund.  `NeverOverdrawn` states what does
  hold: without such late claims, shares and refund stay within the cheque.
* The confirmation of a new account (`send.py:1082`) stores no pending request, and "Yes"
  prefers one: after the QR code of a payment and that of an inactive address, "Yes" below
  the activation signs the payment.
* `cb_donate_sum()` takes every button of its state for an amount (`common_start.py:458`), "Yes"
  too: a donation to the bot cannot be confirmed.
* `get_donate_sum()` and `cmd_buy_private_key()` store what follows the payment before they
  know that there will be one.
* The tools for donations ask for the address again in the state of the name or of the
  percentage; what is typed then is taken for that.
* "Back" from the amount to the assets keeps `cancel_offers`; a QR code that could not be used
  goes before an address that is typed later; the memo of a payment is kept when the address
  comes from a QR code.  `CheckOldButtonCallbackMiddleware` lets every button through while
  `last_message_id` is 0.
* `BTC_CHECK` (`inout.py:1024`) and the payment of stars (1185) call `SendPayment.execute()`
  with a parameter `password` that it does not have.
* An imported key has `use_pin` 1 and the id of the user as PIN until one is chosen.
  `ChangeWalletPassword` fails without a message, and "Password was unset" is shown anyway.
* A creation that fails after the commit leaves the row of a wallet without an account.
  Deleting the default wallet leaves none.

Good to know as well: `HealthyAreServed` needs fewer broken users than
the batch has places, since a user whose delivery fails keeps its place at the front
of the schedule; `OfferedNotSubmitted` needs that no `clear_state()` ran since
the transaction was prepared, which any command of the user does.

`crossed` is reachable as well: `request_wc_signature()` and `cmd_check_xdr()` write the
FSM data of a user who has the prompt of a payment on the screen, and the prompt follows
later; a confirmation in between signs the transaction of the dApp in the mode of the
payment.

The waivers of the cheque invariants are reachable.  `swapped` is the most
expensive: the worker stores the payment of a claim in the FSM data of the claimant
(`cheque.py:744`); if that user is confirming a new cheque meanwhile, `sign_xdr()`
signs the claim instead, Horizon confirms what it has applied already, and
`cheque_after_send()` writes a cheque that nobody paid for.

## Plan

1. Done: a theorem for each invariant that a run checks.  Next: the lemmas that would let
   `CalledOnce` drop `overlap` for two confirmations of different payments, and a
   specification of one confirmation that `SigningConversation` and `Conversations` implement.
2. Sealed boxes: replacement, completion against relay.
3. Markup lock and badge; the timed lease with heartbeat and deadline that it shares
   with the flush lock.
4. Webhook intake (event keys: two operations of one payload may share one) and the
   synchronisation of subscriptions, which reads an error of the notifier as an empty list
   and deletes one by one before it creates in bulk.

## Not modelled

* Outside of the bot: the Stellar SDK, Horizon, TRON, Telegram, cryptography.  Their answers
  are choices: success, failure, and success without an answer where the code can meet it.
* Rendering, keyboards beyond their buttons, translations, Grist and BSN queries: no state.
* In the conversations: wallets without a key on the server (`pin_type` 10; their signing is
  `WebAppSigning`), exceptions of HTTP calls between two changes of the FSM data, messages
  older than the last one, amounts, and the code that the buttons of the market carry.
* In `Deposits`: sats and stars, TON, the provision of TRX and energy, fees (`usdt_in_fee` is
  0), the remainder of 0.001 USDT, and the correction of a row by an administrator.
* In `Wallets`: the balance cache, duplicates of a default wallet and write conflicts of
  Firebird, other payments, the wait of five minutes that "Return" imposes after a
  submission, and `repo.update()` writing back all columns it read before.
* A database session and its transactions: a commit is one step.
* SEP-7 callbacks and sign tools, transactions in several messages, throttling, retry, the
  message worker, the health report and the start-up.
