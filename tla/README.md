# Verification of Computer Room Manager

This directory is a formal companion of the Computer Room Manager repository: TLA+
modules that model its core logic, TLC configurations that check small instances
of them, and proofs that TLAPS checks for every value of the constants.

The definitions are translated from the code under `src/apps/api/src`,
`src/agent/src/CrmAgent`, `src/packages/shared/src` and the Prisma schema.
`PROJECT.json` maps each definition to the lines it stands for, and lists the
components, the runs, the mutants that show that each property can fail, the
hazards of the code and the theorems.

To repeat a check: `tlc -workers 2 -config Sales_overlapping.cfg MCSales.tla`, and
`tlapm Charges_proofs.tla` for the proofs of a module.

## 1. The system

A chain of rooms with rented computers. Staff use a web console, customers use the
computers and a kiosk, and every computer runs a Windows service, the agent. One
NestJS API serves all of them over one PostgreSQL database (Prisma). There is one
API process in the shipped deployment, but many requests are served at a time: each
`await` of a handler is a point where the others run.

| component | state it keeps | operations | interacts with |
|---|---|---|---|
| Balances and ledger | `customer_balances`, append-only `customer_balance_transactions` | `apply`, `applyWithin` | called inside the transactions of sessions, sales, charges and print jobs |
| Pricing (`money.ts`, group prices) | none, pure | `computeSessionCharge`, `segmentCharge`, `roundMinor`, `couponDiscount` | sessions, sales |
| Usage sessions | `usage_sessions`, status of computers | open, addTime, transfer, pause, resume, close | balances, pricing, agent (status), profiles |
| Sales, card payments | `sales`, `payments`, `refunds`, `coupon_redemptions` | createSale, prepare, callback, settle, refund | balances (packages), provider Nedarim Plus, cash shifts |
| Cash register | `cash_shifts`, `cash_movements` | openShift, movement, closeShift | sales and refunds |
| Agent, server side | `computer_agents`, `agent_commands` | provision, register, heartbeat, commandResult, sendCommand | agent service over HTTP |
| Agent, Windows service | token, secret, batch, all in memory | start, register, heartbeat loop, execute, report | server |
| Subscriptions and jobs | `subscriptions` | create, createExternal, cancel, hourly `processDue` | balances |
| Print jobs | `print_jobs` | create, approve, cancel | balances |
| Authentication | `refresh_tokens`, second factor of an employee | login, refresh, logout, set-up | web console |
| Access profiles | `access_profiles`, customer's reference | create, update, remove, ensureDefaults, applyToComputer | sessions, agent commands |
| Numbered things | sequences in `organization_settings`, tickets, waiting list | issueInvoice, create, join | sales, customers |
| Kiosk | one-time codes in the memory of the process, signed kiosk tokens; the page's state | request and verify a code, home, buy, open a station, finish | sales, sessions |
| Till page and card dialog | cart, sale that is awaited, dialog, polls: all in a browser | sell, prepare a card payment, poll, confirm by hand, pay again | sales, provider, its callback |
| Managers' forms | a copy of the row, what was typed | load, type, save | settings, access profiles, floor plan |
| Bootstrap and seed | tenant, roles, permissions, branch, owner | statement by statement at each start; by hand | none while it runs |
| Inquiries | `customer_messages`; list, open conversation in a browser | write, list, open, mark read, reply | |
| Consents | versions of documents, signatures | create, activeFor, sign | customers |
| Worklists: reservations and tickets | status of a row, time it was resolved; the pages that show it | confirm, check in, cancel; start, resolve, edit | |
| Reports and dashboard | none | revenue of a range in three queries, metrics | payments, refunds, sessions |
| Import of customers | customers, their balances | a row at a time | numbers |
| Permissions, realtime events, printers, audit, storage, shell | see `PROJECT.json` | | |

What is hard in this code, and what the models look at:

* **Read, then write.** Nearly every handler reads a row, decides, and writes in
  later statements without a lock or a test in the `WHERE`. The models keep what a
  request has read in its own record while others write.
* **Transactions that protect less than they seem to.** Prisma's interactive
  transactions run at READ COMMITTED: they are atomic but they do not repeat a read.
* **Failure half-way.** A request dies between two statements; a sweep dies in the
  middle of its rows; a report of the agent is lost; a provider calls twice.
* **Money.** Rounding, minimum charges, segments at different prices.
* **Processes without memory.** The agent forgets its batch and its secret when it
  restarts, the API the one-time codes of the kiosk.
* **Pages that are behind.** A browser acts on what it loaded last. An answer comes when
  the page shows something else, a form saves every field it shows, a button is pressed
  that another desk has made pointless.
* **Programs that run again.** Bootstrap runs at each start and must finish what a start
  that died has left.

## 2. Modules

| module | models | abstraction it is, or is checked against |
|---|---|---|
| `Accounts` | an account: cached balance and its ledger rows; the guard and the writes of `applyWithin` | |
| `BalanceTx` | `BalanceService.applyWithin`, one action per SQL statement, with row locks, rollback and aborts | `Ledger` |
| `Sums` | what the code adds up over rows; used by `Accounts`, `CashDrawer`, `Sales` | |
| `Pricing` | the formulas, exact | `Meter` relates them to exact fractions |
| `Sessions` | `SessionsService`, one action per database call | history `meter` of what was really used |
| `Sales` | `SalesService`, `PaymentsService`, coupons | `Purchases` |
| `Agent` | `AgentService`, `ComputersService.sendCommand`, the Windows service, the HTTP calls between | history of what was handled, and of reports that failed |
| `Charges` | `SubscriptionsService`, `JobsService`, `PrintService` | ledger rows of the charges |
| `Tokens` | `AuthService`, the block of an employee | history of ended families |
| `CashDrawer` | `CashService` | history: which entries were made while a shift was open |
| `Numbers` | `issueInvoice`, `nextCustomerNumber`, tickets, `WaitingListService`, the import of customers | |
| `Profiles` | `AccessProfilesService`, the reference in customers | history: what was deleted when a guest sat down |
| `Kiosk` | `KioskService` and the kiosk page, a call being sent, served and answered | history: codes sent and sign-ins issued |
| `Checkout` | the till page, its card dialog, the provider's frame and callback | history: charges made, the sales a page gave up waiting for |
| `Forms` | settings cards, profile form, floor plan: three shapes of one form | |
| `Bootstrap` | `BootstrapService`, the seed, one action per statement | history `cut`: where a program died late |
| `Inbox` | the inquiries page and the calls it makes | history: messages shown |
| `Consents` | `ConsentsService` | |
| `Worklists` | `setStatus` of reservations, `update` of tickets, the buttons of both pages | |
| `Reports` | `revenue`, `resolveRange`, `metrics` | |
| `MC*` | instances for TLC | |
| `*_proofs` | the theorems: one module each for `BalanceTx`, `Sessions`, `Sales`, `Agent` and `Charges`; `Pricing_proofs`, with the lemmas on sums over sequences and sets that the others use; `Services_proofs` for `Numbers`, `Profiles`, `Bootstrap`, `Meter` and the types of all parts of the server; `Pages_proofs` for `Kiosk`, `Checkout`, and the types of all pages and of `MCParts` as a whole |

`Ledger` and `Purchases` are specifications of what the rest of the system may rely
on. `BalanceTx!ImplementsLedger` and `Sales!ImplementsPurchases` are the refinements;
the mapping of the first is the identity on the committed accounts, that of the
second turns the status of a sale and the ledger rows it wrote into a stage and what
was delivered. `Purchases` promises that a sale paid at once is delivered in full, once,
in the step that creates it, and that an ordered one is delivered in full by each
settlement that had found it unpaid, and by nothing else. It does not promise that there
is one such settlement: the code does not (finding 4).

### How the models correspond to the code

* A **handler** is a sequence of actions. The first reads, and stores what it has
  read in the record of the worker (`req`, `serving`, `desk`, `writer`, `editing`).
  Each later action is one database call. A handler that throws goes back to idle,
  and a refusal without an effect on any state is not an action.
* **Transactions** have their statements as actions in `BalanceTx`. In `Sessions` and
  `Charges` a transaction that changes a balance reads it in one step and writes the
  absolute value, with all else it writes, in another: whatever is committed between the
  two is overwritten, as in `balance.service.ts:41-59`. In `Sales` it commits in one step,
  since no property there compares balances. A transaction that waits for a lock in
  `Numbers` and `Profiles` keeps it for more than one step: there the wait is the point.
* **`upsert` with an empty update** of `applyWithin` is a plain read: every customer is
  created with a balance row, and Prisma issues a `SELECT` first. It takes no lock.
* **Rows** that refer to each other one to one are one record: a sale and its payment,
  a computer and its agent, a customer and its balance.
* **Histories** (`meter`, `done`, `issued`, `ended`, `firstEnd`, `gone`, `cut`) are variables
  that no code writes. They only record what happened, for the properties.
* **Time** is a counter: of fractions of a second in `Sessions` (`PerSecond` of them, a
  tick is `TickLength` long), of days in `Charges`, thirty-second steps in `Tokens`. `Agent` has one clock for server and computers: the
  expiry of a command is compared on the computer with a date the server made, and a
  difference between the two clocks would only move the expiry.
* **Numbers** are exact integers and fractions. The code uses doubles; every amount is
  far below 2^53, so only a tie exactly at half an agora can round differently. A
  billing ratio is held in hundredths and not negative. A rounding rule the code does
  not know acts as `NEAREST` in `roundMinor`, so the models have three rules.
* **`Sessions`.** A segment counts whole seconds, `Math.floor` of the milliseconds since the
  checkpoint, and the checkpoint moves to now, so that each pause, move and close forgets
  less than a second. The groups of computers do not change, their prices do. Pay-per-use
  and subscription sessions are charged elsewhere. `AgentRegister` is the line of
  `register` that sets a computer to AVAILABLE, whatever it was.
* **`Sales`.** A line may be of several packages; it is credited once, as in the code
  (section 6). A coupon whose limit is 0 or missing has no limit. The branch of `settle`
  without a payment id is unreachable from any caller and left out.
* **`Agent`.** A registration finds the agent by its token in one step and burns the token
  in a later one; the service gives a call up and sends another while the server may still
  be at work on the first. A report finds the command in one step and updates it in
  another, whatever its status is by then; one that was given up may be served at any later
  time, or never. Nothing depends on the audit row of a report. A heartbeat is one query, which
  marks nothing: a command stays QUEUED until it is reported. Credentials live in memory
  only, as in `AgentConfig`. The status REJECTED exists in the schema and no code stores it.
* **`Tokens`.** Wrong passwords and codes change nothing and are left out, and so are
  `lastLoginAt` and the life of access tokens. A login of an employee is one who knows
  the password.
* **`Charges`.** Periods are one day long in the model; the code's month is only ever
  added. `findMany` gives its rows in any order.
* **`Profiles`.** A profile is named for its level; its switches are copied and nothing
  decides on them. `ensureDefaults` creates the three of them one by one.
* **`Kiosk`.** A phone stands for its customer. A page has one call at a time; the call
  carries what the page had when the button was pressed, and may fail or be lost on
  either way. After a sign-in whose home page failed to load, only a reload leads back. A
  purchase whose answer is lost may be made again: there is no key. A request that is
  lost is not served later. Preparing a payment counts as buying.
* **`Checkout`.** A sale is goods and a status; what it does is in `Sales`. A double click
  on the card button prepares two payments: the second replaces the fields of the dialog
  while the poll stays on the first. Each press of "pay" carries a fresh key. The clerk edits
  the cart and leaves the dialog whenever the page lets him. A manual confirmation may be
  refused, which the page announces as a success all the same.
* **`Forms`.** The settings cards lay what was typed over the row loaded last, the profile
  form copies the row when it is opened, the floor plan at the first drag. The button of a
  card or of the profile form is disabled while a save is under way; that of a floor plan
  is not, so that several of its saves may be, and are served in any order.
* **`Bootstrap`.** The catalog of permissions is global in the database, and a row per
  tenant in the model, where at most one tenant needs it at a time. Two roles stand for all.
* **`Inbox`.** Messages of customers come from outside. The text of a reply is left out,
  and with it that the success of a reply clears what was typed meanwhile.
* **`Worklists`.** A status is one that a button of the page leads to, as the page last
  listed the row; `NO_SHOW` has no button. Buttons are not disabled while a call is under
  way: calls overlap, are lost, and are served in any order. The times of reservations are
  not compared by any code. The lists share nothing, and a behaviour is about one row.
* **`Reports`.** All days lie in one week, so that the presets of a week or longer begin
  before the first row. A sale has one payment, which is completed at
  once or, by card, later than it was prepared, on another day too. Payments and refunds are
  summed for all branches, sessions for those the user sees, as in the code.
* **`Numbers`.** The import draws a number per line of the file; a line that fails ends alone.
* Everything is of **one tenant** (`Bootstrap` has two) and of users who are **permitted** to do what they do.

## 3. Runs

Seven runs pass and five find a counterexample.

| run | what it shows |
|---|---|
| `balance_concurrent` | Two requests on two customers, statement by statement, with rollback and aborted transactions. Each commit is a step of `Ledger`, which appends a row that continues the account and admits no balance below zero; each transaction ends although it may wait for locks. |
| `sessions_sequential` | All six operations on two computers of different price, with fractions of seconds, a request that dies and a computer that restarts, one request at a time: what is in use has a session, running and paused seconds are the elapsed ones but for the fractions, what is billed is use, at the rates of the snapshots, and it is charged once. |
| `sessions_concurrent` | Two overlapping requests, prices that rise and a crash: the amount that an ended session shows was charged. |
| `sales_overlapping` | Sales, orders, card payments, repeated callbacks and keys, refunds by two overlapping requests, and a crash. Refinement of `Purchases`; one sale per key; nothing delivered before it is paid; by how much a coupon can exceed its limit. |
| `agent_commands` | Provisioning, two registrations that may overlap, restarts, commands, and calls that are lost or served late: the order of commands, when one is run again, that each is answered. |
| `charges_sweep` | The sweep against cancellations, loads, failing transactions and its own death; approvals against cancellations. |
| `parts` | Thirteen parts that share no variable: tokens, cash, numbers, profiles, meter, kiosk, checkout, forms, bootstrap, inbox, consents, worklists, reports. A behaviour belongs to one of them, chosen at the start; interleaving them would add nothing. |
| `balance_lost_update` | **violated**: `Reconstructable` |
| `sessions_price_change` | **violated**: `BilledAtSnapshot` |
| `sessions_exclusive` | **violated**: `ExclusiveSessions` |
| `sales_settled_twice` | **violated**: `DeliveredAtMostOnce` |
| `agent_after_session` | **violated**: `WaitsForSessionEnd` |

### Bounds

Two workers show every pairwise interleaving, and the violations found need no more.
The bounds are constants with `Max` in their name, and each is a guard of the action
that it limits, not a state constraint, so the liveness properties are checked on
complete behaviours.

* `BalanceTx`: four transactions, deltas of one or two units, a transaction that
  changes two units and comes back to the first. A lost update needs two.
* `Sessions`: four or five requests and a clock of two or three ticks. Five requests are
  open, pause, resume, move, close. A second has two fractions, and a tick is an odd
  number of them, so that segments end between two seconds. The deposit in `Poor` does not
  cover a session, so refusals occur; prices are such that each second costs something and
  roundings differ from the exact cost.
* `Sales`: two bottles, or a package of hours bought twice in one line; a coupon that can
  be used once; a tender that suffices. Four requests allow
  order or prepare, callback, repeated callback, refund.
* `Agent`: one token, two registrations, two starts, two commands, one lost call.
  `Take` (20 in the code) is one, so that a second command waits.
* `Charges`: two periods, one failure, one load. The money suffices for some periods
  and not for all.
* `parts`, tokens to profiles: three tokens (two of a family and one of the next), two
  tills and three entries (a sale, a refund and a movement of one shift), three numbers
  and three profiles, one edit that dies.
* `parts`, kiosk: two customers at one kiosk, or two kiosks given one phone and a server
  that restarts; all at once are too many states. Two codes, so that a second replaces the first; two sign-ins, one
  purchase, one restart. A code is good for the step in which it was sent, a sign-in for
  one step more.
* `parts`, checkout: two goods, two sales, two charges: a charge, and the one that could
  be the second for the same goods.
* `parts`, forms, bootstrap, inbox, consents, worklists: two managers, two fields (one that
  has a default and is typed into, one that is only sent along) and two saves; two processes and three runs, of which
  two may die; three messages of two customers; three versions and two signatures by two
  requests; two desks, two calls and four presses.
* `parts`, reports: two branches, two rows, two days of two moments.
* `parts`, meter: prices, ratios, minimum charges and minutes at zero and at values with
  remainders, and 50 steps of 13 seconds, which meet every residue of a minute.

`CHECK_DEADLOCK FALSE` is said in each configuration: when every bound is used up
nothing is left to do, and a shop that nobody enters may stand still.

### What the runs take for granted of the environment

Some properties fail when two people do at once what nothing in the code keeps apart.
Each of these is said by a constant, or by a set with one element, and section 6 has the
counterexample of the other choice.

* One request at a time in `sessions_sequential` (one worker), one sweep and one
  approval at a time in `charges_sweep`.
* `ClockWaits` (TRUE in `sessions_sequential` and `sessions_price_change`): the clock
  stands still while a request is served, so that the bill can be compared with the use.
* `OneTill` (TRUE in `Parts`): no entry is made at a till whose shift is being closed.
* `JoinsOverlap`, `EditsOverlap`, `TabsOverlap` (FALSE in `Parts`): whether two waiting-list
  joins overlap, two edits of profiles, two requests of one employee.
* `LeavesEarly` (FALSE in `Parts`): whether a clerk may leave a conversation before the page
  has loaded it again after it was marked read.

Symmetry is used for rows and workers that no definition tells apart, and only in
configurations without liveness.

### Fairness

* `BalanceTx!FairSpec`: weak fairness of each statement and strong fairness of the
  UPDATE, since PostgreSQL queues those that wait for a row lock.
* `Agent!FairSpec`: weak fairness of the service's loop (heartbeat, execute, what follows
  the answer to a report) and of the server for the report that the service waits for. The
  loop of `Worker.cs` has no exit but cancellation and catches its exceptions. A report
  that was given up need not be served, and no call need be sent at all by a service that
  is not registered.
* `Charges!ChargesFairSpec`: weak fairness of the sweep, which is a cron job of every
  hour, and of nothing else; loads and cancellations need not happen.

## 4. Properties by component

**Ledger.** `ImplementsLedger`, `EveryTxEnds`; `NeverNegative` and `CachedIsNewestRow`
follow from the first and are proved (`LedgerSafety`). An overdraft is impossible although
the test may read an old value, because what is written is computed from the value that
was tested. That updates are lost is the finding `Reconstructable`.

**Sessions.** `InUseHasSession` (no computer is in use without a session, also after a
crash), `SecondsAddUp` (use + pause = elapsed, but for less than a second a segment),
`ChargedExactlyOnce`, `OnlyUseIsBilled`, `BilledAtSnapshot` and, with overlapping requests,
`EndedAmountWasCharged`. `NeverOverdrawn` is proved only (`NoOverdraft`). That a customer or computer has one session at most is refuted
(`ExclusiveSessions`).

**Sales.** `ImplementsPurchases`, `PaidBeforeDelivered`, `OneSalePerKey`, `CouponOverrun`
(a coupon is redeemed beyond its limit by fewer than the requests served at a time: the
count comes before the transaction). That a sale is delivered once is refuted
(`DeliveredAtMostOnce`).

**Agent.** `FirstHandledInOrder`; `RepeatedOnlyAfterFailure` (commands are handled again no
more often than calls failed and the service was started again); `EveryCommandAnswered`.
`StatusIsAnOutcome` is proved only: what a command shows was the outcome of an execution of
it, though not always of the last.

**Charges.** `EachPeriodChargedOnce`, `JobChargedOnce`, `ChargedOnlyWhileRenewing`,
`DueIsSettled`; `BooksSound` (no account below zero, the balance is that of its newest
row) and `JobChargedInFull` are proved only. That books balance is not claimed: updates get
lost, as in finding 1.

**Parts.**

| property | says |
|---|---|
| `CredentialsSound` | one live token per family (`OneLiveToken`), none in a family that has ended (`EndedFamilyHasNoToken`), and a second factor that is demanded can be given (`SecondFactorUsable`) |
| `ClosedShiftSettled` | a closed shift was expected to hold what went through it, with the right signs |
| `NumberedInOrder` | invoices, customers, tickets and places in the queue: no number twice, none skipped where the law wants it |
| `ProfilesInForce` | at most one default profile (`AtMostOneDefault`), and no station is sent the policy of a profile that was deleted before the guest sat down (`NoDeletedPolicy`) |
| `BillIsExact` | the bill of a session covers its use, and exceeds it by rounding and minimum only |
| `SignInsAreEarned` | each sign-in at a kiosk used the newest code of its phone, in time, and no code twice |
| `ShownIsSignedIn` | a kiosk shows the balance of the customer who is signed in, whatever answers come late |
| `ChargedAgainOnlyAfterGivingUp` | a card is charged a second time for one sale only after the page has stopped waiting |
| `OwnerComesLast` | an organization that has its owner, with no program at work and none that died between the owner and his role, has one owner with his role, one branch, and all permissions of its roles |
| `ReadIsShown` | a message counts as read only if the page has shown it, or will before the clerk leaves |
| `TypeOK` | the types of all parts |

`Forms`, `Consents`, `Worklists` and `Reports` are checked for their types only. What one
would want of them (a save keeps what another has typed, the signed version is the active
one, what is done stays done, a report tells the day's takings) is not a property of this
code: section 6 lists what breaks it.

## 5. Proofs

Eight modules of proofs. All hold for all sets of customers, computers, workers and
rows, all prices and all bounds; they rest on the named `ASSUME`s of the modules only,
and on what a theorem states itself. Requests overlap, repeat and die freely in all of
them but two: `OneSweepChargesOnce` supposes `SweepsApart`, that no subscription is due in
two sweeps at a time, which holds of the one cron job and fails when `process-due` is
called as well; and `NumbersStayInOrder` supposes `JoinsOverlap` FALSE for the places of
the waiting list. `EndedWasCharged` is about branches that do not move sessions. Section 6
has the counterexamples. A property that overlapping requests break is checked by a run,
which says what it takes for granted, and is not a theorem.

**Ledger, pricing, sums**

| theorem | argument |
|---|---|
| `BalanceTx_proofs!TypeCorrect`, `LedgerSafety` | `LedgerSafety` needs a strengthening: what a transaction has read is not negative, a worker that holds a row's lock is past its UPDATE, two workers never hold one lock, and the row that it is about to insert carries the value it has cached. |
| `ImplementsLedgerThm` | Each commit maps to `Post`, all else stutters. |
| `Pricing_proofs!ChargeMonotone`, `DiscountWithinSubtotal` | Properties of the rounding quotients, then of each formula. |
| `Services_proofs!MeterIsExact`, `MeterSplits`, `MeterRises` | The bill covers the use and exceeds it by no more than rounding and minimum allow; two segments differ from one by at most one agora (`SplittingIsNeutral`); the bill never falls (`MoreUseNeverCostsLess`). The last two are not repeated in a run. |

Sums are folds, and what a fold gives for every input needs induction over data, which
the installed provers have no form for. `Pricing_proofs` gets there by least
counterexamples instead: a set of numbers, or of subsets of a finite set, that contains
whatever follows from its smaller members contains them all, from the well-foundedness of
the numbers and of the strict subsets. From that: the sum that the library defines with a
`CHOOSE` exists, can be taken in any order (`AnyOrder`), and grows by what is added.

**Sessions**

| theorem | argument |
|---|---|
| `TypeCorrect`, `NoOverdraft` | The type invariant adds that a loaded row was a row. A request that charges has tested the balance it writes from. |
| `EndedWasCharged` | `OwnedInv`: whoever has loaded a session has its customer and source, which no operation writes. Then each close leaves the record and the last row in its name with one amount, and no other write leaves a session ended with another. Sessions are not moved; all other requests overlap freely. |

**Sales**

| theorem | argument |
|---|---|
| `SalesTypes`, `KeysAreUnique` | The unique index is read in the step that writes. |
| `NothingBeforePayment` | `PaidInv`: a sale is completed exactly when its payment is, an open sale has no rows, a payment that exists covers the total, and a settlement under way is of a sale that has one. |
| `SalesImplementPurchases` | What a request has found unpaid is a claim. A sale that is sold at once has no rows and gets what its lines add up to; a settlement adds the same again to what is there. All else is another step of `Purchases` or a stutter. |
| `CouponOverrunBounded` | A request that has counted counts as a redemption to come. Who counts finds fewer than the limit, so that redemptions and those to come exceed it by less than the number of workers. |

**Charges, agent**

| theorem | argument |
|---|---|
| `Charges_proofs!ChargesTyped`, `BooksStaySound` | Each account shows its newest row, and no row is negative, since who takes has tested the very balance it writes from. |
| `CancelledIsNotCharged` | `RenewalInv`: each row of the ledger for a subscription stems from a period that began before the cancellation, and what a sweep holds had begun when it was read. |
| `OneSweepChargesOnce` | Supposes `SweepsApart`. `PeriodInv`: the number of charges and the end of the period move together, and no row that a sweep still holds has been extended since. |
| `ApprovalChargesInFull` | However many approvals of one job overlap, each of its rows is the whole price in one unit. |
| `Agent_proofs!AgentTyped` | Types, and that a service that works on a batch has something left of it. |
| `HandledInOrder`, `StatusesWereOutcomes` | `CommandInv`: a batch is of its own computer and holds, with a command, every older one not handled before; what is reported, late or not, and what is shown as done was handled with that outcome. That a nonempty batch has a first element is proved from the well-foundedness of the subsets of a finite set. |

**Parts of the server** (`Services_proofs`)

| theorem | argument |
|---|---|
| `NumbersStayInOrder` | Supposes `JoinsOverlap` FALSE. `NumbersInv`: an invoice under way holds the settings row and has the next number; a ticket under way has the next number or one that is taken; a number drawn for a customer is nobody else's; who is about to join stands behind all who wait. |
| `DeletedPoliciesAreNotSent` | `Sightings`: a lookup holds no row that was deleted before it. Any number of editors overlap. |
| `TheOwnerComesLast` | `BootstrapInv`: what a program has left is a tail of the script, all that comes before that tail is there, and a second insert of a role, a permission or the owner fails on its key. |

**Pages** (`Pages_proofs`)

| theorem | argument |
|---|---|
| `SignInsStayEarned`, `TheCustomerIsShown` | `KioskInv`: the code held for a phone is the last one sent to it, by this process, and has signed nobody in; a page is busy while it has a call, which was made for the customer whose token the page has. |
| `NoChargeTwice` | `CheckoutRows`, `ChargeInv`: a payment belongs to one dialog; a charge that is asked for is the only one for its payment and of its dialog, which may have been left and is then told nothing; a busy dialog waits for one thing (provider, frame or poll); what is still being prepared was not charged. |
| `PartsTyped` | `MCParts!TypeOK`, with every flag left open. Each part has a lemma, `TokensTyped` to `ReportsTyped` (in `Services_proofs` and here), with an invariant that says only what no overlap, loss or restart can take away: rows are added and changed but not removed, so a token, shift, profile, sale or message that a request speaks of is there; what is drawn is at most `MaxNumber`; a script of the first boot is a tail of the whole; a form stores what was typed into that field or the default. A behaviour of `MCParts` is one of every part, most of which stay as they began. |

**Only model-checked.** Liveness (`EveryTxEnds`, `EveryCommandAnswered`, `DueIsSettled`),
because it needs ENABLED and fairness. What holds of one request at a time only, or with a
flag of section 3: `InUseHasSession`, `SecondsAddUp`, `ChargedExactlyOnce`,
`OnlyUseIsBilled`, `BilledAtSnapshot`, `JobChargedOnce`, `CredentialsSound`,
`ClosedShiftSettled`, `AtMostOneDefault`, `ReadIsShown`. And `RepeatedOnlyAfterFailure`.

## 6. Findings

Five runs refute a statement of the repository.

1. **`Reconstructable`** (`balance.service.ts:41`, against `docs/architecture.md:105`).
   Two concurrent calls read the same balance and each writes an absolute value.
   One update is lost, and the cached balance is not the sum of the ledger.
2. **`BilledAtSnapshot`** (`sessions.service.ts:351`, against
   `docs/development-roadmap.md:102`). `pricingSnapshot` is stored and never read; pause,
   transfer and close bill at the group's price of that moment.
3. **`ExclusiveSessions`** (`sessions.service.ts:97`, against `docs/security-model.md:73`
   "concurrent duplicate sessions" and the comment at `:44`). Two opens both look before
   either creates its row; there is no unique index.
4. **`DeliveredAtMostOnce`** (`sales.service.ts:342`, against the comment at `:328`,
   "Idempotent"). Two callbacks both find the sale open, before the transaction of either,
   and each credits the packages.
5. **`WaitsForSessionEnd`** (`agent.service.ts:177`, against
   `packages/shared/src/agent/commands.ts:35`). The condition AFTER_SESSION_END is stored
   and nobody looks at it: the next heartbeat runs the command under the customer.

### Where an assumption of a run matters

Each of these is a counterexample TLC gives after one change of a configuration.

| change | what fails | compare |
|---|---|---|
| `Workers = {w1, w2}` in `Sessions_sequential` | `ChargedExactlyOnce`: two closes that have both loaded a running session both charge it | `security-model.md:72` |
| `"transfer"` among the `Operations` of `Sessions_concurrent`, two computers | `EndedAmountWasCharged`: a move that has read the session before it is closed writes its amount over the one that was charged | `sessions.service.ts:317` |
| `Sweepers = {w1, w2}` in `Charges_sweep` | `EachPeriodChargedOnce` | `jobs.module.ts:50` "idempotent" |
| two elements in `Approvers` of `Charges_sweep` | `JobChargedOnce`. A double click suffices: the approve button of `printing/page.tsx` is not disabled while a call is under way | `print.module.ts:113` |
| `TabsOverlap = TRUE`, two elements in `Handlers` of `Parts` | `CredentialsSound`: two refreshes with one token | `security-model.md:15-18` |
| `OneTill = FALSE` in `Parts` | `ClosedShiftSettled`: a movement between reading and closing | `cash.service.ts:75` |
| `JoinsOverlap = TRUE` in `Parts` | `NumberedInOrder`: two equal places in the queue | `waiting-list.module.ts:29` |
| `EditsOverlap = TRUE`, two elements in `Editors` of `Parts` | `ProfilesInForce`: two defaults | `access-profiles.service.ts` |
| `LeavesEarly = TRUE` in `Parts` | `ReadIsShown`: a message that came after the page had loaded is marked read with the others | `inquiries.module.ts:127` |

### Also met while reading, with no run of its own

* **Sessions.** A session that was moved bills or takes all its time at the ratio of its last
  computer (`sessions.service.ts:42`, `:394`), and one that leaves a free computer is billed
  for all its seconds at the last price (`:355`). A paused session that is moved is billed for
  the pause (`:241`, `:317`). A registering agent frees a computer in use.
* **Sales.** A package bought twice in one line is paid twice and credited once
  (`sales.service.ts:125`, `:153`). Overlapping settlements also give the points twice. Two
  refunds of a sale can exceed what was paid (`:457`). A sale is booked on a shift that has
  been closed meanwhile (`:246`); a refund of a card sale lowers the expected cash
  (`cash.service.ts:104`). A standing order is lost when the callback dies after it has
  settled the sale (`payments.module.ts:187`), and one on a sale of several lines is
  recorded at the price of the whole sale.
* **Agent.** The one-time token is exchanged twice by two registrations that overlap
  (`agent.service.ts:93`, against `agent-protocol.md:7-10` and `security-model.md:47`). A lost
  answer to a registration burns the token, and the retry of the service never succeeds
  (`Worker.cs:61`). A report that is served late overwrites the result of a later execution
  (`agent.service.ts:191-204` tests no status). "The Agent de-duplicates"
  (`agent-protocol.md:24`), but `CommandDispatcher.cs` does not.
* **Subscriptions.** A sweep can mark as past due a subscription that was cancelled
  meanwhile (`subscriptions.module.ts:141`).
* **Profiles.** A customer is given a profile that was deleted meanwhile
  (`customers.service.ts:114`; `access-profiles.service.ts:168` says "so we never leave a
  dangling reference"). `ensureDefaults` fails on the name of a deleted profile, because names
  are unique per tenant and deletion only marks the row.
* **Till.** A refused manual confirmation, which is what production answers, is announced as
  paid (`nedarim-payment.tsx:104`). The answer to a sale empties a cart that has changed
  meanwhile (`pos/page.tsx:73`), and the poll of a dialog that was left reports on another
  sale (`nedarim-payment.tsx:87`).
* **Forms.** A save sends fields that nobody touched, and with them what another manager has
  replaced (`settings/page.tsx:36`); an edit begun before the page has reloaded does so with
  one manager. Two saves of a floor plan overlap and the older may be stored last
  (`floor/page.tsx:80-104`).
* **Bootstrap.** A boot that dies between the owner and his role leaves an owner who may do
  nothing, and no later boot mends it (`bootstrap.module.ts:93`, `:96`), though `:17` says "safe
  to run on every boot". The seed run twice adds its rooms again and then fails at the
  computers, and gives a print balance that has no ledger row (`seed.ts`).
* **Consents.** A version published while a customer signs is active when the signature on
  the former is stored (`consents.module.ts:74`).
* **Worklists.** A reservation that has ended is confirmed from a page that is behind: the
  server takes any status (`reservations.module.ts:90`). An edit of a ticket writes back the
  time of resolution it had read (`maintenance.module.ts:104`).
* **Reports.** A card payment counts on the day it was prepared (`reports.module.ts:63`), a row
  of midnight in two days (`:14`), and revenue is that of all branches, where
  `permissions-matrix.md:70` and `:83` give a branch manager his own.
* **Realtime.** "Joined lazily as the client subscribes" (`realtime.gateway.ts:48`), but no
  handler subscribes, and the web console opens no socket.

## 7. Not modelled

* Permissions, branch scope and tenants: pure tests of a principal; planned.
* Editors of single rows that are not forms of `Forms` (branches, printers, catalog,
  templates, the fields of customers and computers), notifications, audit, exports, the
  lists of the dashboard: no decision of another component depends on the order of their
  writes.
* Realtime events: sent after the commit, read by no handler and by no page.
* The rest of the web console (it lists and shows), styling, wiring, configuration, health,
  storage, the demo data of the seed.

## 8. Plan

Order of the work so far: ledger, pricing, sessions, sales, agent, charges, the first five
parts, the other eight. What comes next, most important first:

1. **Composition.** `Sessions` with `Agent` (the status of a computer is written by
   both), `Sales` with `CashDrawer` (the shift of a sale).
2. **More of the system.** `Scope` (who sees, changes and hears of which branch:
   `assertBranchScope`, `branchScopeFilter` and the rooms of the realtime gateway agree);
   standing orders. They share nothing with the others and join `parts`.
