------------------------------ MODULE BalanceTx ------------------------------
(***************************************************************************)
(* BalanceService.applyWithin, statement by statement, inside the Prisma   *)
(* interactive transaction of its caller.  PostgreSQL runs it at its       *)
(* default isolation level (READ COMMITTED: nothing in the code sets       *)
(* another one): a SELECT sees the last committed row or the transaction's *)
(* own update and takes no lock; an UPDATE waits for the row lock and      *)
(* keeps it until COMMIT or ROLLBACK.  The upsert with an empty update is  *)
(* such a SELECT, since every customer is created with a balance row.      *)
(***************************************************************************)
EXTENDS Accounts, FiniteSets

CONSTANTS
  Customers,
  Refs,      \* what a row can be posted for
  Workers,   \* requests that the API processes serve at the same time
  Jobs,      \* the calls made by sales, sessions, print, subscriptions, loads
  MaxJobs,   \* bound: transactions started in one behaviour
  Free       \* the row is locked by nobody

Delta == [unit : Units, amount : Int, ref : Refs]

(* A job is one transaction: its deltas all belong to one customer.        *)
ASSUME JobsAssumption ==
  /\ Jobs \subseteq [customer : Customers, deltas : Seq(Delta)]
  /\ \A j \in Jobs : j.deltas # << >>
ASSUME FreeAssumption == Free \notin Workers
ASSUME MaxJobsAssumption == MaxJobs \in Nat

VARIABLES
  accounts,  \* committed accounts: customer -> unit -> account
  lock,      \* holder of the row lock on the customer's CustomerBalance row
  tx,        \* the open transaction of each worker
  started    \* number of transactions begun (bound)

vars == <<accounts, lock, tx, started>>

EmptyBook == [u \in Units |-> EmptyAccount]

Idle == [pc |-> "idle", customer |-> Free, todo |-> << >>, read |-> 0,
         pending |-> EmptyBook]

Init ==
  /\ accounts = [c \in Customers |-> EmptyBook]
  /\ lock = [c \in Customers |-> Free]
  /\ tx = [w \in Workers |-> Idle]
  /\ started = 0

(* The customer's row as worker w sees it: its own uncommitted update once *)
(* it holds the row lock, else the last committed version.                 *)
Visible(w) ==
  IF lock[tx[w].customer] = w THEN tx[w].pending ELSE accounts[tx[w].customer]

Delta1(w) == Head(tx[w].todo)

Begin(w, job) ==
  /\ tx[w].pc = "idle"
  /\ started < MaxJobs
  /\ started' = started + 1
  /\ tx' = [tx EXCEPT ![w] = [Idle EXCEPT !.pc = "read", !.customer = job.customer,
                                          !.todo = job.deltas]]
  /\ UNCHANGED <<accounts, lock>>

(* upsert, then the test that follows it without another await: enough.    *)
ReadEnough(w) ==
  LET read == Visible(w)[Delta1(w).unit].cached
  IN  /\ tx[w].pc = "read"
      /\ ~ Insufficient(read, Delta1(w).amount)
      /\ tx' = [tx EXCEPT ![w].pc = "update", ![w].read = read]
      /\ UNCHANGED <<accounts, lock, started>>

(* ROLLBACK: uncommitted writes vanish and the row lock is released.       *)
KeepLocks(w) == lock' = lock
ReleaseLocks(w) == lock' = [c \in Customers |-> IF lock[c] = w THEN Free ELSE lock[c]]

Rollback(w) ==
  /\ ReleaseLocks(w)
  /\ tx' = [tx EXCEPT ![w] = Idle]
  /\ UNCHANGED <<accounts, started>>

(* INSUFFICIENT_BALANCE leaves the transaction callback, so all of it is   *)
(* undone.                                                                 *)
RejectOverdraft(w) ==
  /\ tx[w].pc = "read"
  /\ Insufficient(Visible(w)[Delta1(w).unit].cached, Delta1(w).amount)
  /\ Rollback(w)

(* UPDATE customer_balances SET unit = next: waits for the row lock.       *)
UpdateWithoutLock(w) ==
  LET c == tx[w].customer
      u == Delta1(w).unit
      book == accounts[c]
  IN  /\ tx[w].pc = "update"
      /\ lock' = [lock EXCEPT ![c] = w]
      /\ tx' = [tx EXCEPT ![w].pc = "insert",
                          ![w].pending = [book EXCEPT ![u] =
                             SetCached(book[u], tx[w].read + Delta1(w).amount)]]
      /\ UNCHANGED <<accounts, started>>
UpdateRow(w) ==
  LET c == tx[w].customer
      u == Delta1(w).unit
      book == Visible(w)
  IN  /\ tx[w].pc = "update"
      /\ lock[c] \in {Free, w}
      /\ lock' = [lock EXCEPT ![c] = w]
      /\ tx' = [tx EXCEPT ![w].pc = "insert",
                          ![w].pending = [book EXCEPT ![u] =
                             SetCached(book[u], tx[w].read + Delta1(w).amount)]]
      /\ UNCHANGED <<accounts, started>>

(* INSERT the ledger row; the caller then applies its next delta, if any.  *)
InsertRow(w) ==
  LET u == Delta1(w).unit
      book == tx[w].pending
  IN  /\ tx[w].pc = "insert"
      /\ tx' = [tx EXCEPT
                  ![w].pc = IF Len(tx[w].todo) = 1 THEN "commit" ELSE "read",
                  ![w].todo = Tail(@),
                  ![w].pending = [book EXCEPT ![u] =
                     AppendRow(book[u], tx[w].read, Delta1(w).amount, Delta1(w).ref)]]
      /\ UNCHANGED <<accounts, lock, started>>

Commit(w) ==
  /\ tx[w].pc = "commit"
  /\ accounts' = [accounts EXCEPT ![tx[w].customer] = tx[w].pending]
  /\ ReleaseLocks(w)
  /\ tx' = [tx EXCEPT ![w] = Idle]
  /\ UNCHANGED started

(* The transaction dies half-way: Prisma's interactive-transaction timeout, *)
(* a lost connection, a killed API process.                                *)
Abort(w) ==
  /\ tx[w].pc # "idle"
  /\ Rollback(w)

Statement(w) ==
  ReadEnough(w) \/ RejectOverdraft(w) \/ UpdateRow(w) \/ InsertRow(w) \/ Commit(w)

Next ==
  \E w \in Workers : \/ \E job \in Jobs : Begin(w, job)
                     \/ Statement(w)
                     \/ Abort(w)

Spec == Init /\ [][Next]_vars

(* The database keeps executing statements and hands a released row lock   *)
(* to a waiting UPDATE (PostgreSQL queues the waiters).                    *)
FairSpec == Spec /\ \A w \in Workers : WF_vars(Statement(w)) /\ SF_vars(UpdateRow(w))

-------------------------------------------------------------------------------
Tx == [pc : {"idle", "read", "update", "insert", "commit"},
       customer : Customers \cup {Free},
       todo : Seq(Delta),
       read : Int,
       pending : [Units -> Accounts(Refs)]]

(* Type invariant of the transaction machine of applyWithin.               *)
TypeOK ==
  /\ accounts \in [Customers -> [Units -> Accounts(Refs)]]
  /\ lock \in [Customers -> Workers \cup {Free}]
  /\ tx \in [Workers -> Tx]
  /\ started \in Nat

(* No interleaving of requests drives a balance, or any snapshot in the    *)
(* ledger, below zero: the INSUFFICIENT_BALANCE test protects it although   *)
(* the value it tests may be stale, because what is written is computed    *)
(* from the value that was tested.                                         *)
NeverNegative == \A c \in Customers, u \in Units : NonNegative(accounts[c][u])

(* The cached balance and the newest ledger row of that unit agree in      *)
(* every committed state, also when updates were lost: the row lock taken  *)
(* by the UPDATE is held until the row is inserted and committed.          *)
CachedIsNewestRow ==
  \A c \in Customers, u \in Units : CachedIsLastSnapshot(accounts[c][u])

(* The committed accounts implement the abstract ledger.                   *)
L == INSTANCE Ledger
ImplementsLedger == L!Spec

(* docs/architecture.md: "guarantees auditable, reconstructable balances": *)
(* the cached balance is the sum of the amounts in the ledger.             *)
Reconstructable ==
  \A c \in Customers, u \in Units : accounts[c][u].cached = SumOfAmounts(accounts[c][u])

(* Every transaction that begins ends, committed or undone, also when it   *)
(* waits for a row lock: no statement can wait for ever.                   *)
EveryTxEnds == \A w \in Workers : tx[w].pc # "idle" ~> tx[w].pc = "idle"
===============================================================================
