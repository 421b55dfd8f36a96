--------------------------- MODULE BalanceTx_proofs ---------------------------
(***************************************************************************)
(* Proofs about BalanceTx for any number of customers, workers and jobs.   *)
(***************************************************************************)
EXTENDS BalanceTx, SequenceTheorems, TLAPS

(* The two writes of applyWithin keep an account an account.               *)
LEMMA SetCachedType ==
  ASSUME NEW R, NEW acct \in Accounts(R), NEW v \in Int
  PROVE  /\ SetCached(acct, v) \in Accounts(R)
         /\ SetCached(acct, v).cached = v
         /\ SetCached(acct, v).rows = acct.rows
BY DEF SetCached, Accounts

LEMMA AppendRowType ==
  ASSUME NEW R, NEW acct \in Accounts(R), NEW read \in Int, NEW amount \in Int, NEW ref \in R
  PROVE  /\ AppendRow(acct, read, amount, ref) \in Accounts(R)
         /\ AppendRow(acct, read, amount, ref).cached = acct.cached
         /\ AppendRow(acct, read, amount, ref).rows =
              Append(acct.rows, [amount |-> amount, balanceAfter |-> read + amount, ref |-> ref])
<1> DEFINE row == [amount |-> amount, balanceAfter |-> read + amount, ref |-> ref]
<1>1. row \in Rows(R)
  BY DEF Rows
<1>2. acct.rows \in Seq(Rows(R)) /\ acct.cached \in Int
  BY DEF Accounts
<1> HIDE DEF row
<1>3. Append(acct.rows, row) \in Seq(Rows(R))
  BY <1>1, <1>2
<1>4. AppendRow(acct, read, amount, ref) = [acct EXCEPT !.rows = Append(acct.rows, row)]
  BY DEF AppendRow, row
<1>5. QED
  BY <1>2, <1>3, <1>4 DEF Accounts, row

LEMMA EmptyTypes == EmptyBook \in [Units -> Accounts(Refs)] /\ Idle \in Tx
BY DEF EmptyBook, EmptyAccount, Accounts, Idle, Tx

(* The customer's row a worker sees is well-typed.                         *)
LEMMA VisibleType ==
  ASSUME TypeOK, NEW w \in Workers, tx[w].customer \in Customers
  PROVE  Visible(w) \in [Units -> Accounts(Refs)]
BY DEF TypeOK, Visible, Tx

-------------------------------------------------------------------------------
(* A worker inside a transaction works for a customer and, unless it is    *)
(* about to commit, has a delta to apply.                                  *)
WorkOK ==
  \A w \in Workers :
    tx[w].pc # "idle" => /\ tx[w].customer \in Customers
                         /\ tx[w].pc # "commit" => tx[w].todo # << >>

LEMMA TailFacts ==
  ASSUME NEW S, NEW s \in Seq(S), s # << >>
  PROVE  Head(s) \in S /\ Tail(s) \in Seq(S) /\ (Len(s) # 1 => Tail(s) # << >>)
<1>1. Len(s) \in Nat /\ Len(s) # 0
  BY EmptySeq
<1>2. Head(s) \in S /\ Tail(s) \in Seq(S) /\ Len(Tail(s)) = Len(s) - 1
  BY HeadTailProperties
<1>3. Len(s) # 1 => Tail(s) # << >>
  BY <1>1, <1>2, EmptySeq
<1>4. QED
  BY <1>2, <1>3

LEMMA HeadOfTodo ==
  ASSUME TypeOK, WorkOK, NEW w \in Workers, tx[w].pc \in {"read", "update", "insert"}
  PROVE  /\ Delta1(w) \in Delta
         /\ Delta1(w).unit \in Units /\ Delta1(w).amount \in Int /\ Delta1(w).ref \in Refs
         /\ Tail(tx[w].todo) \in Seq(Delta)
         /\ Len(tx[w].todo) # 1 => Tail(tx[w].todo) # << >>
         /\ tx[w].customer \in Customers
<1>1. tx[w].todo \in Seq(Delta) /\ tx[w].todo # << >> /\ tx[w].customer \in Customers
  BY DEF TypeOK, WorkOK, Tx
<1>2. Delta1(w) \in Delta
  BY <1>1, TailFacts DEF Delta1
<1>3. Tail(tx[w].todo) \in Seq(Delta) /\ (Len(tx[w].todo) # 1 => Tail(tx[w].todo) # << >>)
  BY <1>1, TailFacts
<1>4. QED
  BY <1>1, <1>2, <1>3 DEF Delta

LEMMA TypeStep == TypeOK /\ WorkOK /\ [Next]_vars => TypeOK' /\ WorkOK'
<1> SUFFICES ASSUME TypeOK, WorkOK, [Next]_vars
             PROVE  TypeOK' /\ WorkOK'
  OBVIOUS
<1>1. ASSUME NEW w \in Workers, NEW job \in Jobs, Begin(w, job)
      PROVE  TypeOK' /\ WorkOK'
  <2>1. job.customer \in Customers /\ job.deltas \in Seq(Delta) /\ job.deltas # << >>
    BY JobsAssumption
  <2>2. [Idle EXCEPT !.pc = "read", !.customer = job.customer, !.todo = job.deltas] \in Tx
    BY <2>1, EmptyTypes DEF Tx, Idle
  <2>3. QED
    BY <1>1, <2>1, <2>2 DEF Begin, TypeOK, WorkOK, Idle
<1>2. ASSUME NEW w \in Workers, Rollback(w)
      PROVE  TypeOK' /\ WorkOK'
  BY <1>2, EmptyTypes DEF Rollback, ReleaseLocks, TypeOK, WorkOK, Idle
<1>3. ASSUME NEW w \in Workers, ReadEnough(w)
      PROVE  TypeOK' /\ WorkOK'
  <2> DEFINE read == Visible(w)[Delta1(w).unit].cached
  <2>1. read \in Int
    BY <1>3, HeadOfTodo, VisibleType DEF ReadEnough, Accounts
  <2>2. [tx[w] EXCEPT !.pc = "update", !.read = read] \in Tx
    BY <2>1 DEF TypeOK, Tx
  <2>3. tx' = [tx EXCEPT ![w] = [tx[w] EXCEPT !.pc = "update", !.read = read]]
    BY <1>3 DEF ReadEnough, TypeOK, Tx
  <2> HIDE DEF read
  <2>4. TypeOK'
    BY <1>3, <2>2, <2>3 DEF ReadEnough, TypeOK
  <2>5. WorkOK'
    BY <1>3, <2>2, <2>3 DEF ReadEnough, TypeOK, WorkOK, Tx
  <2>6. QED
    BY <2>4, <2>5
<1>4. ASSUME NEW w \in Workers, UpdateRow(w)
      PROVE  TypeOK' /\ WorkOK'
  <2> DEFINE new == [Visible(w) EXCEPT ![Delta1(w).unit] =
                       SetCached(Visible(w)[Delta1(w).unit], tx[w].read + Delta1(w).amount)]
  <2>1. tx[w].pc = "update" /\ tx[w] \in Tx /\ tx[w].read \in Int
    BY <1>4 DEF UpdateRow, TypeOK, Tx
  <2>2. new \in [Units -> Accounts(Refs)]
    BY <2>1, HeadOfTodo, VisibleType, SetCachedType
  <2>3. tx' = [tx EXCEPT ![w] = [tx[w] EXCEPT !.pc = "insert", !.pending = new]]
    BY <1>4, <2>1 DEF UpdateRow, TypeOK, Tx
  <2> HIDE DEF new
  <2>4. [tx[w] EXCEPT !.pc = "insert", !.pending = new] \in Tx
    BY <2>1, <2>2 DEF Tx
  <2>5. TypeOK'
    <3>1. accounts' = accounts /\ started' = started
      BY <1>4 DEF UpdateRow
    <3>2. lock' = [lock EXCEPT ![tx[w].customer] = w]
      BY <1>4 DEF UpdateRow
    <3>3. lock' \in [Customers -> Workers \cup {Free}]
      BY <3>2 DEF TypeOK
    <3>4. tx' \in [Workers -> Tx]
      BY <2>3, <2>4 DEF TypeOK
    <3>5. QED
      BY <3>1, <3>3, <3>4 DEF TypeOK
  <2>6. WorkOK'
    BY <2>1, <2>3, <2>4 DEF TypeOK, WorkOK, Tx
  <2>7. QED
    BY <2>5, <2>6
<1>5. ASSUME NEW w \in Workers, InsertRow(w)
      PROVE  TypeOK' /\ WorkOK'
  <2> DEFINE new == [tx[w].pending EXCEPT ![Delta1(w).unit] =
                       AppendRow(tx[w].pending[Delta1(w).unit], tx[w].read, Delta1(w).amount, Delta1(w).ref)]
             next == IF Len(tx[w].todo) = 1 THEN "commit" ELSE "read"
             rest == Tail(tx[w].todo)
  <2>1. tx[w].pc = "insert" /\ tx[w] \in Tx /\ tx[w].read \in Int
    BY <1>5 DEF InsertRow, TypeOK, Tx
  <2>2. new \in [Units -> Accounts(Refs)]
    BY <2>1, HeadOfTodo, AppendRowType DEF Tx
  <2>3. tx' = [tx EXCEPT ![w] = [tx[w] EXCEPT !.pc = next, !.todo = rest, !.pending = new]]
    BY <1>5, <2>1 DEF InsertRow, TypeOK, Tx
  <2>4. rest \in Seq(Delta) /\ (next = "read" => rest # << >>) /\ next \in {"read", "commit"}
    BY <2>1, HeadOfTodo
  <2> HIDE DEF new, next, rest
  <2>5. [tx[w] EXCEPT !.pc = next, !.todo = rest, !.pending = new] \in Tx
    BY <2>1, <2>2, <2>4 DEF Tx
  <2>6. TypeOK'
    <3>1. UNCHANGED <<accounts, lock, started>>
      BY <1>5 DEF InsertRow
    <3>2. QED
      BY <2>3, <2>5, <3>1 DEF TypeOK
  <2>7. WorkOK'
    BY <2>1, <2>3, <2>4, <2>5 DEF TypeOK, WorkOK, Tx
  <2>8. QED
    BY <2>6, <2>7
<1>6. ASSUME NEW w \in Workers, Commit(w)
      PROVE  TypeOK' /\ WorkOK'
  <2>1. tx[w].pending \in [Units -> Accounts(Refs)]
    BY DEF TypeOK, Tx
  <2>2. QED
    BY <1>6, <2>1, EmptyTypes DEF Commit, ReleaseLocks, TypeOK, WorkOK, Idle
<1>7. CASE UNCHANGED vars
  BY <1>7 DEF vars, TypeOK, WorkOK
<1>8. QED
  BY <1>1, <1>2, <1>3, <1>4, <1>5, <1>6, <1>7
     DEF Next, Statement, RejectOverdraft, Abort

LEMMA TypeInit == Init => TypeOK /\ WorkOK
BY EmptyTypes DEF Init, TypeOK, WorkOK, Idle

(* The transaction machine is type-correct for every set of jobs.          *)
THEOREM TypeCorrect == Spec => []TypeOK
<1>1. Init => TypeOK /\ WorkOK
  BY TypeInit
<1>2. TypeOK /\ WorkOK /\ [Next]_vars => TypeOK' /\ WorkOK'
  BY TypeStep
<1>3. QED
  BY <1>1, <1>2, PTL DEF Spec

-------------------------------------------------------------------------------
(* new is old with rows of one transaction added, whatever its cached      *)
(* column says.                                                            *)
Grown(old, new) ==
  /\ Len(old.rows) <= Len(new.rows)
  /\ \A i \in 1 .. Len(old.rows) : new.rows[i] = old.rows[i]
  /\ \A i \in Len(old.rows) + 1 .. Len(new.rows) : new.rows[i].balanceAfter >= 0
  /\ \A i \in Len(old.rows) + 2 .. Len(new.rows) : Continues(new, i)

(* Between two calls of applyWithin: untouched, or cached and rows agree.  *)
Clean(old, new) ==
  \/ new = old
  \/ Grown(old, new) /\ Len(old.rows) < Len(new.rows) /\ CachedIsLastSnapshot(new)

(* Between the UPDATE and the INSERT of one call.                          *)
HalfDone(old, new, read, value) ==
  /\ Grown(old, new)
  /\ new.cached = value /\ value >= 0
  /\ Len(old.rows) < Len(new.rows) => BalanceAfterRow(new, Len(new.rows)) = read

LEMMA AccountFields ==
  ASSUME NEW R, NEW acct \in Accounts(R)
  PROVE  /\ acct.cached \in Int /\ acct.rows \in Seq(Rows(R)) /\ Len(acct.rows) \in Nat
         /\ \A i \in 1 .. Len(acct.rows) : /\ acct.rows[i] \in Rows(R)
                                           /\ acct.rows[i].amount \in Int
                                           /\ acct.rows[i].balanceAfter \in Int
<1>1. acct.cached \in Int /\ acct.rows \in Seq(Rows(R))
  BY DEF Accounts
<1>2. \A i \in 1 .. Len(acct.rows) : acct.rows[i] \in Rows(R)
  BY <1>1
<1>3. \A r \in Rows(R) : r.amount \in Int /\ r.balanceAfter \in Int
  BY DEF Rows
<1>4. QED
  BY <1>1, <1>2, <1>3

LEMMA GrownRefl == ASSUME NEW R, NEW acct \in Accounts(R) PROVE Grown(acct, acct)
BY AccountFields DEF Grown

(* The UPDATE of a call: on an untouched account with any value read, and  *)
(* on the transaction's own account with the value it holds.               *)
LEMMA HalfOfOld ==
  ASSUME NEW R, NEW old \in Accounts(R), NEW read \in Int, NEW value \in Int, value >= 0
  PROVE  HalfDone(old, SetCached(old, value), read, value)
<1>1. SetCached(old, value).rows = old.rows /\ SetCached(old, value).cached = value
  BY SetCachedType
<1>2. Grown(old, SetCached(old, value))
  BY <1>1, AccountFields DEF Grown
<1>3. QED
  BY <1>1, <1>2, AccountFields DEF HalfDone

LEMMA HalfOfClean ==
  ASSUME NEW R, NEW old \in Accounts(R), NEW new \in Accounts(R), Clean(old, new),
         NEW value \in Int, value >= 0
  PROVE  HalfDone(old, SetCached(new, value), new.cached, value)
<1>1. CASE new = old
  BY <1>1, HalfOfOld, AccountFields
<1>2. CASE Grown(old, new) /\ Len(old.rows) < Len(new.rows) /\ CachedIsLastSnapshot(new)
  <2>1. SetCached(new, value).rows = new.rows /\ SetCached(new, value).cached = value
    BY SetCachedType
  <2>2. Grown(old, SetCached(new, value))
    BY <1>2, <2>1 DEF Grown, Continues, BalanceAfterRow
  <2>3. QED
    BY <1>2, <2>1, <2>2 DEF HalfDone, CachedIsLastSnapshot, BalanceAfterRow
<1>3. QED
  BY <1>1, <1>2 DEF Clean

(* The INSERT makes the account clean again.                               *)
LEMMA CleanOfHalf ==
  ASSUME NEW R, NEW old \in Accounts(R), NEW new \in Accounts(R),
         NEW read \in Int, NEW amount \in Int, NEW ref \in R,
         HalfDone(old, new, read, read + amount)
  PROVE  Clean(old, AppendRow(new, read, amount, ref))
<1> DEFINE row == [amount |-> amount, balanceAfter |-> read + amount, ref |-> ref]
           acct == AppendRow(new, read, amount, ref)
           n == Len(new.rows)
<1>1. row.balanceAfter = read + amount /\ row.amount = amount /\ row \in Rows(R)
  BY DEF Rows
<1>2. acct.rows = Append(new.rows, row) /\ acct.cached = new.cached
  BY AppendRowType
<1> HIDE DEF row, acct
<1>3. n \in Nat /\ new.rows \in Seq(Rows(R)) /\ Len(old.rows) \in Nat
  BY AccountFields
<1>4. /\ Len(acct.rows) = n + 1
      /\ acct.rows[n + 1] = row
      /\ \A i \in 1 .. n : acct.rows[i] = new.rows[i]
  BY <1>1, <1>2, <1>3, AppendProperties
<1>5. Grown(old, new) /\ read + amount >= 0 /\ new.cached = read + amount
  BY DEF HalfDone
<1>6. ASSUME NEW i \in Len(old.rows) + 1 .. n + 1
      PROVE  acct.rows[i].balanceAfter >= 0
  <2>1. CASE i \in Len(old.rows) + 1 .. n
    <3>1. new.rows[i].balanceAfter >= 0 /\ i \in 1 .. n
      BY <1>3, <1>5, <2>1 DEF Grown
    <3>2. QED
      BY <1>4, <3>1
  <2>2. CASE i = n + 1
    BY <1>1, <1>4, <1>5, <2>2
  <2>3. QED
    BY <1>3, <2>1, <2>2
<1>7. ASSUME NEW i \in Len(old.rows) + 2 .. n + 1
      PROVE  Continues(acct, i)
  <2>1. CASE i \in Len(old.rows) + 2 .. n
    <3>1. Continues(new, i) /\ i \in 1 .. n /\ i - 1 \in 1 .. n
      BY <1>3, <1>5, <2>1 DEF Grown
    <3>2. QED
      BY <1>4, <3>1 DEF Continues, BalanceAfterRow
  <2>2. CASE i = n + 1
    <3>1. n > 0 /\ Len(old.rows) < n
      BY <1>3, <2>2
    <3>2. new.rows[n].balanceAfter = read
      BY <1>3, <3>1 DEF HalfDone, BalanceAfterRow
    <3>3. acct.rows[n] = new.rows[n] /\ (n + 1) - 1 = n /\ n # 0
      BY <1>3, <1>4, <3>1, SMTT(30)
    <3>4. QED
      BY <1>1, <1>4, <2>2, <3>2, <3>3 DEF Continues, BalanceAfterRow
  <2>3. QED
    BY <1>3, <2>1, <2>2
<1>8. Grown(old, acct)
  BY <1>3, <1>4, <1>5, <1>6, <1>7 DEF Grown
<1>9. CachedIsLastSnapshot(acct)
  BY <1>1, <1>2, <1>3, <1>4, <1>5 DEF CachedIsLastSnapshot, BalanceAfterRow
<1>10. Len(old.rows) < Len(acct.rows)
  BY <1>3, <1>4, <1>5 DEF Grown
<1>11. QED
  BY <1>8, <1>9, <1>10 DEF Clean, acct

(* What COMMIT publishes.                                                  *)
LEMMA CleanIsExtension ==
  ASSUME NEW old \in Accounts(Refs), NEW new \in Accounts(Refs), Clean(old, new),
         NonNegative(old), CachedIsLastSnapshot(old)
  PROVE  /\ NonNegative(new)
         /\ CachedIsLastSnapshot(new)
         /\ new = old \/ L!Extends(old, new)
<1>1. CASE new = old
  BY <1>1
<1>2. CASE Grown(old, new) /\ Len(old.rows) < Len(new.rows) /\ CachedIsLastSnapshot(new)
  <2>1. ASSUME NEW i \in 1 .. Len(new.rows)
        PROVE  new.rows[i].balanceAfter >= 0
    <3>1. Len(old.rows) \in Nat /\ Len(new.rows) \in Nat
      BY AccountFields
    <3>2. CASE i \in 1 .. Len(old.rows)
      <4>1. new.rows[i] = old.rows[i]
        BY <1>2, <3>2 DEF Grown
      <4>2. QED
        BY <3>2, <4>1 DEF NonNegative
    <3>3. CASE i \in Len(old.rows) + 1 .. Len(new.rows)
      BY <1>2, <3>3 DEF Grown
    <3>4. QED
      BY <3>1, <3>2, <3>3
  <2>2. new.cached >= 0
    BY <1>2, <2>1, AccountFields DEF CachedIsLastSnapshot, BalanceAfterRow
  <2>3. L!Extends(old, new)
    BY <1>2 DEF Grown, L!Extends, L!Continues, L!CachedIsLastSnapshot, L!BalanceAfterRow,
                Continues, CachedIsLastSnapshot, BalanceAfterRow, L!Accounts, Accounts, L!Rows, Rows
  <2>4. QED
    BY <1>2, <2>1, <2>2, <2>3 DEF NonNegative
<1>3. QED
  BY <1>1, <1>2 DEF Clean

-------------------------------------------------------------------------------
(* The inductive invariant: who holds a row lock, and how far the holder's *)
(* uncommitted accounts are from the committed ones.                       *)
PendingOK(w) ==
  LET c == tx[w].customer
  IN  \A u \in Units :
        IF tx[w].pc = "insert" /\ u = Delta1(w).unit
        THEN HalfDone(accounts[c][u], tx[w].pending[u],
                      tx[w].read, tx[w].read + Delta1(w).amount)
        ELSE Clean(accounts[c][u], tx[w].pending[u])

WorkerInv(w) ==
  /\ tx[w].pc \in {"insert", "commit"} => lock[tx[w].customer] = w
  /\ tx[w].pc = "update" =>
       /\ tx[w].read + Delta1(w).amount >= 0
       /\ lock[tx[w].customer] = w => tx[w].read = tx[w].pending[Delta1(w).unit].cached
  /\ tx[w].pc # "idle" /\ lock[tx[w].customer] = w => PendingOK(w)

LockInv ==
  \A c \in Customers : lock[c] # Free => tx[lock[c]].pc # "idle" /\ tx[lock[c]].customer = c

LedgerInv ==
  /\ TypeOK /\ WorkOK
  /\ LockInv
  /\ \A w \in Workers : WorkerInv(w)
  /\ CachedIsNewestRow
  /\ NeverNegative

(* A worker whose transaction, row lock and locked customer are left alone *)
(* keeps its part of the invariant.                                        *)
LEMMA Frame ==
  ASSUME NEW w \in Workers, WorkerInv(w), tx'[w] = tx[w],
         tx[w].pc # "idle" =>
           /\ (lock'[tx[w].customer] = w) <=> (lock[tx[w].customer] = w)
           /\ lock[tx[w].customer] = w => accounts'[tx[w].customer] = accounts[tx[w].customer]
  PROVE  WorkerInv(w)'
<1>1. CASE tx[w].pc = "idle"
  BY <1>1 DEF WorkerInv
<1>2. CASE tx[w].pc # "idle"
  <2>1. PendingOK(w) /\ lock[tx[w].customer] = w => PendingOK(w)'
    BY <1>2 DEF PendingOK, Delta1
  <2>2. QED
    BY <1>2, <2>1 DEF WorkerInv, Delta1
<1>3. QED
  BY <1>1, <1>2

(* ROLLBACK leaves the committed accounts as they are.                     *)
LEMMA RollbackInv ==
  ASSUME LedgerInv, NEW w \in Workers, Rollback(w)
  PROVE  LockInv' /\ (\A v \in Workers : WorkerInv(v)') /\ UNCHANGED accounts
<1>1. /\ UNCHANGED accounts
      /\ tx' = [tx EXCEPT ![w] = Idle]
      /\ lock' = [c \in Customers |-> IF lock[c] = w THEN Free ELSE lock[c]]
  BY DEF Rollback, ReleaseLocks
<1>2. tx'[w] = Idle /\ (\A v \in Workers : v # w => tx'[v] = tx[v])
  BY <1>1 DEF LedgerInv, TypeOK
<1>3. LockInv'
  BY <1>1, <1>2 DEF LedgerInv, LockInv, TypeOK
<1>4. ASSUME NEW v \in Workers
      PROVE  WorkerInv(v)'
  <2>1. CASE v = w
    BY <1>2, <2>1 DEF WorkerInv, Idle
  <2>2. CASE v # w
    <3>1. tx[v].pc # "idle" =>
            ((lock'[tx[v].customer] = v) <=> (lock[tx[v].customer] = v))
      BY <1>1, <2>2, FreeAssumption DEF LedgerInv, WorkOK
    <3>2. QED
      BY <1>1, <1>2, <2>2, <3>1, Frame DEF LedgerInv
  <2>3. QED
    BY <2>1, <2>2
<1>5. QED
  BY <1>1, <1>3, <1>4

LEMMA BeginInv ==
  ASSUME LedgerInv, NEW w \in Workers, NEW job \in Jobs, Begin(w, job)
  PROVE  LockInv' /\ (\A v \in Workers : WorkerInv(v)') /\ UNCHANGED accounts
<1>1. /\ tx[w].pc = "idle"
      /\ tx'[w].pc = "read" /\ tx'[w].customer = job.customer
      /\ \A v \in Workers : v # w => tx'[v] = tx[v]
      /\ UNCHANGED <<accounts, lock>>
  BY DEF Begin, LedgerInv, TypeOK, Idle
<1>2. job.customer \in Customers
  BY JobsAssumption
<1>3. \A c \in Customers : lock[c] # w
  BY <1>1, FreeAssumption DEF LedgerInv, LockInv
<1>4. LockInv'
  BY <1>1, <1>3 DEF LedgerInv, LockInv, TypeOK
<1>5. ASSUME NEW v \in Workers
      PROVE  WorkerInv(v)'
  <2>1. CASE v = w
    BY <1>1, <1>2, <1>3, <2>1 DEF WorkerInv
  <2>2. CASE v # w
    BY <1>1, <2>2, Frame DEF LedgerInv
  <2>3. QED
    BY <2>1, <2>2
<1>6. QED
  BY <1>1, <1>4, <1>5

LEMMA ReadEnoughInv ==
  ASSUME LedgerInv, NEW w \in Workers, ReadEnough(w)
  PROVE  LockInv' /\ (\A v \in Workers : WorkerInv(v)') /\ UNCHANGED accounts
<1> DEFINE c == tx[w].customer
           read == Visible(w)[Delta1(w).unit].cached
<1>1. /\ tx[w].pc = "read"
      /\ tx' = [tx EXCEPT ![w] = [tx[w] EXCEPT !.pc = "update", !.read = read]]
      /\ UNCHANGED <<accounts, lock>>
      /\ ~ Insufficient(read, Delta1(w).amount)
  BY DEF ReadEnough, LedgerInv, TypeOK, Tx
<1>2. /\ c \in Customers /\ Delta1(w).unit \in Units /\ Delta1(w).amount \in Int
      /\ Visible(w) \in [Units -> Accounts(Refs)] /\ read \in Int
  BY <1>1, HeadOfTodo, VisibleType DEF LedgerInv, Accounts
<1>3. read + Delta1(w).amount >= 0
  BY <1>1, <1>2 DEF Insufficient
<1>4. lock[c] = w => read = tx[w].pending[Delta1(w).unit].cached
  BY DEF Visible
<1> HIDE DEF read
<1>5. /\ tx'[w].pc = "update" /\ tx'[w].customer = c /\ tx'[w].todo = tx[w].todo
      /\ tx'[w].read = read /\ tx'[w].pending = tx[w].pending
      /\ \A v \in Workers : v # w => tx'[v] = tx[v]
  BY <1>1 DEF LedgerInv, TypeOK, Tx
<1>6. LockInv'
  BY <1>1, <1>5 DEF LedgerInv, LockInv, TypeOK
<1>7. WorkerInv(w)'
  <2>1. lock[c] = w => PendingOK(w)
    BY <1>1 DEF LedgerInv, WorkerInv
  <2>2. lock[c] = w => PendingOK(w)'
    BY <1>1, <1>5, <2>1 DEF PendingOK
  <2>3. QED
    BY <1>1, <1>3, <1>4, <1>5, <2>2 DEF WorkerInv, Delta1
<1>8. \A v \in Workers : v # w => WorkerInv(v)'
  BY <1>1, <1>5, Frame DEF LedgerInv
<1>9. QED
  BY <1>1, <1>6, <1>7, <1>8

LEMMA UpdateRowInv ==
  ASSUME LedgerInv, NEW w \in Workers, UpdateRow(w)
  PROVE  LockInv' /\ (\A v \in Workers : WorkerInv(v)') /\ UNCHANGED accounts
<1> DEFINE c == tx[w].customer
           u == Delta1(w).unit
           value == tx[w].read + Delta1(w).amount
           new == [Visible(w) EXCEPT ![u] = SetCached(Visible(w)[u], value)]
<1>1. /\ tx[w].pc = "update" /\ lock[c] \in {Free, w}
      /\ lock' = [lock EXCEPT ![c] = w]
      /\ tx' = [tx EXCEPT ![w] = [tx[w] EXCEPT !.pc = "insert", !.pending = new]]
      /\ UNCHANGED accounts
  BY DEF UpdateRow, LedgerInv, TypeOK, Tx
<1>2. /\ c \in Customers /\ u \in Units /\ Delta1(w).amount \in Int /\ tx[w].read \in Int
      /\ Visible(w) \in [Units -> Accounts(Refs)]
      /\ accounts[c] \in [Units -> Accounts(Refs)]
      /\ tx[w].pending \in [Units -> Accounts(Refs)]
  BY <1>1, HeadOfTodo, VisibleType DEF LedgerInv, TypeOK, Tx
<1>3. value \in Int /\ value >= 0
  BY <1>1, <1>2 DEF LedgerInv, WorkerInv
<1>4. HalfDone(accounts[c][u], new[u], tx[w].read, value)
  <2>1. new[u] = SetCached(Visible(w)[u], value)
    BY <1>2
  <2>2. CASE lock[c] = w
    <3>1. Visible(w) = tx[w].pending
      BY <2>2 DEF Visible
    <3>2. Clean(accounts[c][u], tx[w].pending[u]) /\ tx[w].read = tx[w].pending[u].cached
      BY <1>1, <1>2, <2>2 DEF LedgerInv, WorkerInv, PendingOK
    <3>3. QED
      BY <1>2, <1>3, <2>1, <3>1, <3>2, HalfOfClean
  <2>3. CASE lock[c] # w
    <3>1. Visible(w) = accounts[c]
      BY <2>3 DEF Visible
    <3>2. QED
      BY <1>2, <1>3, <2>1, <3>1, HalfOfOld
  <2>4. QED
    BY <2>2, <2>3
<1>5. \A x \in Units : x # u => Clean(accounts[c][x], new[x])
  <2>1. \A x \in Units : x # u => new[x] = Visible(w)[x]
    BY <1>2
  <2>2. CASE lock[c] = w
    BY <1>1, <2>1, <2>2 DEF LedgerInv, WorkerInv, PendingOK, Visible
  <2>3. CASE lock[c] # w
    BY <2>1, <2>3 DEF Visible, Clean
  <2>4. QED
    BY <2>2, <2>3
<1> HIDE DEF new
<1>6. /\ tx'[w].pc = "insert" /\ tx'[w].customer = c /\ tx'[w].todo = tx[w].todo
      /\ tx'[w].read = tx[w].read /\ tx'[w].pending = new
      /\ \A v \in Workers : v # w => tx'[v] = tx[v]
      /\ lock'[c] = w /\ (\A d \in Customers : d # c => lock'[d] = lock[d])
  BY <1>1, <1>2 DEF LedgerInv, TypeOK, Tx
<1>7. LockInv'
  BY <1>1, <1>2, <1>6 DEF LedgerInv, LockInv, TypeOK
<1>8. WorkerInv(w)'
  <2>1. Delta1(w)' = Delta1(w)
    BY <1>6 DEF Delta1
  <2>2. PendingOK(w)'
    BY <1>1, <1>4, <1>5, <1>6, <2>1 DEF PendingOK
  <2>3. QED
    BY <1>6, <2>2 DEF WorkerInv
<1>9. ASSUME NEW v \in Workers, v # w
      PROVE  WorkerInv(v)'
  <2>1. tx[v].pc # "idle" => ((lock'[tx[v].customer] = v) <=> (lock[tx[v].customer] = v))
    BY <1>1, <1>6, <1>9, FreeAssumption DEF LedgerInv, WorkOK
  <2>2. QED
    BY <1>1, <1>6, <1>9, <2>1, Frame DEF LedgerInv
<1>10. QED
  BY <1>1, <1>7, <1>8, <1>9

LEMMA InsertRowInv ==
  ASSUME LedgerInv, NEW w \in Workers, InsertRow(w)
  PROVE  LockInv' /\ (\A v \in Workers : WorkerInv(v)') /\ UNCHANGED accounts
<1> DEFINE c == tx[w].customer
           u == Delta1(w).unit
           next == IF Len(tx[w].todo) = 1 THEN "commit" ELSE "read"
           rest == Tail(tx[w].todo)
           row == AppendRow(tx[w].pending[u], tx[w].read, Delta1(w).amount, Delta1(w).ref)
           new == [tx[w].pending EXCEPT ![u] = row]
<1>1. /\ tx[w].pc = "insert"
      /\ tx' = [tx EXCEPT ![w] = [tx[w] EXCEPT !.pc = next, !.todo = rest, !.pending = new]]
      /\ UNCHANGED <<accounts, lock>>
  BY DEF InsertRow, LedgerInv, TypeOK, Tx
<1>2. /\ c \in Customers /\ u \in Units /\ Delta1(w).amount \in Int /\ tx[w].read \in Int
      /\ Delta1(w).ref \in Refs
      /\ accounts[c] \in [Units -> Accounts(Refs)]
      /\ tx[w].pending \in [Units -> Accounts(Refs)]
  BY <1>1, HeadOfTodo DEF LedgerInv, TypeOK, Tx
<1>3. lock[c] = w /\ PendingOK(w)
  BY <1>1 DEF LedgerInv, WorkerInv
<1>4. HalfDone(accounts[c][u], tx[w].pending[u], tx[w].read, tx[w].read + Delta1(w).amount)
  BY <1>1, <1>2, <1>3 DEF PendingOK
<1>5. \A x \in Units : Clean(accounts[c][x], new[x])
  <2>1. Clean(accounts[c][u], row)
    BY <1>2, <1>4, CleanOfHalf
  <2>2. new[u] = row /\ (\A x \in Units : x # u => new[x] = tx[w].pending[x])
    BY <1>2
  <2>3. \A x \in Units : x # u => Clean(accounts[c][x], tx[w].pending[x])
    BY <1>3 DEF PendingOK
  <2> HIDE DEF row, new, u, c
  <2>4. QED
    BY <2>1, <2>2, <2>3
<1>6. next \in {"commit", "read"}
  OBVIOUS
<1> HIDE DEF new, next, rest
<1>7. /\ tx'[w].pc = next /\ tx'[w].customer = c /\ tx'[w].pending = new
      /\ \A v \in Workers : v # w => tx'[v] = tx[v]
  BY <1>1 DEF LedgerInv, TypeOK, Tx
<1>8. LockInv'
  BY <1>1, <1>6, <1>7 DEF LedgerInv, LockInv, TypeOK
<1>9. WorkerInv(w)'
  <2>1. PendingOK(w)'
    BY <1>1, <1>5, <1>6, <1>7 DEF PendingOK
  <2>2. QED
    BY <1>1, <1>3, <1>6, <1>7, <2>1 DEF WorkerInv
<1>10. \A v \in Workers : v # w => WorkerInv(v)'
  BY <1>1, <1>7, Frame DEF LedgerInv
<1>11. QED
  BY <1>1, <1>8, <1>9, <1>10

(* COMMIT publishes clean accounts: a step of the abstract ledger.         *)
LEMMA CommitInv ==
  ASSUME LedgerInv, NEW w \in Workers, Commit(w)
  PROVE  /\ LockInv' /\ (\A v \in Workers : WorkerInv(v)')
         /\ CachedIsNewestRow' /\ NeverNegative'
         /\ L!Post(tx[w].customer)
<1> DEFINE c == tx[w].customer
<1>1. /\ tx[w].pc = "commit" /\ lock[c] = w /\ c \in Customers
      /\ tx' = [tx EXCEPT ![w] = Idle]
      /\ lock' = [d \in Customers |-> IF lock[d] = w THEN Free ELSE lock[d]]
      /\ accounts' = [accounts EXCEPT ![c] = tx[w].pending]
  BY DEF Commit, ReleaseLocks, LedgerInv, WorkerInv, WorkOK
<1>2. tx'[w] = Idle /\ (\A v \in Workers : v # w => tx'[v] = tx[v])
  BY <1>1 DEF LedgerInv, TypeOK
<1>3. /\ accounts'[c] = tx[w].pending
      /\ \A d \in Customers : d # c => accounts'[d] = accounts[d]
      /\ accounts[c] \in [Units -> Accounts(Refs)]
      /\ tx[w].pending \in [Units -> Accounts(Refs)]
  BY <1>1 DEF LedgerInv, TypeOK, Tx
<1>4. \A u \in Units : Clean(accounts[c][u], accounts'[c][u])
  BY <1>1, <1>3 DEF LedgerInv, WorkerInv, PendingOK
<1>5. \A u \in Units : /\ NonNegative(accounts'[c][u])
                        /\ CachedIsLastSnapshot(accounts'[c][u])
                        /\ \/ accounts'[c][u] = accounts[c][u]
                           \/ L!Extends(accounts[c][u], accounts'[c][u])
  BY <1>1, <1>3, <1>4, CleanIsExtension DEF LedgerInv, NeverNegative, CachedIsNewestRow
<1>6. NeverNegative' /\ CachedIsNewestRow'
  BY <1>3, <1>5 DEF LedgerInv, NeverNegative, CachedIsNewestRow
<1>7. L!Post(c)
  <2>1. L!Units = Units
    BY DEF L!Units, Units
  <2>2. QED
    BY <1>1, <1>3, <1>5, <2>1 DEF L!Post
<1>8. LockInv'
  BY <1>1, <1>2 DEF LedgerInv, LockInv, TypeOK
<1>9. ASSUME NEW v \in Workers
      PROVE  WorkerInv(v)'
  <2>1. CASE v = w
    BY <1>2, <2>1 DEF WorkerInv, Idle
  <2>2. CASE v # w
    <3>1. tx[v].pc # "idle" => tx[v].customer \in Customers
      BY DEF LedgerInv, WorkOK
    <3>2. tx[v].pc # "idle" =>
            ((lock'[tx[v].customer] = v) <=> (lock[tx[v].customer] = v))
      BY <1>1, <2>2, <3>1, FreeAssumption
    <3>3. tx[v].pc # "idle" /\ lock[tx[v].customer] = v =>
            accounts'[tx[v].customer] = accounts[tx[v].customer]
      BY <1>1, <1>3, <2>2, <3>1
    <3>4. QED
      BY <1>2, <2>2, <3>2, <3>3, Frame DEF LedgerInv
  <2>3. QED
    BY <2>1, <2>2
<1>10. QED
  BY <1>6, <1>7, <1>8, <1>9

LEMMA LedgerInit == Init => LedgerInv /\ L!Init
<1> SUFFICES ASSUME Init PROVE LedgerInv /\ L!Init
  OBVIOUS
<1>1. TypeOK /\ WorkOK
  BY TypeInit
<1>2. NonNegative(EmptyAccount) /\ CachedIsLastSnapshot(EmptyAccount)
  BY DEF NonNegative, CachedIsLastSnapshot, BalanceAfterRow, EmptyAccount
<1>3. CachedIsNewestRow /\ NeverNegative
  BY <1>2 DEF Init, CachedIsNewestRow, NeverNegative, EmptyBook
<1>4. LockInv /\ (\A w \in Workers : WorkerInv(w))
  BY DEF Init, LockInv, WorkerInv, Idle
<1>5. L!Init
  BY DEF Init, L!Init, EmptyBook, EmptyAccount, L!EmptyAccount, Units, L!Units
<1>6. QED
  BY <1>1, <1>3, <1>4, <1>5 DEF LedgerInv

LEMMA LedgerStep == LedgerInv /\ [Next]_vars => LedgerInv' /\ [L!Next]_accounts
<1> SUFFICES ASSUME LedgerInv, [Next]_vars
             PROVE  LedgerInv' /\ [L!Next]_accounts
  OBVIOUS
<1>1. TypeOK' /\ WorkOK'
  BY TypeStep DEF LedgerInv
<1>2. ASSUME LockInv' /\ (\A v \in Workers : WorkerInv(v)') /\ UNCHANGED accounts
      PROVE  LedgerInv' /\ [L!Next]_accounts
  BY <1>1, <1>2 DEF LedgerInv, CachedIsNewestRow, NeverNegative
<1>3. ASSUME NEW w \in Workers, Commit(w)
      PROVE  LedgerInv' /\ [L!Next]_accounts
  <2>1. tx[w].customer \in Customers
    BY <1>3 DEF Commit, LedgerInv, WorkOK
  <2>2. QED
    BY <1>1, <1>3, <2>1, CommitInv DEF LedgerInv, L!Next
<1>4. CASE UNCHANGED vars
  <2>1. LockInv'
    BY <1>4 DEF LedgerInv, LockInv, vars
  <2>2. ASSUME NEW v \in Workers PROVE WorkerInv(v)'
    BY <1>4, Frame DEF LedgerInv, vars
  <2>3. QED
    BY <1>2, <1>4, <2>1, <2>2 DEF vars
<1>5. ASSUME NEW w \in Workers, NEW job \in Jobs, Begin(w, job)
      PROVE  LedgerInv' /\ [L!Next]_accounts
  BY <1>2, <1>5, BeginInv
<1>6. ASSUME NEW w \in Workers, Rollback(w)
      PROVE  LedgerInv' /\ [L!Next]_accounts
  BY <1>2, <1>6, RollbackInv
<1>7. ASSUME NEW w \in Workers, ReadEnough(w) \/ UpdateRow(w) \/ InsertRow(w)
      PROVE  LedgerInv' /\ [L!Next]_accounts
  BY <1>2, <1>7, ReadEnoughInv, UpdateRowInv, InsertRowInv
<1>8. QED
  BY <1>3, <1>4, <1>5, <1>6, <1>7 DEF Next, Statement, RejectOverdraft, Abort

(* No balance and no snapshot is ever negative, and the cached balance is  *)
(* always the newest row's snapshot, for any number of concurrent requests.*)
THEOREM LedgerSafety == Spec => [](NeverNegative /\ CachedIsNewestRow)
<1>1. LedgerInv => NeverNegative /\ CachedIsNewestRow
  BY DEF LedgerInv
<1>2. QED
  BY <1>1, LedgerInit, LedgerStep, PTL DEF Spec

(* Whatever the interleaving, the statements of applyWithin implement the  *)
(* abstract ledger: only COMMIT is visible, it appends rows and keeps      *)
(* cached and newest row together.                                         *)
THEOREM ImplementsLedgerThm == Spec => ImplementsLedger
BY LedgerInit, LedgerStep, PTL DEF Spec, ImplementsLedger, L!Spec
===============================================================================
