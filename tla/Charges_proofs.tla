---------------------------- MODULE Charges_proofs ----------------------------
(***************************************************************************)
(* Proofs about Charges for any number of overlapping sweeps, approvals    *)
(* and loads: types, sound books, what a cancellation stops, and that a    *)
(* print job is charged in full; and for the single sweep that JobsService *)
(* schedules, that no period is charged twice.                             *)
(***************************************************************************)
EXTENDS Charges, SequenceTheorems, FiniteSetTheorems, TLAPS

Refs == Subs \cup Jobs \cup {"load"}
NewRow(read, amount, ref) ==
  [amount |-> amount, balanceAfter |-> read + amount, ref |-> ref]

(* What posting does to an account.                                        *)
LEMMA PostedAccount ==
  ASSUME NEW acct \in Accounts(Refs), NEW read \in Int, NEW amount \in Int, NEW ref \in Refs
  PROVE  LET new == Posted(acct, read, amount, ref)
         IN  /\ new \in Accounts(Refs)
             /\ new.cached = read + amount
             /\ Len(new.rows) = Len(acct.rows) + 1
             /\ new.rows[Len(acct.rows) + 1] = NewRow(read, amount, ref)
             /\ \A i \in 1 .. Len(acct.rows) : new.rows[i] = acct.rows[i]
<1> DEFINE row == NewRow(read, amount, ref)
           new == Posted(acct, read, amount, ref)
<1>1. acct.rows \in Seq(Rows(Refs)) /\ acct.cached \in Int
  BY DEF Accounts
<1>2. row \in Rows(Refs)
  BY <1>1 DEF Rows, NewRow
<1>3. new = [cached |-> read + amount, rows |-> Append(acct.rows, row)]
  <2> DEFINE mid == SetCached(acct, read + amount)
  <2>1. mid = [cached |-> read + amount, rows |-> acct.rows]
    BY <1>1 DEF SetCached, Accounts
  <2>2. AppendRow(mid, read, amount, ref) = [mid EXCEPT !.rows = Append(mid.rows, row)]
    BY DEF AppendRow, NewRow
  <2>3. new = AppendRow(mid, read, amount, ref)
    BY DEF Posted
  <2> HIDE DEF mid, row, new
  <2> QED
    BY <2>1, <2>2, <2>3
<1> HIDE DEF row, new
<1>4. /\ Append(acct.rows, row) \in Seq(Rows(Refs))
      /\ Len(Append(acct.rows, row)) = Len(acct.rows) + 1
      /\ Append(acct.rows, row)[Len(acct.rows) + 1] = row
      /\ \A i \in 1 .. Len(acct.rows) : Append(acct.rows, row)[i] = acct.rows[i]
  BY <1>1, <1>2, AppendProperties
<1> QED
  BY <1>1, <1>3, <1>4 DEF Accounts, new, row

(* A posting that is covered by what was read keeps an account sound,      *)
(* whatever was posted since.                                              *)
SoundAccount(acct) == NonNegative(acct) /\ CachedIsLastSnapshot(acct)

LEMMA PostedSound ==
  ASSUME NEW acct \in Accounts(Refs), SoundAccount(acct), NEW read \in Int, NEW amount \in Int,
         NEW ref \in Refs, read + amount >= 0
  PROVE  SoundAccount(Posted(acct, read, amount, ref))
<1> DEFINE new == Posted(acct, read, amount, ref)
           n == Len(acct.rows)
<1>1. /\ new.cached = read + amount /\ Len(new.rows) = n + 1
      /\ new.rows[n + 1].balanceAfter = read + amount
      /\ \A i \in 1 .. n : new.rows[i] = acct.rows[i]
      /\ n \in Nat
  <2>1. n \in Nat
    BY DEF Accounts
  <2> HIDE DEF n, new
  <2>2. /\ new.cached = read + amount /\ Len(new.rows) = n + 1
        /\ new.rows[n + 1] = NewRow(read, amount, ref)
        /\ \A i \in 1 .. n : new.rows[i] = acct.rows[i]
    BY PostedAccount DEF new, n
  <2> QED
    BY <2>1, <2>2 DEF NewRow
<1> HIDE DEF new, n
<1>2. \A i \in 1 .. n + 1 : i = n + 1 \/ i \in 1 .. n
  BY <1>1
<1>3. NonNegative(new)
  BY <1>1, <1>2 DEF NonNegative, SoundAccount, n
<1>4. CachedIsLastSnapshot(new)
  BY <1>1 DEF CachedIsLastSnapshot, BalanceAfterRow
<1> QED
  BY <1>3, <1>4 DEF SoundAccount, new

-------------------------------------------------------------------------------
(* One account is charged or loaded.                                       *)
LEMMA OneAccountChanges ==
  ASSUME ChargesTypeOK, NEW k \in Payers, NEW u \in Units, NEW read \in Int, NEW amount \in Int,
         NEW ref \in Refs, Post(k, u, read, amount, ref)
  PROVE  /\ books' \in [Payers -> [Units -> Accounts(Refs)]]
         /\ books'[k][u] = Posted(books[k][u], read, amount, ref)
         /\ \A l \in Payers, v \in Units : l # k \/ v # u => books'[l][v] = books[l][v]
<1>1. books \in [Payers -> [Units -> Accounts(Refs)]]
  BY DEF ChargesTypeOK, Refs
<1>2. Posted(books[k][u], read, amount, ref) \in Accounts(Refs)
  BY <1>1, PostedAccount
<1>3. books' = [books EXCEPT ![k] = [books[k] EXCEPT ![u] = Posted(books[k][u], read, amount, ref)]]
  BY <1>1 DEF Post
<1> QED
  BY <1>1, <1>2, <1>3

(* Every step posts at most one row, which is covered by what was read or  *)
(* loads what was read.                                                    *)
Posts(k, u, amount, ref) ==
  \E read \in Int : /\ Post(k, u, read, amount, ref)
                    /\ read + amount >= 0 \/ (amount >= 0 /\ \E l \in loading : l.balance = read)

LEMMA ChargePosts ==
  ASSUME ChargesTypeOK, NEW w \in Sweepers, NEW t \in sweeps[w].reading, Charge(w, t)
  PROVE  /\ t.row \in sweeps[w].due /\ t.row \in DueRow
         /\ t.row.id \in Subs /\ PayerOf[t.row.id] \in Payers /\ - PriceOf[t.row.id] \in Int
         /\ Posts(PayerOf[t.row.id], "MONEY", - PriceOf[t.row.id], t.row.id)
<1>1. t.row \in sweeps[w].due /\ t.row \in DueRow /\ t.balance \in Int
  BY DEF ChargesTypeOK, Sweeping
<1>2. t.row.id \in Subs
  BY <1>1 DEF DueRow
<1>3. PayerOf[t.row.id] \in Payers /\ PriceOf[t.row.id] \in Nat
  BY <1>2, ChargesAssumption
<1>4. t.balance + (- PriceOf[t.row.id]) >= 0
  BY <1>1, <1>3 DEF Charge, Covers, Insufficient
<1> QED
  BY <1>1, <1>2, <1>3, <1>4 DEF Charge, Posts

(* An approval that commits takes the whole price of the job in one unit.  *)
LEMMA ApprovalPosts ==
  ASSUME ChargesTypeOK, NEW c \in Approvers, CommitApproval(c), OwnerOf[approving[c].job] # WalkIn
  PROVE  /\ approving[c].job \in Jobs /\ OwnerOf[approving[c].job] \in Payers
         /\ approving[c].unit \in Units
         /\ - Amount(approving[c].job, approving[c].unit) \in Int
         /\ Posts(OwnerOf[approving[c].job], approving[c].unit,
                  - Amount(approving[c].job, approving[c].unit), approving[c].job)
<1> DEFINE j == approving[c].job
           u == approving[c].unit
           read == approving[c].balance
<1>1. j \in Jobs /\ u \in Units /\ read \in Int
  BY DEF CommitApproval, ChargesTypeOK, Approving, Units
<1>2. OwnerOf[j] \in Payers /\ Amount(j, u) \in Nat
  BY <1>1, ChargesAssumption DEF Amount
<1>3. Covers(read, Amount(j, u)) /\ Post(OwnerOf[j], u, read, - Amount(j, u), j)
  BY DEF CommitApproval, Affords
<1> HIDE DEF j, u, read
<1>4. read + (- Amount(j, u)) >= 0 /\ - Amount(j, u) \in Int
  BY <1>1, <1>2, <1>3 DEF Covers, Insufficient
<1>5. Posts(OwnerOf[j], u, - Amount(j, u), j)
  BY <1>1, <1>3, <1>4 DEF Posts
<1> QED
  BY <1>1, <1>2, <1>4, <1>5 DEF j, u

LEMMA LoadPosts ==
  ASSUME ChargesTypeOK, NEW l \in loading, Load(l)
  PROVE  /\ l.payer \in Payers /\ l.unit \in Units /\ LoadAmount[l.unit] \in Int
         /\ Posts(l.payer, l.unit, LoadAmount[l.unit], "load")
<1>1. l.payer \in Payers /\ l.unit \in {"MONEY", "PRINT_BW"} /\ l.balance \in Int
  BY DEF ChargesTypeOK, Loading
<1>2. l.unit \in Units /\ LoadAmount[l.unit] \in Int /\ LoadAmount[l.unit] >= 0
  BY <1>1, ChargesAssumption DEF Units
<1> QED
  BY <1>1, <1>2 DEF Load, Posts

(* The other steps post nothing for a subscription.                        *)
ChargesSome == \E w \in Sweepers : \E t \in sweeps[w].reading : Charge(w, t)
OtherRefs == Jobs \cup {"load"}

LEMMA OtherPosts ==
  ASSUME ChargesTypeOK, [ChargesNext]_chargeVars, ~ ChargesSome
  PROVE  \/ books' = books
         \/ \E k \in Payers, u \in Units, amount \in Int, ref \in OtherRefs :
              Posts(k, u, amount, ref)
<1> SUFFICES ASSUME books' # books
             PROVE  \E k \in Payers, u \in Units, amount \in Int, ref \in OtherRefs :
                      Posts(k, u, amount, ref)
  OBVIOUS
<1>1. CASE \E c \in Approvers : CommitApproval(c)
  <2> PICK c \in Approvers : CommitApproval(c)
    BY <1>1
  <2>1. OwnerOf[approving[c].job] # WalkIn
    BY DEF CommitApproval, ChargesTypeOK
  <2> QED
    BY <2>1, ApprovalPosts DEF OtherRefs
<1>2. CASE \E l \in loading : Load(l)
  <2> PICK l \in loading : Load(l)
    BY <1>2
  <2> QED
    BY LoadPosts DEF OtherRefs
<1> QED
  BY <1>1, <1>2 DEF ChargesSome, ChargesNext, chargeVars, Sweep, StartSweep, StartCharge, ChargeFails,
     MarkPastDue, SweepDies, Create, CreateExternal, Cancel, Approval, CannotApprove, Approve,
     ChooseUnit, ReadBalance, CreateJob, CancelJob, StartLoad, NextDay

LEMMA BooksChange ==
  ASSUME ChargesTypeOK, [ChargesNext]_chargeVars
  PROVE  \/ books' = books
         \/ \E k \in Payers, u \in Units, amount \in Int, ref \in Refs : Posts(k, u, amount, ref)
<1>1. CASE ChargesSome
  <2> PICK w \in Sweepers : \E t \in sweeps[w].reading : Charge(w, t)
    BY <1>1 DEF ChargesSome
  <2> PICK t \in sweeps[w].reading : Charge(w, t)
    OBVIOUS
  <2>1. t.row.id \in Refs /\ "MONEY" \in Units
    BY ChargePosts DEF Refs, Units
  <2> QED
    BY <2>1, ChargePosts
<1>2. CASE ~ ChargesSome
  BY <1>2, OtherPosts DEF OtherRefs, Refs
<1> QED
  BY <1>1, <1>2

-------------------------------------------------------------------------------
(* Types.                                                                  *)
LEMMA TypesInit == ChargesInit => ChargesTypeOK
<1> SUFFICES ASSUME ChargesInit PROVE ChargesTypeOK
  OBVIOUS
<1>1. EmptyAccount \in Accounts(Refs)
  BY DEF EmptyAccount, Accounts
<1>2. NoSub \in Sub /\ Undecided \in Approving /\ Idle \in Sweeping
  BY DEF NoSub, Sub, Undecided, Approving, Idle, Sweeping
<1> QED
  BY <1>1, <1>2 DEF ChargesInit, ChargesTypeOK, Idle, Undecided, JobStatus, Refs

LEMMA BooksStep ==
  ASSUME ChargesTypeOK, [ChargesNext]_chargeVars
  PROVE  books' \in [Payers -> [Units -> Accounts(Refs)]]
<1>1. CASE books' = books
  BY <1>1 DEF ChargesTypeOK, Refs
<1>2. CASE \E k \in Payers, u \in Units, amount \in Int, ref \in Refs : Posts(k, u, amount, ref)
  BY <1>2, OneAccountChanges DEF Posts
<1> QED
  BY <1>1, <1>2, BooksChange

(* A sweep's record: what it is charging, and what failed, is one of its   *)
(* rows.                                                                   *)
SoundSweep(sweep) == /\ sweep \in Sweeping /\ \A t \in sweep.reading : t.row \in sweep.due
                     /\ sweep.failed \subseteq sweep.due

LEMMA RestType ==
  ASSUME ChargesTypeOK, NEW w \in Sweepers, NEW row
  PROVE  SoundSweep(Rest(w, row)) /\ Rest(w, row).due \subseteq sweeps[w].due \ {row}
<1>1. sweeps[w] \in Sweeping
  BY DEF ChargesTypeOK
<1>2. CASE sweeps[w].due \ {row} = {}
  BY <1>2 DEF Rest, Idle, Sweeping, SoundSweep
<1>3. CASE sweeps[w].due \ {row} # {}
  <2> DEFINE rest == sweeps[w].due \ {row}
             sweep == [sweeps[w] EXCEPT !.due = rest, !.reading = {}, !.failed = {}]
  <2>1. rest \subseteq sweeps[w].due
    OBVIOUS
  <2>2. sweep \in Sweeping /\ sweep.due = rest /\ sweep.reading = {} /\ sweep.failed = {}
    BY <1>1, <2>1 DEF Sweeping
  <2>3. Rest(w, row) = sweep
    BY <1>3 DEF Rest
  <2> HIDE DEF rest, sweep
  <2> QED
    BY <2>2, <2>3 DEF SoundSweep, rest
<1> QED
  BY <1>2, <1>3

SoundApproval(approval) ==
  /\ approval \in Approving /\ (approval.pc # "idle" => approval.job \in Jobs)
  /\ approval.pc \in {"chosen", "taking"} => OwnerOf[approval.job] # WalkIn

(* The type invariant without the books, whose type every step keeps.      *)
RestTypeOK ==
  /\ subs \in [Subs -> Sub] /\ jobs \in [Jobs -> JobStatus]
  /\ sweeps \in [Sweepers -> Sweeping] /\ \A w \in Sweepers : SoundSweep(sweeps[w])
  /\ approving \in [Approvers -> Approving] /\ \A c \in Approvers : SoundApproval(approving[c])
  /\ loading \subseteq Loading
  /\ day \in Nat /\ loads \in Nat /\ faults \in Nat

LEMMA TypesSplit == ChargesTypeOK => RestTypeOK
BY DEF ChargesTypeOK, RestTypeOK, SoundSweep, SoundApproval

LEMMA OneSweep ==
  ASSUME ChargesTypeOK, NEW w \in Sweepers, NEW sweep, SoundSweep(sweep),
         sweeps' = [sweeps EXCEPT ![w] = sweep]
  PROVE  sweeps' \in [Sweepers -> Sweeping] /\ \A v \in Sweepers : SoundSweep(sweeps'[v])
BY TypesSplit DEF RestTypeOK, SoundSweep

LEMMA OneApproval ==
  ASSUME ChargesTypeOK, NEW c \in Approvers, NEW approval, SoundApproval(approval),
         approving' = [approving EXCEPT ![c] = approval]
  PROVE  approving' \in [Approvers -> Approving] /\ \A d \in Approvers : SoundApproval(approving'[d])
BY TypesSplit DEF RestTypeOK, SoundApproval

LEMMA SweepTypes ==
  ASSUME ChargesTypeOK, NEW w \in Sweepers, Sweep(w) \/ SweepDies(w)
  PROVE  RestTypeOK'
<1>1. RestTypeOK /\ sweeps[w] \in Sweeping /\ SoundSweep(sweeps[w])
  BY TypesSplit DEF RestTypeOK
<1>2. CASE StartSweep(w)
  <2> DEFINE due == {[id |-> s, end |-> subs[s].currentPeriodEnd] : s \in {t \in Subs : Due(t)}}
             sweep == [running |-> TRUE, reading |-> {}, failed |-> {}, due |-> due]
  <2>1. due \in SUBSET DueRow
    BY <1>1 DEF RestTypeOK, Sub, DueRow
  <2>2. sweeps' = [sweeps EXCEPT ![w] = sweep]
    BY <1>2 DEF StartSweep
  <2> HIDE DEF due
  <2>3. SoundSweep(sweep)
    BY <2>1 DEF SoundSweep, Sweeping
  <2> HIDE DEF sweep
  <2> QED
    BY <1>1, <1>2, <2>2, <2>3, OneSweep DEF StartSweep, RestTypeOK
<1>3. ASSUME NEW row \in sweeps[w].due, StartCharge(w, row)
      PROVE  RestTypeOK'
  <2> DEFINE read == Balance(PayerOf[row.id], "MONEY")
             sweep == [sweeps[w] EXCEPT !.reading = {[row |-> row, balance |-> read]}]
  <2>1. row \in DueRow /\ read \in Int
    <3>1. row \in DueRow /\ row.id \in Subs
      BY <1>1 DEF Sweeping, DueRow
    <3>2. PayerOf[row.id] \in Payers /\ "MONEY" \in Units
      BY <3>1, ChargesAssumption DEF Units
    <3> QED
      BY <3>1, <3>2 DEF ChargesTypeOK, Balance, Accounts
  <2>2. sweeps' = [sweeps EXCEPT ![w] = sweep]
    BY <1>1, <1>3 DEF StartCharge, RestTypeOK
  <2> HIDE DEF read
  <2>3. SoundSweep(sweep)
    BY <1>1, <2>1 DEF SoundSweep, Sweeping
  <2> HIDE DEF sweep
  <2> QED
    BY <1>1, <1>3, <2>2, <2>3, OneSweep DEF StartCharge, RestTypeOK
<1>4. ASSUME NEW t \in sweeps[w].reading, Charge(w, t)
      PROVE  RestTypeOK'
  <2> DEFINE row == t.row
  <2>1. row.id \in Subs /\ Advanced(row) \in Nat
    BY <1>1 DEF Sweeping, DueRow, Advanced
  <2>2. subs' = [subs EXCEPT ![row.id] = [subs[row.id] EXCEPT !.currentPeriodEnd = Advanced(row)]]
    BY <1>1, <1>4, <2>1 DEF Charge, RestTypeOK
  <2>3. [subs[row.id] EXCEPT !.currentPeriodEnd = Advanced(row)] \in Sub
    BY <1>1, <2>1 DEF RestTypeOK, Sub
  <2>4. subs' \in [Subs -> Sub]
    BY <1>1, <2>1, <2>2, <2>3 DEF RestTypeOK
  <2>5. sweeps' = [sweeps EXCEPT ![w] = Rest(w, row)] /\ SoundSweep(Rest(w, row))
    BY <1>4, RestType DEF Charge
  <2> QED
    BY <1>1, <1>4, <2>4, <2>5, OneSweep DEF Charge, RestTypeOK
<1>5. ASSUME NEW t \in sweeps[w].reading, ChargeFails(w, t)
      PROVE  RestTypeOK'
  <2> DEFINE sweep == [sweeps[w] EXCEPT !.reading = {}, !.failed = {t.row}]
  <2>1. faults' \in Nat
    BY <1>1, <1>5 DEF ChargeFails, RestTypeOK
  <2>2. SoundSweep(sweep)
    BY <1>1 DEF SoundSweep, Sweeping
  <2>3. sweeps' = [sweeps EXCEPT ![w] = sweep]
    BY <1>1, <1>5 DEF ChargeFails, RestTypeOK
  <2> HIDE DEF sweep
  <2> QED
    BY <1>1, <1>5, <2>1, <2>2, <2>3, OneSweep DEF ChargeFails, RestTypeOK
<1>6. ASSUME NEW row \in sweeps[w].failed, MarkPastDue(w, row)
      PROVE  RestTypeOK'
  <2>1. row.id \in Subs
    BY <1>1 DEF Sweeping, DueRow
  <2>2. [subs[row.id] EXCEPT !.status = "PAST_DUE"] \in Sub
    BY <1>1, <2>1 DEF RestTypeOK, Sub
  <2>3. subs' = [subs EXCEPT ![row.id] = [subs[row.id] EXCEPT !.status = "PAST_DUE"]]
    BY <1>1, <1>6, <2>1 DEF MarkPastDue, RestTypeOK
  <2>4. subs' \in [Subs -> Sub]
    BY <1>1, <2>1, <2>2, <2>3 DEF RestTypeOK
  <2>5. sweeps' = [sweeps EXCEPT ![w] = Rest(w, row)] /\ SoundSweep(Rest(w, row))
    BY <1>6, RestType DEF MarkPastDue
  <2> QED
    BY <1>1, <1>6, <2>4, <2>5, OneSweep DEF MarkPastDue, RestTypeOK
<1>7. CASE SweepDies(w)
  <2>1. SoundSweep(Idle)
    BY DEF Idle, Sweeping, SoundSweep
  <2>2. faults' \in Nat
    BY <1>1, <1>7 DEF SweepDies, RestTypeOK
  <2> QED
    BY <1>1, <1>7, <2>1, <2>2, OneSweep DEF SweepDies, RestTypeOK
<1> QED
  BY <1>2, <1>3, <1>4, <1>5, <1>6, <1>7 DEF Sweep

LEMMA ApprovalTypes ==
  ASSUME ChargesTypeOK, NEW c \in Approvers, Approval(c)
  PROVE  RestTypeOK'
<1>1. RestTypeOK /\ approving[c] \in Approving /\ SoundApproval(approving[c])
  BY TypesSplit DEF RestTypeOK
<1>2. SoundApproval(Undecided)
  BY DEF Undecided, Approving, SoundApproval
<1>3. ASSUME NEW j \in Jobs, Approve(c, j)
      PROVE  RestTypeOK'
  <2> DEFINE approval == [pc |-> "found", job |-> j, unit |-> "MONEY", balance |-> 0]
  <2>1. SoundApproval(approval)
    BY DEF Approving, SoundApproval
  <2>2. approving' = [approving EXCEPT ![c] = approval]
    BY <1>3 DEF Approve
  <2> HIDE DEF approval
  <2> QED
    BY <1>1, <1>3, <2>1, <2>2, OneApproval DEF Approve, RestTypeOK
<1>4. CASE ChooseUnit(c)
  <2> DEFINE unit == IF EnoughPages(approving[c].job) THEN "PRINT_BW" ELSE "MONEY"
             approval == [approving[c] EXCEPT !.pc = "chosen", !.unit = unit]
  <2>1. unit \in {"MONEY", "PRINT_BW"}
    OBVIOUS
  <2>2. approving' = [approving EXCEPT ![c] = approval]
    BY <1>1, <1>4 DEF ChooseUnit, RestTypeOK
  <2> HIDE DEF unit
  <2>3. SoundApproval(approval)
    BY <1>1, <1>4, <2>1 DEF ChooseUnit, Approving, SoundApproval
  <2> HIDE DEF approval
  <2> QED
    BY <1>1, <1>4, <2>2, <2>3, OneApproval DEF ChooseUnit, RestTypeOK
<1>5. CASE ReadBalance(c)
  <2> DEFINE read == Balance(OwnerOf[approving[c].job], approving[c].unit)
             approval == [approving[c] EXCEPT !.pc = "taking", !.balance = read]
  <2>1. read \in Int
    <3>1. approving[c].unit \in Units
      BY <1>1 DEF Approving, Units
    <3>2. OwnerOf[approving[c].job] \in Payers
      BY <1>1, <1>5, ChargesAssumption DEF ReadBalance, SoundApproval
    <3> QED
      BY <3>1, <3>2 DEF ChargesTypeOK, Balance, Accounts
  <2>2. approving' = [approving EXCEPT ![c] = approval]
    BY <1>1, <1>5 DEF ReadBalance, RestTypeOK
  <2> HIDE DEF read
  <2>3. SoundApproval(approval)
    BY <1>1, <1>5, <2>1 DEF ReadBalance, Approving, SoundApproval
  <2> HIDE DEF approval
  <2> QED
    BY <1>1, <1>5, <2>2, <2>3, OneApproval DEF ReadBalance, RestTypeOK
<1>6. CASE CommitApproval(c)
  <2>1. approving[c].job \in Jobs
    BY <1>1, <1>6 DEF CommitApproval, SoundApproval
  <2>2. jobs' \in [Jobs -> JobStatus]
    BY <1>1, <1>6, <2>1 DEF CommitApproval, RestTypeOK, JobStatus
  <2> QED
    BY <1>1, <1>2, <1>6, <2>2, OneApproval DEF CommitApproval, RestTypeOK
<1>7. CASE CannotApprove(c)
  BY <1>1, <1>2, <1>7, OneApproval DEF CannotApprove, RestTypeOK
<1> QED
  BY <1>3, <1>4, <1>5, <1>6, <1>7 DEF Approval

LEMMA TypesStep ==
  ASSUME ChargesTypeOK, [ChargesNext]_chargeVars
  PROVE  ChargesTypeOK'
<1>1. books' \in [Payers -> [Units -> Accounts(Subs \cup Jobs \cup {"load"})]]
  BY BooksStep DEF Refs
<1>2. RestTypeOK
  BY TypesSplit
<1>3. ASSUME NEW s \in Subs, Create(s) \/ CreateExternal(s) \/ Cancel(s)
      PROVE  RestTypeOK'
  <2>1. subs[s] \in Sub /\ day \in Nat
    BY <1>2 DEF RestTypeOK
  <2>2. NewSub(TRUE) \in Sub /\ NewSub(FALSE) \in Sub
    BY <2>1 DEF NewSub, Sub
  <2>3. Cancelled(subs[s]) \in Sub
    BY <2>1 DEF Cancelled, Sub
  <2>4. \E row \in Sub : subs' = [subs EXCEPT ![s] = row]
    BY <1>2, <1>3, <2>2, <2>3 DEF Create, CreateExternal, Cancel, RestTypeOK
  <2>5. subs' \in [Subs -> Sub]
    BY <1>2, <2>4 DEF RestTypeOK
  <2> QED
    BY <1>2, <1>3, <2>5 DEF Create, CreateExternal, Cancel, RestTypeOK
<1>4. ASSUME NEW j \in Jobs, CreateJob(j) \/ CancelJob(j)
      PROVE  RestTypeOK'
  BY <1>2, <1>4 DEF CreateJob, CancelJob, RestTypeOK, JobStatus
<1>5. ASSUME NEW k \in Payers, NEW u \in {"MONEY", "PRINT_BW"}, StartLoad(k, u)
      PROVE  RestTypeOK'
  <2> DEFINE load == [payer |-> k, unit |-> u, balance |-> Balance(k, u), number |-> loads]
  <2>1. Balance(k, u) \in Int
    BY DEF ChargesTypeOK, Balance, Accounts, Units
  <2>2. load \in Loading
    BY <1>2, <2>1 DEF Loading, RestTypeOK
  <2>3. loading' = loading \cup {load} /\ loads' = loads + 1
    BY <1>5 DEF StartLoad
  <2> HIDE DEF load
  <2> QED
    BY <1>2, <1>5, <2>2, <2>3 DEF StartLoad, RestTypeOK
<1>6. ASSUME NEW l \in loading, Load(l)
      PROVE  RestTypeOK'
  <2>1. loading' \subseteq Loading
    BY <1>2, <1>6 DEF Load, RestTypeOK
  <2> QED
    BY <1>2, <1>6, <2>1 DEF Load, RestTypeOK
<1>7. ASSUME NextDay \/ UNCHANGED chargeVars
      PROVE  RestTypeOK'
  BY <1>2, <1>7 DEF NextDay, chargeVars, RestTypeOK
<1>8. RestTypeOK'
  BY <1>3, <1>4, <1>5, <1>6, <1>7, SweepTypes, ApprovalTypes DEF ChargesNext
<1> QED
  BY <1>1, <1>8 DEF RestTypeOK, ChargesTypeOK, SoundSweep, SoundApproval

(* Sweeps, approvals, loads and cancellations, any number at once, keep    *)
(* the rows well-typed.                                                    *)
THEOREM ChargesTyped == ChargesSpec => []ChargesTypeOK
BY TypesInit, TypesStep, PTL DEF ChargesSpec

(* Why: what is read is never negative, so what a load writes is not       *)
(* either, and every other posting is covered by what it read.             *)
BooksInv == BooksSound /\ \A l \in loading : l.balance >= 0

LEMMA BooksInit == ChargesInit => BooksInv
<1>1. SoundAccount(EmptyAccount)
  BY DEF EmptyAccount, SoundAccount, NonNegative, CachedIsLastSnapshot, BalanceAfterRow
<1> QED
  BY <1>1 DEF ChargesInit, BooksInv, BooksSound, SoundAccount

LEMMA BooksKept ==
  ASSUME ChargesTypeOK, BooksInv, [ChargesNext]_chargeVars
  PROVE  BooksInv'
<1>1. \A k \in Payers, u \in Units : books[k][u] \in Accounts(Refs) /\ SoundAccount(books[k][u])
  BY DEF ChargesTypeOK, Refs, BooksInv, BooksSound, SoundAccount
<1>2. ASSUME NEW k \in Payers, NEW u \in Units, NEW amount \in Int, NEW ref \in Refs,
             Posts(k, u, amount, ref)
      PROVE  BooksSound'
  <2> PICK read \in Int :
        /\ Post(k, u, read, amount, ref)
        /\ read + amount >= 0 \/ (amount >= 0 /\ \E l \in loading : l.balance = read)
    BY <1>2 DEF Posts
  <2>1. read + amount >= 0
    BY DEF BooksInv
  <2>2. SoundAccount(Posted(books[k][u], read, amount, ref))
    BY <1>1, <2>1, PostedSound
  <2>3. ASSUME NEW l \in Payers, NEW v \in Units
        PROVE  SoundAccount(books'[l][v])
    <3>1. CASE l = k /\ v = u
      BY <2>2, <3>1, OneAccountChanges
    <3>2. CASE l # k \/ v # u
      BY <1>1, <3>2, OneAccountChanges
    <3> QED
      BY <3>1, <3>2
  <2> QED
    BY <2>3 DEF BooksSound, SoundAccount
<1>3. BooksSound'
  <2>1. CASE books' = books
    BY <2>1 DEF BooksInv, BooksSound
  <2> QED
    BY <1>2, <2>1, BooksChange
<1>4. ASSUME NEW l \in loading' PROVE l.balance >= 0
  <2>1. CASE l \in loading
    BY <2>1 DEF BooksInv
  <2>2. ASSUME NEW k \in Payers, NEW u \in {"MONEY", "PRINT_BW"}, StartLoad(k, u), l \notin loading
        PROVE  l.balance >= 0
    <3>1. l.balance = books[k][u].cached /\ u \in Units
      BY <2>2 DEF StartLoad, Balance, Units
    <3> QED
      BY <1>1, <3>1 DEF SoundAccount, NonNegative
  <2>3. \/ loading' \subseteq loading
        \/ \E k \in Payers, u \in {"MONEY", "PRINT_BW"} : StartLoad(k, u)
    BY DEF ChargesNext, chargeVars, Sweep, StartSweep, StartCharge, Charge, ChargeFails,
       MarkPastDue, SweepDies, Create, CreateExternal, Cancel, Approval, Approve, ChooseUnit,
       ReadBalance, CommitApproval, CannotApprove, CreateJob, CancelJob, Load, NextDay
  <2> QED
    BY <2>1, <2>2, <2>3
<1> QED
  BY <1>3, <1>4 DEF BooksInv

(* However sweeps, approvals and loads interleave, fail and die, and       *)
(* whichever of their changes are lost by it (applyWithin reads without a  *)
(* lock), no account is shown below zero, and its cached column is the     *)
(* snapshot of its newest row.                                             *)
THEOREM BooksStaySound == ChargesSpec => []BooksSound
<1>1. BooksInv => BooksSound
  BY DEF BooksInv
<1>2. ChargesTypeOK /\ BooksInv /\ [ChargesNext]_chargeVars => BooksInv'
  BY BooksKept
<1> QED
  BY <1>1, <1>2, BooksInit, ChargesTyped, PTL DEF ChargesSpec

-------------------------------------------------------------------------------
(* How often a subscription has been charged.                              *)
RowsOf(acct, ref) == {i \in 1 .. Len(acct.rows) : acct.rows[i].ref = ref}

LEMMA OneMoreRow ==
  ASSUME NEW acct \in Accounts(Refs), NEW read \in Int, NEW amount \in Int, NEW ref \in Refs,
         NEW r
  PROVE  LET new == Posted(acct, read, amount, ref)
         IN  Cardinality(RowsOf(new, r)) = Cardinality(RowsOf(acct, r)) + IF r = ref THEN 1 ELSE 0
<1> DEFINE new == Posted(acct, read, amount, ref)
           n == Len(acct.rows)
<1>1. n \in Nat
  BY DEF Accounts
<1> HIDE DEF new, n
<1>2. /\ Len(new.rows) = n + 1 /\ new.rows[n + 1].ref = ref
      /\ \A i \in 1 .. n : new.rows[i] = acct.rows[i]
  <2>1. /\ Len(new.rows) = n + 1 /\ new.rows[n + 1] = NewRow(read, amount, ref)
        /\ \A i \in 1 .. n : new.rows[i] = acct.rows[i]
    BY PostedAccount DEF new, n
  <2> QED
    BY <2>1 DEF NewRow
<1>3. \A i \in 1 .. n + 1 : i = n + 1 \/ i \in 1 .. n
  BY <1>1
<1>4. IsFiniteSet(RowsOf(acct, r)) /\ Cardinality(RowsOf(acct, r)) \in Nat
  <2>1. IsFiniteSet(1 .. n)
    BY <1>1, FS_Interval
  <2> QED
    BY <2>1, FS_Subset, FS_CardinalityType DEF RowsOf, n
<1>5. n + 1 \notin RowsOf(acct, r)
  BY <1>1 DEF RowsOf, n
<1>6. CASE r = ref
  <2>1. RowsOf(new, r) = RowsOf(acct, r) \cup {n + 1}
    BY <1>1, <1>2, <1>3, <1>6 DEF RowsOf, n
  <2> QED
    BY <1>4, <1>5, <1>6, <2>1, FS_AddElement DEF new
<1>7. CASE r # ref
  <2>1. RowsOf(new, r) = RowsOf(acct, r)
    BY <1>1, <1>2, <1>3, <1>7 DEF RowsOf, n
  <2> QED
    BY <1>4, <1>7, <2>1 DEF new
<1> QED
  BY <1>6, <1>7

LEMMA TimesType ==
  ASSUME ChargesTypeOK, NEW s \in Subs
  PROVE  TimesCharged(s) \in Nat
<1>1. Len(books[PayerOf[s]]["MONEY"].rows) \in Nat
  BY ChargesAssumption DEF ChargesTypeOK, Accounts, Units
<1>2. IsFiniteSet(1 .. Len(books[PayerOf[s]]["MONEY"].rows))
  BY <1>1, FS_Interval
<1> DEFINE rows == RowsFor(PayerOf[s], "MONEY", s)
<1>3. rows \in SUBSET (1 .. Len(books[PayerOf[s]]["MONEY"].rows))
  BY DEF RowsFor
<1> HIDE DEF rows
<1>4. IsFiniteSet(rows)
  BY <1>2, <1>3, FS_Subset
<1> QED
  BY <1>4, FS_CardinalityType DEF TimesCharged, rows

LEMMA TimesAfterPost ==
  ASSUME ChargesTypeOK, NEW k \in Payers, NEW u \in Units, NEW amount \in Int, NEW ref \in Refs,
         Posts(k, u, amount, ref), NEW s \in Subs
  PROVE  /\ k = PayerOf[s] /\ u = "MONEY" /\ ref = s => TimesCharged(s)' = TimesCharged(s) + 1
         /\ ref # s => TimesCharged(s)' = TimesCharged(s)
<1> PICK read \in Int : Post(k, u, read, amount, ref)
  BY DEF Posts
<1> DEFINE p == PayerOf[s]
<1>1. p \in Payers /\ "MONEY" \in Units
  BY ChargesAssumption DEF Units
<1>2. /\ TimesCharged(s) = Cardinality(RowsOf(books[p]["MONEY"], s))
      /\ TimesCharged(s)' = Cardinality(RowsOf(books'[p]["MONEY"], s))
  BY DEF TimesCharged, RowsFor, RowsOf
<1>3. TimesCharged(s) \in Nat
  BY TimesType
<1> HIDE DEF p
<1>4. CASE k = p /\ u = "MONEY"
  <2> DEFINE acct == books[p]["MONEY"]
  <2>1. acct \in Accounts(Refs)
    BY <1>1 DEF ChargesTypeOK, Refs
  <2>2. books'[p]["MONEY"] = Posted(acct, read, amount, ref)
    BY <1>4, OneAccountChanges
  <2> HIDE DEF acct
  <2>3. Cardinality(RowsOf(books'[p]["MONEY"], s)) =
          Cardinality(RowsOf(acct, s)) + IF s = ref THEN 1 ELSE 0
    BY <2>1, <2>2, OneMoreRow
  <2> QED
    BY <1>2, <1>3, <1>4, <2>3 DEF acct, p
<1>5. CASE ~ (k = p /\ u = "MONEY")
  <2>1. books'[p]["MONEY"] = books[p]["MONEY"]
    BY <1>1, <1>5, OneAccountChanges
  <2> QED
    BY <1>2, <1>5, <2>1 DEF p
<1> QED
  BY <1>4, <1>5

LEMMA TimesAfterOthers ==
  ASSUME ChargesTypeOK, [ChargesNext]_chargeVars, ~ ChargesSome, NEW s \in Subs
  PROVE  TimesCharged(s)' = TimesCharged(s)
<1>1. CASE books' = books
  BY <1>1 DEF TimesCharged, RowsFor
<1>2. CASE \E k \in Payers, u \in Units, amount \in Int, ref \in OtherRefs :
             Posts(k, u, amount, ref)
  <2> PICK k \in Payers, u \in Units, amount \in Int, ref \in OtherRefs : Posts(k, u, amount, ref)
    BY <1>2
  <2>1. ref \in Refs /\ ref # s
    BY ChargesAssumption DEF OtherRefs, Refs
  <2> QED
    BY <2>1, TimesAfterPost
<1> QED
  BY <1>1, <1>2, OtherPosts

-------------------------------------------------------------------------------
(* What a step does to a subscription and how often it has been charged.   *)
SameTimes(s) == TimesCharged(s)' = TimesCharged(s)

SubStep(s) ==
  \/ subs'[s] = subs[s] /\ SameTimes(s)
  \/ \E external \in BOOLEAN :
       subs[s].status = "NONE" /\ subs'[s] = NewSub(external) /\ SameTimes(s)
  \/ subs[s].status # "NONE" /\ subs'[s] = Cancelled(subs[s]) /\ SameTimes(s)
  \/ \E w \in Sweepers : \E row \in sweeps[w].due :
       /\ row.id = s
       /\ subs'[s] = [subs[s] EXCEPT !.currentPeriodEnd = Advanced(row)]
       /\ TimesCharged(s)' = TimesCharged(s) + 1
  \/ \E w \in Sweepers : \E row \in sweeps[w].due :
       row.id = s /\ subs'[s] = [subs[s] EXCEPT !.status = "PAST_DUE"] /\ SameTimes(s)

LEMMA SubSteps ==
  ASSUME ChargesTypeOK, [ChargesNext]_chargeVars, NEW s \in Subs
  PROVE  SubStep(s) /\ day' \in Nat /\ day' >= day
<1>1. subs \in [Subs -> Sub] /\ day \in Nat
  BY DEF ChargesTypeOK
<1>2. day' \in Nat /\ day' >= day
  <2>1. NextDay \/ day' = day
    BY DEF ChargesNext, chargeVars, Sweep, StartSweep, StartCharge, Charge, ChargeFails,
       MarkPastDue, SweepDies, Create, CreateExternal, Cancel, Approval, CommitApproval,
       CannotApprove, Approve, ChooseUnit, ReadBalance, CreateJob, CancelJob, StartLoad, Load
  <2> QED
    BY <1>1, <2>1 DEF NextDay
<1>3. CASE ChargesSome
  <2> PICK w \in Sweepers : \E t \in sweeps[w].reading : Charge(w, t)
    BY <1>3 DEF ChargesSome
  <2> PICK t \in sweeps[w].reading : Charge(w, t)
    OBVIOUS
  <2> DEFINE row == t.row
  <2>1. /\ row \in sweeps[w].due
        /\ row.id \in Subs /\ PayerOf[row.id] \in Payers /\ - PriceOf[row.id] \in Int
        /\ "MONEY" \in Units /\ row.id \in Refs
        /\ Posts(PayerOf[row.id], "MONEY", - PriceOf[row.id], row.id)
    BY ChargePosts DEF Units, Refs
  <2>2. subs' = [subs EXCEPT ![row.id] = [subs[row.id] EXCEPT !.currentPeriodEnd = Advanced(row)]]
    BY <1>1, <2>1 DEF Charge
  <2> HIDE DEF row
  <2>3. CASE row.id = s
    BY <1>1, <1>2, <2>1, <2>2, <2>3, TimesAfterPost DEF SubStep
  <2>4. CASE row.id # s
    BY <1>1, <1>2, <2>1, <2>2, <2>4, TimesAfterPost DEF SubStep, SameTimes
  <2> QED
    BY <2>3, <2>4
<1>4. CASE ~ ChargesSome
  <2>1. SameTimes(s)
    BY <1>4, TimesAfterOthers DEF SameTimes
  <2>2. CASE \E t \in Subs : Create(t) \/ CreateExternal(t) \/ Cancel(t)
    BY <1>1, <1>2, <2>1, <2>2 DEF Create, CreateExternal, Cancel, SubStep
  <2>3. CASE \E w \in Sweepers : \E row \in sweeps[w].failed : MarkPastDue(w, row)
    <3> PICK w \in Sweepers : \E row \in sweeps[w].failed : MarkPastDue(w, row)
      BY <2>3
    <3> PICK row \in sweeps[w].failed : MarkPastDue(w, row)
      OBVIOUS
    <3>1. row \in sweeps[w].due /\ row.id \in Subs
      BY DEF ChargesTypeOK, Sweeping, DueRow
    <3>2. subs' = [subs EXCEPT ![row.id] = [subs[row.id] EXCEPT !.status = "PAST_DUE"]]
      BY <1>1, <3>1 DEF MarkPastDue
    <3> QED
      BY <1>1, <1>2, <2>1, <3>1, <3>2 DEF SubStep
  <2>4. CASE subs' = subs
    BY <1>2, <2>1, <2>4 DEF SubStep
  <2>5. \/ \E t \in Subs : Create(t) \/ CreateExternal(t) \/ Cancel(t)
        \/ \E w \in Sweepers : \E row \in sweeps[w].failed : MarkPastDue(w, row)
        \/ subs' = subs
    BY <1>4 DEF ChargesSome, ChargesNext, chargeVars, Sweep, StartSweep, StartCharge, ChargeFails,
       SweepDies, Approval, CommitApproval, CannotApprove, Approve, ChooseUnit, ReadBalance,
       CreateJob, CancelJob, StartLoad, Load, NextDay
  <2> QED
    BY <2>2, <2>3, <2>4, <2>5
<1> QED
  BY <1>3, <1>4

(* A sweep's rows only become fewer, or they are what it has just read.    *)
DueStep(w) ==
  \/ sweeps'[w].due \subseteq sweeps[w].due
  \/ /\ subs' = subs /\ day' = day /\ \A s \in Subs : SameTimes(s)
     /\ \A row \in sweeps'[w].due :
          row.id \in Subs /\ Due(row.id) /\ row.end = subs[row.id].currentPeriodEnd

LEMMA DueSteps ==
  ASSUME ChargesTypeOK, [ChargesNext]_chargeVars, NEW v \in Sweepers
  PROVE  DueStep(v)
<1>1. sweeps \in [Sweepers -> Sweeping]
  BY DEF ChargesTypeOK
<1>2. ASSUME NEW w \in Sweepers, StartSweep(w)
      PROVE  DueStep(v)
  <2> DEFINE due == {[id |-> s, end |-> subs[s].currentPeriodEnd] : s \in {t \in Subs : Due(t)}}
  <2>1. \A row \in due : row.id \in Subs /\ Due(row.id) /\ row.end = subs[row.id].currentPeriodEnd
    OBVIOUS
  <2>2. sweeps' = [sweeps EXCEPT ![w] =
                     [running |-> TRUE, reading |-> {}, failed |-> {}, due |-> due]]
        /\ subs' = subs /\ day' = day /\ books' = books
    BY <1>2 DEF StartSweep
  <2> HIDE DEF due
  <2>3. \A s \in Subs : SameTimes(s)
    BY <2>2 DEF SameTimes, TimesCharged, RowsFor
  <2> QED
    BY <1>1, <2>1, <2>2, <2>3 DEF DueStep
<1>3. ASSUME NEW w \in Sweepers,
             \/ \E row \in sweeps[w].due : StartCharge(w, row)
             \/ \E t \in sweeps[w].reading : Charge(w, t) \/ ChargeFails(w, t)
             \/ \E row \in sweeps[w].failed : MarkPastDue(w, row)
      PROVE  DueStep(v)
  <2>1. \A row : Rest(w, row).due \subseteq sweeps[w].due
    BY RestType
  <2>2. \A x, y : /\ [sweeps[w] EXCEPT !.reading = x].due = sweeps[w].due
                  /\ [sweeps[w] EXCEPT !.reading = x, !.failed = y].due = sweeps[w].due
    BY <1>1 DEF Sweeping
  <2>3. \E to : to.due \subseteq sweeps[w].due /\ sweeps' = [sweeps EXCEPT ![w] = to]
    <3>1. ASSUME NEW t \in sweeps[w].reading, Charge(w, t)
          PROVE  \E to : to.due \subseteq sweeps[w].due /\ sweeps' = [sweeps EXCEPT ![w] = to]
      BY <2>1, <3>1 DEF Charge
    <3>2. ASSUME NEW t \in sweeps[w].reading, ChargeFails(w, t)
          PROVE  \E to : to.due \subseteq sweeps[w].due /\ sweeps' = [sweeps EXCEPT ![w] = to]
      <4>1. sweeps' = [sweeps EXCEPT ![w] = [sweeps[w] EXCEPT !.reading = {}, !.failed = {t.row}]]
        BY <1>1, <3>2 DEF ChargeFails
      <4> QED
        BY <2>2, <4>1
    <3>3. ASSUME NEW row \in sweeps[w].failed, MarkPastDue(w, row)
          PROVE  \E to : to.due \subseteq sweeps[w].due /\ sweeps' = [sweeps EXCEPT ![w] = to]
      BY <2>1, <3>3 DEF MarkPastDue
    <3>4. ASSUME NEW row \in sweeps[w].due, StartCharge(w, row)
          PROVE  \E to : to.due \subseteq sweeps[w].due /\ sweeps' = [sweeps EXCEPT ![w] = to]
      <4>1. \E x : sweeps' = [sweeps EXCEPT ![w] = [sweeps[w] EXCEPT !.reading = x]]
        BY <1>1, <3>4 DEF StartCharge
      <4> QED
        BY <2>2, <4>1
    <3> QED
      BY <1>3, <3>1, <3>2, <3>3, <3>4
  <2> QED
    BY <1>1, <2>3 DEF DueStep
<1>4. ASSUME NEW w \in Sweepers, SweepDies(w)
      PROVE  DueStep(v)
  BY <1>1, <1>4 DEF SweepDies, Idle, DueStep
<1>5. CASE sweeps' = sweeps
  BY <1>5 DEF DueStep
<1> QED
  BY <1>2, <1>3, <1>4, <1>5 DEF ChargesNext, chargeVars, Sweep, Create, CreateExternal, Cancel,
     Approval, CommitApproval, CannotApprove, Approve, ChooseUnit, ReadBalance, CreateJob,
     CancelJob, StartLoad, Load, NextDay

-------------------------------------------------------------------------------
(* Why a charge that comes after the cancellation is still for a period    *)
(* that began before it: what a sweep has read was due on a day no later   *)
(* than the cancellation.                                                  *)
SubHistory(s) ==
  /\ subs[s].status = "NONE" => TimesCharged(s) = 0
  /\ subs[s].externalRef => ~ subs[s].autoRenew /\ TimesCharged(s) = 0
  /\ TimesCharged(s) > 0 => subs[s].currentPeriodEnd <= day + 1
  /\ ~ subs[s].autoRenew /\ TimesCharged(s) > 0
       => subs[s].currentPeriodEnd <= subs[s].cancelledAt + 1

DueHistory(row) ==
  /\ subs[row.id].status # "NONE" /\ ~ subs[row.id].externalRef
  /\ row.end <= day
  /\ ~ subs[row.id].autoRenew => row.end <= subs[row.id].cancelledAt

RenewalInv ==
  /\ \A s \in Subs : SubHistory(s)
  /\ \A w \in Sweepers : \A row \in sweeps[w].due : DueHistory(row)

LEMMA RenewalInit == ChargesInit => RenewalInv
<1> SUFFICES ASSUME ChargesInit PROVE RenewalInv
  OBVIOUS
<1>1. \A s \in Subs : TimesCharged(s) = 0
  <2> TAKE s \in Subs
  <2>1. books[PayerOf[s]]["MONEY"].rows = << >>
    BY ChargesAssumption DEF ChargesInit, EmptyAccount, Units
  <2>2. RowsFor(PayerOf[s], "MONEY", s) = {}
    BY <2>1 DEF RowsFor
  <2> QED
    BY <2>2, FS_EmptySet DEF TimesCharged
<1> QED
  BY <1>1 DEF ChargesInit, RenewalInv, SubHistory, NoSub, Idle

LEMMA RenewalStep ==
  ASSUME ChargesTypeOK, ChargesTypeOK', RenewalInv, [ChargesNext]_chargeVars
  PROVE  RenewalInv'
<1>1. ASSUME NEW s \in Subs
      PROVE  /\ subs[s] \in Sub /\ day \in Nat /\ day' \in Nat /\ day' >= day
             /\ SubStep(s) /\ SubHistory(s) /\ TimesCharged(s) \in Nat
  BY <1>1, SubSteps, TimesType DEF ChargesTypeOK, RenewalInv
<1>2. ASSUME NEW w \in Sweepers, NEW row \in sweeps[w].due
      PROVE  row.id \in Subs /\ row.end \in Nat /\ DueHistory(row)
  BY <1>2 DEF ChargesTypeOK, Sweeping, DueRow, RenewalInv
<1>3. ASSUME NEW s \in Subs
      PROVE  SubHistory(s)'
  <2>1. CASE subs'[s] = subs[s] /\ SameTimes(s)
    BY <1>1, <2>1 DEF SubHistory, SameTimes, Sub
  <2>2. CASE \E external \in BOOLEAN :
               subs[s].status = "NONE" /\ subs'[s] = NewSub(external) /\ SameTimes(s)
    BY <1>1, <2>2 DEF SubHistory, SameTimes, NewSub, Sub
  <2>3. CASE subs[s].status # "NONE" /\ subs'[s] = Cancelled(subs[s]) /\ SameTimes(s)
    BY <1>1, <2>3 DEF SubHistory, SameTimes, Cancelled, Sub
  <2>4. ASSUME NEW w \in Sweepers, NEW row \in sweeps[w].due, row.id = s,
               subs'[s] = [subs[s] EXCEPT !.currentPeriodEnd = Advanced(row)],
               TimesCharged(s)' = TimesCharged(s) + 1
        PROVE  SubHistory(s)'
    BY <1>1, <1>2, <2>4 DEF SubHistory, DueHistory, Advanced, Sub
  <2>5. CASE subs'[s] = [subs[s] EXCEPT !.status = "PAST_DUE"] /\ SameTimes(s)
    BY <1>1, <2>5 DEF SubHistory, SameTimes, Sub
  <2> QED
    BY <1>1, <2>1, <2>2, <2>3, <2>4, <2>5 DEF SubStep
<1>4. ASSUME NEW w \in Sweepers, NEW row \in sweeps'[w].due
      PROVE  DueHistory(row)'
  <2>1. CASE row \in sweeps[w].due
    <3> DEFINE s == row.id
    <3>1. s \in Subs /\ row.end \in Nat /\ DueHistory(row)
      BY <1>2, <2>1
    <3>2. /\ subs[s] \in Sub /\ day \in Nat /\ day' \in Nat /\ day' >= day /\ SubStep(s)
      BY <1>1, <3>1
    <3>3. \/ subs'[s] = subs[s]
          \/ subs'[s] = Cancelled(subs[s])
          \/ \E e : subs'[s] = [subs[s] EXCEPT !.currentPeriodEnd = e]
          \/ subs'[s] = [subs[s] EXCEPT !.status = "PAST_DUE"]
      BY <3>1, <3>2 DEF SubStep, DueHistory
    <3> HIDE DEF s
    <3>4. subs'[s].status # "NONE" /\ subs'[s].externalRef = subs[s].externalRef
      BY <3>1, <3>2, <3>3 DEF DueHistory, Cancelled, Sub, s
    <3>5. \/ subs'[s].autoRenew = subs[s].autoRenew
             /\ subs'[s].cancelledAt = subs[s].cancelledAt
          \/ subs'[s].cancelledAt = day
      BY <3>2, <3>3 DEF Cancelled, Sub
    <3>6. row.end <= day' /\ row.end <= day
      BY <3>1, <3>2 DEF DueHistory
    <3>7. ~ subs'[s].autoRenew => row.end <= subs'[s].cancelledAt
      BY <3>1, <3>5, <3>6 DEF DueHistory, s
    <3> QED
      BY <3>1, <3>4, <3>6, <3>7 DEF DueHistory, s
  <2>2. CASE row \notin sweeps[w].due
    <3>1. /\ subs' = subs /\ day' = day
          /\ row.id \in Subs /\ Due(row.id) /\ row.end = subs[row.id].currentPeriodEnd
      BY <2>2, DueSteps DEF DueStep
    <3>2. subs[row.id] \in Sub /\ SubHistory(row.id)
      BY <1>1, <3>1
    <3> QED
      BY <3>1, <3>2 DEF Due, DueHistory, SubHistory, Sub
  <2> QED
    BY <2>1, <2>2
<1> QED
  BY <1>3, <1>4 DEF RenewalInv

(* However many sweeps overlap, fail and die, and whenever the customer    *)
(* cancels: what the provider bills is not charged here, and a cancelled   *)
(* subscription is charged for no period that begins after its last        *)
(* cancellation.                                                           *)
THEOREM CancelledIsNotCharged == ChargesSpec => []ChargedOnlyWhileRenewing
<1>1. RenewalInv => ChargedOnlyWhileRenewing
  BY DEF RenewalInv, SubHistory, ChargedOnlyWhileRenewing
<1>2. ChargesInit => RenewalInv
  BY RenewalInit
<1>3. ChargesTypeOK /\ ChargesTypeOK' /\ RenewalInv /\ [ChargesNext]_chargeVars => RenewalInv'
  BY RenewalStep
<1> QED
  BY <1>1, <1>2, <1>3, ChargesTyped, PTL DEF ChargesSpec

-------------------------------------------------------------------------------
(* No row waits in two sweeps at a time, as when JobsService's next sweep  *)
(* starts after the last has ended.  Then what a sweep has read is still   *)
(* the row's when it charges, so each charge moves the end by one period.  *)
SweepsApart ==
  \A v, w \in Sweepers : v # w =>
    \A row \in sweeps[v].due, other \in sweeps[w].due : row.id # other.id

PeriodInv ==
  /\ \A s \in Subs : TimesCharged(s) = subs[s].currentPeriodEnd - subs[s].firstEnd
  /\ \A w \in Sweepers : \A row \in sweeps[w].due : row.end = subs[row.id].currentPeriodEnd

LEMMA PeriodInit == ChargesInit => PeriodInv
<1> SUFFICES ASSUME ChargesInit PROVE PeriodInv
  OBVIOUS
<1>1. \A s \in Subs : TimesCharged(s) = 0
  <2> TAKE s \in Subs
  <2>1. books[PayerOf[s]]["MONEY"].rows = << >>
    BY ChargesAssumption DEF ChargesInit, EmptyAccount, Units
  <2>2. RowsFor(PayerOf[s], "MONEY", s) = {}
    BY <2>1 DEF RowsFor
  <2> QED
    BY <2>2, FS_EmptySet DEF TimesCharged
<1> QED
  BY <1>1 DEF ChargesInit, PeriodInv, NoSub, Idle

(* What the sweep has charged is no longer among its rows.                 *)
LEMMA ChargedIsDone ==
  ASSUME ChargesTypeOK, NEW w \in Sweepers, NEW t \in sweeps[w].reading, Charge(w, t)
  PROVE  t.row \notin sweeps'[w].due
<1>1. sweeps \in [Sweepers -> Sweeping]
  BY DEF ChargesTypeOK
<1>2. sweeps'[w] = Rest(w, t.row)
  BY <1>1 DEF Charge
<1> QED
  BY <1>2, RestType

LEMMA PeriodStep ==
  ASSUME SweepsApart, ChargesTypeOK, ChargesTypeOK', RenewalInv, PeriodInv,
         [ChargesNext]_chargeVars
  PROVE  PeriodInv'
<1>1. ASSUME NEW s \in Subs
      PROVE  /\ subs[s] \in Sub /\ SubStep(s) /\ SubHistory(s) /\ TimesCharged(s) \in Nat
             /\ TimesCharged(s) = subs[s].currentPeriodEnd - subs[s].firstEnd
  BY <1>1, SubSteps, TimesType DEF ChargesTypeOK, RenewalInv, PeriodInv
<1>2. ASSUME NEW w \in Sweepers, NEW row \in sweeps[w].due
      PROVE  /\ row \in DueRow /\ row.id \in Subs /\ row.end \in Nat /\ DueHistory(row)
             /\ row.end = subs[row.id].currentPeriodEnd
  BY <1>2 DEF ChargesTypeOK, Sweeping, DueRow, RenewalInv, PeriodInv
<1>3. ASSUME NEW s \in Subs
      PROVE  TimesCharged(s)' = subs'[s].currentPeriodEnd - subs'[s].firstEnd
  <2>1. CASE subs'[s] = subs[s] /\ SameTimes(s)
    BY <1>1, <2>1 DEF SameTimes
  <2>2. CASE \E external \in BOOLEAN :
               subs[s].status = "NONE" /\ subs'[s] = NewSub(external) /\ SameTimes(s)
    <3>1. day \in Nat /\ TimesCharged(s)' = 0
      BY <1>1, <2>2 DEF SameTimes, SubHistory, ChargesTypeOK
    <3> QED
      BY <2>2, <3>1 DEF NewSub
  <2>3. CASE subs'[s] = Cancelled(subs[s]) /\ SameTimes(s)
    BY <1>1, <2>3 DEF SameTimes, Cancelled, Sub
  <2>4. ASSUME NEW w \in Sweepers, NEW row \in sweeps[w].due, row.id = s,
               subs'[s] = [subs[s] EXCEPT !.currentPeriodEnd = Advanced(row)],
               TimesCharged(s)' = TimesCharged(s) + 1
        PROVE  TimesCharged(s)' = subs'[s].currentPeriodEnd - subs'[s].firstEnd
    BY <1>1, <1>2, <2>4 DEF Advanced, Sub
  <2>5. CASE subs'[s] = [subs[s] EXCEPT !.status = "PAST_DUE"] /\ SameTimes(s)
    BY <1>1, <2>5 DEF SameTimes, Sub
  <2> QED
    BY <1>1, <2>1, <2>2, <2>3, <2>4, <2>5 DEF SubStep
<1>4. ASSUME NEW w \in Sweepers, NEW row \in sweeps'[w].due
      PROVE  row.end = subs'[row.id].currentPeriodEnd
  <2>1. CASE row \notin sweeps[w].due
    BY <2>1, DueSteps DEF DueStep
  <2>2. CASE row \in sweeps[w].due /\ ChargesSome
    <3> PICK v \in Sweepers : \E t \in sweeps[v].reading : Charge(v, t)
      BY <2>2 DEF ChargesSome
    <3> PICK t \in sweeps[v].reading : Charge(v, t)
      OBVIOUS
    <3> DEFINE other == t.row
    <3>0. other \in sweeps[v].due
      BY ChargePosts
    <3>1. v = w => row # other
      BY ChargedIsDone
    <3>2. v # w => row.id # other.id
      BY <2>2, <3>0 DEF SweepsApart
    <3>3. /\ row \in DueRow /\ row.end = subs[row.id].currentPeriodEnd
          /\ other \in DueRow /\ other.end = subs[other.id].currentPeriodEnd
      BY <1>2, <2>2, <3>0
    <3>4. row.id # other.id
      BY <3>1, <3>2, <3>3 DEF DueRow
    <3>5. subs'[row.id] = subs[row.id]
      BY <3>3, <3>4 DEF Charge, ChargesTypeOK, DueRow
    <3> QED
      BY <3>3, <3>5
  <2>3. CASE row \in sweeps[w].due /\ ~ ChargesSome
    <3> DEFINE s == row.id
    <3>1. /\ s \in Subs /\ subs[s] \in Sub /\ SubStep(s) /\ subs[s].status # "NONE"
          /\ row.end = subs[s].currentPeriodEnd /\ TimesCharged(s) \in Nat
      BY <1>1, <1>2, <2>3 DEF DueHistory
    <3>2. SameTimes(s)
      BY <2>3, <3>1, TimesAfterOthers DEF SameTimes
    <3> HIDE DEF s
    <3>3. TimesCharged(s)' # TimesCharged(s) + 1
      BY <3>1, <3>2 DEF SameTimes
    <3>4. \/ subs'[s] = subs[s] \/ subs'[s] = Cancelled(subs[s])
          \/ subs'[s] = [subs[s] EXCEPT !.status = "PAST_DUE"]
      BY <3>1, <3>3 DEF SubStep
    <3>5. subs'[s].currentPeriodEnd = subs[s].currentPeriodEnd
      BY <3>1, <3>4 DEF Cancelled, Sub
    <3> QED
      BY <3>1, <3>5 DEF s
  <2> QED
    BY <2>1, <2>2, <2>3
<1> QED
  BY <1>3, <1>4 DEF PeriodInv

(* The sweep that JobsService schedules is idempotent: while no row waits  *)
(* in two sweeps at a time, a subscription has been charged exactly as     *)
(* often as it has been extended, whatever charges fail, whenever a sweep  *)
(* dies and another one repeats its work.                                  *)
THEOREM OneSweepChargesOnce == ChargesSpec /\ []SweepsApart => []EachPeriodChargedOnce
<1>1. RenewalInv /\ PeriodInv => EachPeriodChargedOnce
  BY DEF RenewalInv, SubHistory, PeriodInv, EachPeriodChargedOnce
<1>2. ChargesInit => RenewalInv /\ PeriodInv
  BY RenewalInit, PeriodInit
<1>3. /\ ChargesTypeOK /\ ChargesTypeOK' /\ RenewalInv /\ [ChargesNext]_chargeVars => RenewalInv'
  BY RenewalStep
<1>4. SweepsApart /\ ChargesTypeOK /\ ChargesTypeOK' /\ RenewalInv /\ PeriodInv
        /\ [ChargesNext]_chargeVars => PeriodInv'
  BY PeriodStep
<1> QED
  BY <1>1, <1>2, <1>3, <1>4, ChargesTyped, PTL DEF ChargesSpec

-------------------------------------------------------------------------------
(* The rows that were posted for a job, and what they took.                *)
RowsIn(k, u) == books[k][u].rows
AmountOfRow(j, r) == RowsIn(OwnerOf[j], r[1])[r[2]].amount
RowsKept(j) ==
  JobRows(j)' = JobRows(j) /\ \A r \in JobRows(j) : AmountOfRow(j, r)' = AmountOfRow(j, r)

LEMMA JobRow ==
  ASSUME NEW j, NEW r
  PROVE  r \in JobRows(j) <=>
           \E u \in Units : \E i \in 1 .. Len(RowsIn(OwnerOf[j], u)) :
             r = <<u, i>> /\ RowsIn(OwnerOf[j], u)[i].ref = j
BY DEF JobRows, RowsFor, RowsIn

LEMMA JobRowAfter ==
  ASSUME NEW j, NEW r
  PROVE  r \in JobRows(j)' <=>
           \E u \in Units : \E i \in 1 .. Len(RowsIn(OwnerOf[j], u)') :
             r = <<u, i>> /\ RowsIn(OwnerOf[j], u)'[i].ref = j
BY DEF JobRows, RowsFor, RowsIn

(* What a posting does to the rows of an account.                          *)
LEMMA RowsAfterPost ==
  ASSUME ChargesTypeOK, NEW k \in Payers, NEW u \in Units, NEW amount \in Int, NEW ref \in Refs,
         Posts(k, u, amount, ref), NEW l \in Payers, NEW v \in Units
  PROVE  /\ Len(RowsIn(l, v)) \in Nat
         /\ \A i \in 1 .. Len(RowsIn(l, v)) : RowsIn(l, v)'[i] = RowsIn(l, v)[i]
         /\ l # k \/ v # u => Len(RowsIn(l, v)') = Len(RowsIn(l, v))
         /\ l = k /\ v = u => /\ Len(RowsIn(l, v)') = Len(RowsIn(l, v)) + 1
                              /\ RowsIn(l, v)'[Len(RowsIn(l, v)) + 1].ref = ref
                              /\ RowsIn(l, v)'[Len(RowsIn(l, v)) + 1].amount = amount
<1> PICK read \in Int : Post(k, u, read, amount, ref)
  BY DEF Posts
<1> DEFINE acct == books[k][u]
           new == Posted(acct, read, amount, ref)
           row == NewRow(read, amount, ref)
<1>1. books \in [Payers -> [Units -> Accounts(Refs)]]
  BY DEF ChargesTypeOK, Refs
<1>2. acct \in Accounts(Refs) /\ Len(books[l][v].rows) \in Nat
  BY <1>1 DEF Accounts
<1>3. /\ books'[k][u] = new
      /\ l # k \/ v # u => books'[l][v] = books[l][v]
  BY OneAccountChanges
<1>4. /\ Len(new.rows) = Len(acct.rows) + 1 /\ new.rows[Len(acct.rows) + 1] = row
      /\ \A i \in 1 .. Len(acct.rows) : new.rows[i] = acct.rows[i]
  <2> HIDE DEF acct
  <2> QED
    BY <1>2, PostedAccount DEF new, row
<1>5. row.ref = ref /\ row.amount = amount
  BY DEF NewRow
<1>6. RowsIn(l, v) = books[l][v].rows /\ RowsIn(l, v)' = books'[l][v].rows
  BY DEF RowsIn
<1> HIDE DEF new, row
<1>7. CASE l = k /\ v = u
  BY <1>2, <1>3, <1>4, <1>5, <1>6, <1>7
<1>8. CASE l # k \/ v # u
  BY <1>2, <1>3, <1>6, <1>8
<1> QED
  BY <1>7, <1>8

LEMMA PostForOthers ==
  ASSUME ChargesTypeOK, NEW k \in Payers, NEW u \in Units, NEW amount \in Int, NEW ref \in Refs,
         Posts(k, u, amount, ref), NEW j \in Jobs, OwnerOf[j] \in Payers, ref # j
  PROVE  RowsKept(j)
<1> DEFINE Old(v) == RowsIn(OwnerOf[j], v)
           New(v) == RowsIn(OwnerOf[j], v)'
<1>1. ASSUME NEW v \in Units
      PROVE  /\ Len(Old(v)) \in Nat /\ \A i \in 1 .. Len(Old(v)) : New(v)[i] = Old(v)[i]
             /\ \/ Len(New(v)) = Len(Old(v))
                \/ Len(New(v)) = Len(Old(v)) + 1 /\ New(v)[Len(Old(v)) + 1].ref # j
  <2> DEFINE o == OwnerOf[j]
  <2>1. o \in Payers
    OBVIOUS
  <2> HIDE DEF o
  <2>2. /\ Len(RowsIn(o, v)) \in Nat
        /\ \A i \in 1 .. Len(RowsIn(o, v)) : RowsIn(o, v)'[i] = RowsIn(o, v)[i]
        /\ o # k \/ v # u => Len(RowsIn(o, v)') = Len(RowsIn(o, v))
        /\ o = k /\ v = u => /\ Len(RowsIn(o, v)') = Len(RowsIn(o, v)) + 1
                             /\ RowsIn(o, v)'[Len(RowsIn(o, v)) + 1].ref = ref
    BY <2>1, RowsAfterPost
  <2> QED
    BY <2>2 DEF o
<1>2. ASSUME NEW v \in Units, NEW i
      PROVE  i \in 1 .. Len(New(v)) /\ New(v)[i].ref = j
               <=> i \in 1 .. Len(Old(v)) /\ Old(v)[i].ref = j
  <2> HIDE DEF Old, New
  <2> QED
    BY <1>1
<1>3. ASSUME NEW r
      PROVE  r \in JobRows(j)' <=> r \in JobRows(j)
  <2>1. r \in JobRows(j) <=> \E v \in Units : \E i \in 1 .. Len(Old(v)) :
                               r = <<v, i>> /\ Old(v)[i].ref = j
    BY JobRow
  <2>2. r \in JobRows(j)' <=> \E v \in Units : \E i \in 1 .. Len(New(v)) :
                                r = <<v, i>> /\ New(v)[i].ref = j
    BY JobRowAfter
  <2> HIDE DEF Old, New
  <2> QED
    BY <1>2, <2>1, <2>2
<1>4. ASSUME NEW r \in JobRows(j) PROVE AmountOfRow(j, r)' = AmountOfRow(j, r)
  <2> PICK v \in Units : \E i \in 1 .. Len(Old(v)) : r = <<v, i>>
    BY JobRow
  <2> PICK i \in 1 .. Len(Old(v)) : r = <<v, i>>
    OBVIOUS
  <2>1. New(v)[i] = Old(v)[i]
    BY <1>1
  <2>2. AmountOfRow(j, r) = Old(v)[i].amount /\ AmountOfRow(j, r)' = New(v)[i].amount
    BY DEF AmountOfRow
  <2> QED
    BY <2>1, <2>2
<1>5. JobRows(j)' = JobRows(j)
  BY <1>3
<1> QED
  BY <1>4, <1>5 DEF RowsKept

LEMMA PostForJob ==
  ASSUME ChargesTypeOK, NEW j \in Jobs, OwnerOf[j] \in Payers, NEW u \in Units, NEW amount \in Int,
         Posts(OwnerOf[j], u, amount, j)
  PROVE  \E new : /\ JobRows(j)' = JobRows(j) \cup {new}
                  /\ new[1] = u /\ AmountOfRow(j, new)' = amount
                  /\ \A r \in JobRows(j) : AmountOfRow(j, r)' = AmountOfRow(j, r)
<1> DEFINE Old(v) == RowsIn(OwnerOf[j], v)
           New(v) == RowsIn(OwnerOf[j], v)'
           n == Len(Old(u))
           last == <<u, n + 1>>
<1>1. ASSUME NEW v \in Units
      PROVE  /\ Len(Old(v)) \in Nat /\ \A i \in 1 .. Len(Old(v)) : New(v)[i] = Old(v)[i]
             /\ v # u => Len(New(v)) = Len(Old(v))
             /\ v = u => /\ Len(New(v)) = Len(Old(v)) + 1 /\ New(v)[Len(Old(v)) + 1].ref = j
                         /\ New(v)[Len(Old(v)) + 1].amount = amount
  <2> DEFINE o == OwnerOf[j]
  <2>1. o \in Payers /\ j \in Refs /\ Posts(o, u, amount, j)
    BY DEF Refs
  <2> HIDE DEF o
  <2>2. /\ Len(RowsIn(o, v)) \in Nat
        /\ \A i \in 1 .. Len(RowsIn(o, v)) : RowsIn(o, v)'[i] = RowsIn(o, v)[i]
        /\ v # u => Len(RowsIn(o, v)') = Len(RowsIn(o, v))
        /\ v = u => /\ Len(RowsIn(o, v)') = Len(RowsIn(o, v)) + 1
                    /\ RowsIn(o, v)'[Len(RowsIn(o, v)) + 1].ref = j
                    /\ RowsIn(o, v)'[Len(RowsIn(o, v)) + 1].amount = amount
    BY <2>1, RowsAfterPost
  <2> QED
    BY <2>2 DEF o
<1>2. ASSUME NEW v \in Units, NEW i
      PROVE  i \in 1 .. Len(New(v)) /\ New(v)[i].ref = j
               <=> \/ i \in 1 .. Len(Old(v)) /\ Old(v)[i].ref = j
                   \/ v = u /\ i = n + 1
  <2>1. n \in Nat
    BY <1>1
  <2>2. CASE v = u
    <3> HIDE DEF Old, New
    <3> QED
      BY <1>1, <2>1, <2>2
  <2>3. CASE v # u
    <3> HIDE DEF Old, New, n
    <3> QED
      BY <1>1, <2>3
  <2> QED
    BY <2>2, <2>3
<1>3. ASSUME NEW r PROVE r \in JobRows(j)' <=> r \in JobRows(j) \/ r = last
  <2>1. r \in JobRows(j)' <=> \E v \in Units : \E i \in 1 .. Len(New(v)) :
                                r = <<v, i>> /\ New(v)[i].ref = j
    BY JobRowAfter
  <2>2. r \in JobRows(j) <=> \E v \in Units : \E i \in 1 .. Len(Old(v)) :
                               r = <<v, i>> /\ Old(v)[i].ref = j
    BY JobRow
  <2> HIDE DEF Old, New, n
  <2> QED
    BY <1>2, <2>1, <2>2
<1>4. ASSUME NEW r \in JobRows(j) PROVE AmountOfRow(j, r)' = AmountOfRow(j, r)
  <2> PICK v \in Units : \E i \in 1 .. Len(Old(v)) : r = <<v, i>>
    BY JobRow
  <2> PICK i \in 1 .. Len(Old(v)) : r = <<v, i>>
    OBVIOUS
  <2>1. New(v)[i] = Old(v)[i]
    BY <1>1
  <2>2. AmountOfRow(j, r) = Old(v)[i].amount /\ AmountOfRow(j, r)' = New(v)[i].amount
    BY DEF AmountOfRow
  <2> QED
    BY <2>1, <2>2
<1> PICK new : new = last
  OBVIOUS
<1>5. new[1] = u /\ AmountOfRow(j, new)' = New(u)[n + 1].amount
  BY DEF AmountOfRow
<1>6. New(u)[n + 1].amount = amount
  BY <1>1
<1> HIDE DEF last
<1>7. JobRows(j)' = JobRows(j) \cup {new}
  BY <1>3
<1> QED
  BY <1>4, <1>5, <1>6, <1>7

(* What a step does to a job: an approval that commits charges the price   *)
(* for it, all others leave its rows alone.                                *)
Commits(j) ==
  /\ jobs'[j] = "COMPLETED"
  /\ \E u \in Units : - Amount(j, u) \in Int /\ Posts(OwnerOf[j], u, - Amount(j, u), j)
Passes(j) ==
  /\ RowsKept(j)
  /\ \/ jobs'[j] = jobs[j]
     \/ jobs[j] = "NONE" /\ jobs'[j] = "PENDING_APPROVAL"
     \/ jobs'[j] = "CANCELLED"

LEMMA JobSteps ==
  ASSUME ChargesTypeOK, [ChargesNext]_chargeVars, NEW j \in Jobs, OwnerOf[j] # WalkIn
  PROVE  Passes(j) \/ Commits(j)
<1>1. /\ jobs \in [Jobs -> JobStatus]
      /\ OwnerOf[j] \in Payers /\ j # "load" /\ j \notin Subs
  BY ChargesAssumption DEF ChargesTypeOK
<1>2. ASSUME books' = books PROVE RowsKept(j)
  BY <1>2 DEF RowsKept, JobRows, RowsFor, AmountOfRow, RowsIn
<1>3. CASE ChargesSome
  <2> PICK w \in Sweepers : \E t \in sweeps[w].reading : Charge(w, t)
    BY <1>3 DEF ChargesSome
  <2> PICK t \in sweeps[w].reading : Charge(w, t)
    OBVIOUS
  <2> DEFINE s == t.row.id
  <2>1. /\ s \in Refs /\ s # j /\ PayerOf[s] \in Payers /\ "MONEY" \in Units
        /\ - PriceOf[s] \in Int /\ Posts(PayerOf[s], "MONEY", - PriceOf[s], s)
    BY <1>1, ChargePosts DEF Units, Refs
  <2> HIDE DEF s
  <2>2. RowsKept(j)
    BY <1>1, <2>1, PostForOthers
  <2> QED
    BY <2>2 DEF Charge, Passes
<1>4. CASE \E l \in loading : Load(l)
  <2> PICK l \in loading : Load(l)
    BY <1>4
  <2>1. "load" \in Refs
    BY DEF Refs
  <2>2. RowsKept(j)
    BY <1>1, <2>1, LoadPosts, PostForOthers
  <2> QED
    BY <2>2 DEF Load, Passes
<1>5. CASE \E c \in Approvers : CommitApproval(c)
  <2> PICK c \in Approvers : CommitApproval(c)
    BY <1>5
  <2> DEFINE i == approving[c].job
             u == approving[c].unit
  <2>1. jobs' = [jobs EXCEPT ![i] = "COMPLETED"]
    BY DEF CommitApproval
  <2>2. CASE OwnerOf[i] = WalkIn
    <3>1. books' = books /\ i # j
      BY <2>2 DEF CommitApproval, ChargesTypeOK
    <3>2. jobs'[j] = jobs[j]
      BY <1>1, <2>1, <3>1
    <3> QED
      BY <1>2, <3>1, <3>2 DEF Passes
  <2>3. CASE OwnerOf[i] # WalkIn
    <3>1. /\ i \in Jobs /\ OwnerOf[i] \in Payers /\ u \in Units /\ - Amount(i, u) \in Int
          /\ Posts(OwnerOf[i], u, - Amount(i, u), i)
      BY <2>3, ApprovalPosts
    <3>2. i \in Refs
      BY <3>1 DEF Refs
    <3> HIDE DEF i, u
    <3>3. CASE i = j
      BY <1>1, <2>1, <3>1, <3>3 DEF Commits
    <3>4. CASE i # j
      <4>1. RowsKept(j)
        BY <1>1, <3>1, <3>2, <3>4, PostForOthers
      <4>2. jobs'[j] = jobs[j]
        BY <1>1, <2>1, <3>4
      <4> QED
        BY <4>1, <4>2 DEF Passes
    <3> QED
      BY <3>3, <3>4
  <2> QED
    BY <2>2, <2>3
<1>6. CASE \E i \in Jobs : CreateJob(i) \/ CancelJob(i)
  <2>1. books' = books
    BY <1>6 DEF CreateJob, CancelJob
  <2>2. \/ jobs'[j] = jobs[j]
        \/ jobs[j] = "NONE" /\ jobs'[j] = "PENDING_APPROVAL"
        \/ jobs'[j] = "CANCELLED"
    BY <1>1, <1>6 DEF CreateJob, CancelJob
  <2> QED
    BY <1>2, <2>1, <2>2 DEF Passes
<1>7. CASE books' = books /\ jobs' = jobs
  BY <1>2, <1>7 DEF Passes
<1> QED
  BY <1>3, <1>4, <1>5, <1>6, <1>7 DEF ChargesSome, ChargesNext, chargeVars, Sweep, StartSweep,
     StartCharge, ChargeFails, MarkPastDue, SweepDies, Create, CreateExternal, Cancel, Approval,
     Approve, ChooseUnit, ReadBalance, CannotApprove, StartLoad, NextDay

(* A job waits only until its first approval commits, and is never made to *)
(* wait again.                                                             *)
JobHistory(j) ==
  /\ jobs[j] = "COMPLETED" => JobRows(j) # {}
  /\ jobs[j] \in {"NONE", "PENDING_APPROVAL"} => JobRows(j) = {}
  /\ \A r \in JobRows(j) : AmountOfRow(j, r) = - Amount(j, r[1])

JobInv == \A j \in Jobs : OwnerOf[j] # WalkIn => JobHistory(j)

LEMMA JobInit == ChargesInit => JobInv
<1> SUFFICES ASSUME ChargesInit, NEW j \in Jobs, OwnerOf[j] # WalkIn PROVE JobHistory(j)
  BY DEF JobInv
<1>1. \A u \in Units : books[OwnerOf[j]][u].rows = << >>
  BY ChargesAssumption DEF ChargesInit, EmptyAccount
<1>2. JobRows(j) = {}
  BY <1>1 DEF JobRows, RowsFor
<1>3. jobs[j] = "NONE"
  BY DEF ChargesInit
<1> QED
  BY <1>2, <1>3 DEF JobHistory

LEMMA JobStep ==
  ASSUME ChargesTypeOK, JobInv, [ChargesNext]_chargeVars
  PROVE  JobInv'
<1> SUFFICES ASSUME NEW j \in Jobs, OwnerOf[j] # WalkIn PROVE JobHistory(j)'
  BY DEF JobInv
<1>1. JobHistory(j)
  BY DEF JobInv
<1>2. CASE Passes(j)
  <2>1. \A r \in JobRows(j)' : AmountOfRow(j, r)' = - Amount(j, r[1])
    BY <1>1, <1>2 DEF JobHistory, Passes, RowsKept
  <2>2. /\ jobs'[j] = "COMPLETED" => JobRows(j)' # {}
        /\ jobs'[j] \in {"NONE", "PENDING_APPROVAL"} => JobRows(j)' = {}
    BY <1>1, <1>2 DEF JobHistory, Passes, RowsKept
  <2> QED
    BY <2>1, <2>2 DEF JobHistory, Amount
<1>3. CASE Commits(j)
  <2> PICK u \in Units : - Amount(j, u) \in Int /\ Posts(OwnerOf[j], u, - Amount(j, u), j)
    BY <1>3 DEF Commits
  <2>1. OwnerOf[j] \in Payers
    BY ChargesAssumption
  <2> DEFINE amount == - Amount(j, u)
  <2>2. amount \in Int /\ Posts(OwnerOf[j], u, amount, j)
    OBVIOUS
  <2> HIDE DEF amount
  <2> PICK new : /\ JobRows(j)' = JobRows(j) \cup {new}
                 /\ new[1] = u /\ AmountOfRow(j, new)' = amount
                 /\ \A r \in JobRows(j) : AmountOfRow(j, r)' = AmountOfRow(j, r)
    BY <2>1, <2>2, PostForJob
  <2>3. \A r \in JobRows(j)' : AmountOfRow(j, r)' = - Amount(j, r[1])
    BY <1>1 DEF JobHistory, amount
  <2>4. jobs'[j] = "COMPLETED" /\ JobRows(j)' # {}
    BY <1>3 DEF Commits
  <2> QED
    BY <2>3, <2>4 DEF JobHistory, Amount
<1> QED
  BY <1>2, <1>3, JobSteps

(* However many requests approve a print job at a time, and whatever else  *)
(* takes from the same balances meanwhile: no charge for it is less than   *)
(* its whole price, none comes before the approval, and none is missing    *)
(* after it (PrintService.approve).  That there is only one charge does    *)
(* not follow: the test of the status precedes the transaction.            *)
THEOREM ApprovalChargesInFull == ChargesSpec => []JobChargedInFull
<1>1. JobInv => JobChargedInFull
  BY DEF JobInv, JobHistory, JobChargedInFull, PaidJobs, AmountOfRow, RowsIn
<1>2. ChargesTypeOK /\ JobInv /\ [ChargesNext]_chargeVars => JobInv'
  BY JobStep
<1> QED
  BY <1>1, <1>2, JobInit, ChargesTyped, PTL DEF ChargesSpec
===============================================================================
