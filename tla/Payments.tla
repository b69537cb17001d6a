------------------------------ MODULE Payments ------------------------------
(***************************************************************************)
(* The transactions table of billing-service and the wallet of one user:   *)
(* CreatePayment and WalletTopupInit, the VNPay callback that settles them, *)
(* WalletPay, the refund and session consumers, and the job that fails     *)
(* transactions left pending.                                              *)
(*                                                                         *)
(* Only WalletPay, a top-up callback and a full extra charge lock the      *)
(* wallet row.  Transactions are read outside the database transaction     *)
(* that saves them, and saving writes the status in memory over the one in *)
(* the table.  A request is therefore a few steps of a worker, and others  *)
(* run between them.                                                       *)
(*                                                                         *)
(* The SUM over wallet_ledger is kept as a number beside the set of        *)
(* transactions that have a ledger row.  Each row of transactions has its  *)
(* identity from the start and is "absent" until it is inserted.  The age  *)
(* that findPendingBefore asks for is left out: any pending row may be old *)
(* enough.  PayArrears is left out, no code writes the unpaid invoices it  *)
(* settles.                                                                *)
(***************************************************************************)
EXTENDS Integers

CONSTANTS
  Txns,           \* rows the transactions table may get
  Workers,        \* requests, consumers and job runs in flight at once
  NoTxn,
  NoWorker,
  Kind,           \* what the row is for
  Related,        \* the booking or session it belongs to
  Amount,
  OpeningBalance  \* what the wallet holds at first

Kinds == {"gateway", "topup", "wallet", "refund", "charge", "surplus", "reversal"}

\* The rows that VNPay settles.
ByGateway == {t \in Txns : Kind[t] \in {"gateway", "topup"}}

ASSUME ConstantsAssumption ==
  /\ Kind \in [Txns -> Kinds]
  /\ Amount \in [Txns -> Nat \ {0}]
  /\ OpeningBalance \in Nat
  /\ NoTxn \notin Txns
  /\ NoWorker \notin Workers

VARIABLES
  txns,       \* transactions.status
  answer,     \* what VNPay decided about a payment or top-up
  seen,       \* processed_events
  invoices,   \* invoices, UNIQUE (transaction_id)
  ledger,     \* wallet_ledger, UNIQUE (transaction_id)
  balance,    \* the SUM over wallet_ledger
  announced,  \* payment.completed events in event_outbox
  lock,       \* SELECT ... FOR UPDATE on the wallet row
  mem,        \* what each worker holds in memory
  raced,      \* history: rows saved while another worker held a copy
  unlocked    \* history: debits that met another debit without the lock

tables == <<txns, invoices, ledger, balance, announced>>
vars == <<txns, answer, seen, invoices, ledger, balance, announced, lock, mem, raced, unlocked>>

Terminal == {"completed", "failed", "cancelled"}
Statuses == {"absent", "pending"} \cup Terminal

Idle == [op |-> "idle", step |-> "none", txn |-> NoTxn, list |-> {}, amount |-> 0]

IsIdle(w) == mem[w] = Idle

At(w, op, step) == mem[w].op = op /\ mem[w].step = step

Goto(w, step) == mem' = [mem EXCEPT ![w].step = step]

\* The rows of which a worker holds a copy that it is going to save.
Held(w) ==
  IF mem[w].op = "callback" /\ mem[w].step # "load" THEN {mem[w].txn} ELSE mem[w].list

RacedWith(w, t) == IF \E u \in Workers \ {w} : t \in Held(u) THEN raced \cup {t} ELSE raced

Init ==
  /\ txns = [t \in Txns |-> "absent"]
  /\ answer = [t \in Txns |-> "none"]
  /\ seen = {}
  /\ invoices = {}
  /\ ledger = {}
  /\ balance = OpeningBalance
  /\ announced = [t \in Txns |-> 0]
  /\ lock = NoWorker
  /\ mem = [w \in Workers |-> Idle]
  /\ raced = {}
  /\ unlocked = {}

-----------------------------------------------------------------------------
(* The end of a database transaction.                                      *)

\* The wallet row is unlocked by COMMIT and by ROLLBACK.
Finish(w) ==
  /\ mem' = [mem EXCEPT ![w] = Idle]
  /\ lock' = IF lock = w THEN NoWorker ELSE lock

Rollback(w) ==
  /\ Finish(w)
  /\ UNCHANGED <<tables, answer, seen, raced, unlocked>>

\* Mutant of LockWallet: the wallet is found but not locked.
LockWalletWithoutLock(w) ==
  /\ mem[w].step = "lock"
  /\ lock = NoWorker
  /\ Goto(w, IF mem[w].op = "callback" THEN "commit" ELSE "check")
  /\ UNCHANGED <<tables, answer, seen, lock, raced, unlocked>>

LockWallet(w) ==
  /\ mem[w].step = "lock"
  /\ lock = NoWorker
  /\ lock' = w
  /\ Goto(w, IF mem[w].op = "callback" THEN "commit" ELSE "check")
  /\ UNCHANGED <<tables, answer, seen, raced, unlocked>>

\* A crash, a lost connection or a statement that fails.
Abort(w) == ~IsIdle(w) /\ Rollback(w)

-----------------------------------------------------------------------------
(* Payments through VNPay.                                                 *)

\* CreatePayment and WalletTopupInit: the row, with the reference VNPay gets.
CreatePayment(t) ==
  /\ t \in ByGateway
  /\ txns[t] = "absent"
  /\ txns' = [txns EXCEPT ![t] = "pending"]
  /\ UNCHANGED <<answer, seen, invoices, ledger, balance, announced, lock, mem, raced, unlocked>>

\* The user pays or gives up on VNPay's page, at any time.
GatewayAnswers(t) ==
  /\ t \in ByGateway
  /\ txns[t] # "absent"
  /\ answer[t] = "none"
  /\ \E a \in {"success", "failed"} : answer' = [answer EXCEPT ![t] = a]
  /\ UNCHANGED <<tables, seen, lock, mem, raced, unlocked>>

\* The browser comes back, any number of times.  A callback that is already in
\* processed_events is only answered.
ReceiveCallback(w, t) ==
  /\ IsIdle(w)
  /\ answer[t] # "none"
  /\ t \notin seen
  /\ mem' = [mem EXCEPT ![w] = [Idle EXCEPT !.op = "callback", !.step = "load", !.txn = t]]
  /\ UNCHANGED <<tables, answer, seen, lock, raced, unlocked>>

\* Transaction.assertNotTerminal
IsFinal(t) == txns[t] \in Terminal

\* The row is read, and complete() or fail() changes the copy, or throws.
LoadTransaction(w) ==
  LET t == mem[w].txn IN
  /\ At(w, "callback", "load")
  /\ IF IsFinal(t)
       THEN Rollback(w)
       ELSE /\ Goto(w, IF answer[t] = "success" /\ Kind[t] = "topup" THEN "lock" ELSE "commit")
            /\ UNCHANGED <<tables, answer, seen, lock, raced, unlocked>>

\* Mutant of InvoiceExists: no unique index.
InvoiceExistsNotUnique(t) == FALSE

\* A second invoice of a transaction violates the unique index.
InvoiceExists(t) == t \in invoices

\* Mutant of Credits: the wallet is credited for a booking payment as well.
CreditsEveryKind(t) == answer[t] = "success"

Credits(t) == answer[t] = "success" /\ Kind[t] = "topup"

CommitCallback(w) ==
  LET t == mem[w].txn
      paid == answer[t] = "success" IN
  /\ At(w, "callback", "commit")
  /\ IF paid /\ InvoiceExists(t)
       THEN Rollback(w)
       ELSE /\ txns' = [txns EXCEPT ![t] = IF paid THEN "completed" ELSE "failed"]
            /\ invoices' = IF paid THEN invoices \cup {t} ELSE invoices
            /\ ledger' = IF Credits(t) THEN ledger \cup {t} ELSE ledger
            /\ balance' = IF Credits(t) THEN balance + Amount[t] ELSE balance
            /\ announced' = IF paid THEN [announced EXCEPT ![t] = @ + 1] ELSE announced
            /\ seen' = seen \cup {t}
            /\ raced' = RacedWith(w, t)
            /\ Finish(w)
            /\ UNCHANGED <<answer, unlocked>>

-----------------------------------------------------------------------------
(* Debits of the wallet.                                                   *)

\* An extra charge the balance did not cover is debited in part, and without
\* the lock.
Partial(w) == mem[w].op = "charge" /\ mem[w].amount < Amount[mem[w].txn]

\* Debits that read the balance and are about to write.
Debiting(w) == mem[w].step = "commit" /\ mem[w].op \in {"pay", "charge"}

\* A debit is written while another one has read the balance, and one of the
\* two did not lock the wallet.
Unlocked(w) ==
  IF \E u \in Workers \ {w} : Debiting(u) /\ (Partial(u) \/ Partial(w))
    THEN unlocked \cup {mem[w].txn} ELSE unlocked

\* The id of a row is new when the request makes it.
IsNew(t) == txns[t] = "absent" /\ t \notin seen /\ \A w \in Workers : mem[w].txn # t

RequestWalletPay(w, t) ==
  /\ IsIdle(w)
  /\ Kind[t] = "wallet"
  /\ IsNew(t)
  /\ mem' = [mem EXCEPT ![w] = [Idle EXCEPT !.op = "pay", !.step = "lock", !.txn = t,
                                            !.amount = Amount[t]]]
  /\ UNCHANGED <<tables, answer, seen, lock, raced, unlocked>>

\* A completed transaction with the booking as its related entity.
AlreadyPaid(t) ==
  \E u \in Txns : /\ Related[u] = Related[t]
                  /\ Kind[u] \in {"gateway", "wallet", "refund"}
                  /\ txns[u] = "completed"

\* WalletPay under the lock, and the check that debit() repeats.
CheckDebit(w) ==
  /\ mem[w].step = "check"
  /\ IF (mem[w].op = "pay" /\ AlreadyPaid(mem[w].txn)) \/ balance < mem[w].amount
       THEN Rollback(w)
       ELSE /\ Goto(w, "commit")
            /\ UNCHANGED <<tables, answer, seen, lock, raced, unlocked>>

\* session.completed arrives and is marked at once.
SessionCompleted(w, t) ==
  /\ IsIdle(w)
  /\ Kind[t] \in {"charge", "surplus"}
  /\ IsNew(t)
  /\ seen' = seen \cup {t}
  /\ mem' = [mem EXCEPT ![w] = [Idle EXCEPT !.op = "charge", !.step = "decide", !.txn = t,
                                            !.amount = Amount[t]]]
  /\ UNCHANGED <<tables, answer, lock, raced, unlocked>>

\* The deposit did not cover the fee: the balance, read without the lock, says
\* whether to lock and debit all, or to debit what there is.
ReadBalance(w) ==
  /\ At(w, "charge", "decide")
  /\ Kind[mem[w].txn] = "charge"
  /\ balance > 0
  /\ mem' = [mem EXCEPT ![w] =
               IF balance >= Amount[mem[w].txn]
                 THEN [mem[w] EXCEPT !.step = "lock"]
                 ELSE [mem[w] EXCEPT !.step = "check", !.amount = balance]]
  /\ UNCHANGED <<tables, answer, seen, lock, raced, unlocked>>

\* There is nothing to debit: the whole difference becomes arrears.
RecordArrears(w) ==
  LET t == mem[w].txn IN
  /\ At(w, "charge", "decide")
  /\ Kind[t] = "charge"
  /\ balance <= 0
  /\ announced' = [announced EXCEPT ![t] = @ + 1]
  /\ Finish(w)
  /\ UNCHANGED <<txns, answer, seen, invoices, ledger, balance, raced, unlocked>>

\* The deposit covered more than the fee: the rest is credited.
CreditSurplus(w) ==
  LET t == mem[w].txn IN
  /\ At(w, "charge", "decide")
  /\ Kind[t] = "surplus"
  /\ txns' = [txns EXCEPT ![t] = "completed"]
  /\ ledger' = ledger \cup {t}
  /\ balance' = balance + Amount[t]
  /\ announced' = [announced EXCEPT ![t] = @ + 1]
  /\ Finish(w)
  /\ UNCHANGED <<answer, seen, invoices, raced, unlocked>>

\* The transaction row, its ledger row and its event, and for WalletPay the
\* invoice, in one transaction.
CommitDebit(w) ==
  LET t == mem[w].txn IN
  /\ Debiting(w)
  /\ txns' = [txns EXCEPT ![t] = "completed"]
  /\ invoices' = IF mem[w].op = "pay" THEN invoices \cup {t} ELSE invoices
  /\ ledger' = ledger \cup {t}
  /\ balance' = balance - mem[w].amount
  /\ announced' = [announced EXCEPT ![t] = @ + 1]
  /\ unlocked' = Unlocked(w)
  /\ Finish(w)
  /\ UNCHANGED <<answer, seen, raced>>

-----------------------------------------------------------------------------
(* Refunds of a deposit.                                                   *)

\* booking.cancelled or booking.no_show arrives and is marked; the deposit it
\* names was paid.
ReceiveRefund(t) ==
  /\ Kind[t] = "refund"
  /\ IsNew(t)
  /\ \E u \in Txns : Related[u] = Related[t] /\ Kind[u] \in {"gateway", "wallet"} /\ announced[u] > 0
  /\ seen' = seen \cup {t}
  /\ UNCHANGED <<tables, answer, lock, mem, raced, unlocked>>

\* The credit, a transaction of its own that does not lock the wallet.  A crash
\* after the mark loses it.
CreditRefund(t) ==
  /\ Kind[t] = "refund"
  /\ t \in seen
  /\ txns[t] = "absent"
  /\ txns' = [txns EXCEPT ![t] = "completed"]
  /\ ledger' = ledger \cup {t}
  /\ balance' = balance + Amount[t]
  /\ UNCHANGED <<answer, seen, invoices, announced, lock, mem, raced, unlocked>>

\* RefundUseCase, for an administrator: a refund by the method of the original,
\* so that nothing is credited for a row that VNPay settled.  Nothing remembers
\* that the original was refunded.  (Bound: a reversal is not reversed again.)
RefundTransaction(t, u) ==
  /\ Kind[t] = "reversal"
  /\ txns[t] = "absent"
  /\ txns[u] = "completed" /\ Kind[u] # "reversal"
  /\ txns' = [txns EXCEPT ![t] = "completed"]
  /\ ledger' = IF u \in ByGateway THEN ledger ELSE ledger \cup {t}
  /\ balance' = IF u \in ByGateway THEN balance ELSE balance + Amount[u]
  /\ UNCHANGED <<answer, seen, invoices, announced, lock, mem, raced, unlocked>>

-----------------------------------------------------------------------------
(* TransactionReconciliationJob.                                           *)

\* Mutant of Stuck: top-ups are left alone, as the comment of the job says.
StuckPaymentsOnly == {t \in Txns : txns[t] = "pending" /\ Kind[t] = "gateway"}

Stuck == {t \in Txns : txns[t] = "pending"}

ListStuck(w) ==
  /\ IsIdle(w)
  /\ Stuck # {}
  /\ \E old \in SUBSET Stuck \ {{}} :
       mem' = [mem EXCEPT ![w] = [Idle EXCEPT !.op = "job", !.step = "save", !.list = old]]
  /\ UNCHANGED <<tables, answer, seen, lock, raced, unlocked>>

\* fail() is called on the copy, which is pending, and save() writes it.
SaveFailed(w, t) ==
  /\ At(w, "job", "save")
  /\ t \in mem[w].list
  /\ txns' = [txns EXCEPT ![t] = "failed"]
  /\ raced' = RacedWith(w, t)
  /\ mem' = [mem EXCEPT ![w] = IF mem[w].list = {t} THEN Idle
                               ELSE [mem[w] EXCEPT !.list = mem[w].list \ {t}]]
  /\ UNCHANGED <<answer, seen, invoices, ledger, balance, announced, lock, unlocked>>

-----------------------------------------------------------------------------
Callback(w) == (\E t \in Txns : ReceiveCallback(w, t)) \/ LoadTransaction(w) \/ CommitCallback(w)

WalletPay(w) == (\E t \in Txns : RequestWalletPay(w, t)) \/ CheckDebit(w) \/ CommitDebit(w)

Settle(w) ==
  (\E t \in Txns : SessionCompleted(w, t)) \/ ReadBalance(w) \/ RecordArrears(w) \/ CreditSurplus(w)

Reconcile(w) == ListStuck(w) \/ \E t \in Txns : SaveFailed(w, t)

Next ==
  \/ \E w \in Workers : Callback(w) \/ WalletPay(w) \/ Settle(w) \/ Reconcile(w)
                          \/ LockWallet(w) \/ Abort(w)
  \/ \E t \in Txns : CreatePayment(t) \/ GatewayAnswers(t) \/ ReceiveRefund(t) \/ CreditRefund(t)
                        \/ \E u \in Txns : RefundTransaction(t, u)

Spec == Init /\ [][Next]_vars

\* The cron runs the job every thirty minutes and lists every row that is old
\* enough, a save that is tried again and again succeeds once, and no database
\* transaction stays open for ever.
Fairness ==
  /\ \A t \in ByGateway :
       /\ SF_vars(\E w \in Workers : ListStuck(w) /\ t \in mem'[w].list)
       /\ \A w \in Workers : SF_vars(SaveFailed(w, t))
  /\ \A w \in Workers :
       /\ SF_vars(LockWallet(w))
       /\ WF_vars(LoadTransaction(w) \/ CommitCallback(w) \/ CheckDebit(w) \/ CommitDebit(w))
       /\ WF_vars(ReadBalance(w) \/ RecordArrears(w) \/ CreditSurplus(w))

FairSpec == Spec /\ Fairness

-----------------------------------------------------------------------------
(* Properties.                                                             *)

Ops == {"idle", "callback", "pay", "charge", "job"}
Steps == {"none", "load", "lock", "decide", "check", "commit", "save"}

WorkerStates ==
  [op : Ops, step : Steps, txn : Txns \cup {NoTxn}, list : SUBSET Txns, amount : Nat]

TablesOK ==
  /\ txns \in [Txns -> Statuses]
  /\ answer \in [Txns -> {"none", "success", "failed"}]
  /\ seen \subseteq Txns /\ invoices \subseteq Txns /\ ledger \subseteq Txns
  /\ balance \in Int
  /\ announced \in [Txns -> Nat]
  /\ raced \subseteq Txns /\ unlocked \subseteq Txns

\* The tables and the memory of the workers have their types, and a wallet is
\* locked only by a worker inside a transaction.
TypeOK ==
  /\ TablesOK
  /\ mem \in [Workers -> WorkerStates]
  /\ lock \in Workers \cup {NoWorker}
  /\ lock \in Workers => mem[lock].step \in {"check", "commit"}

\* However many callbacks of one payment run at once, and whatever the job and
\* the other consumers do, payment.completed is announced at most once for it,
\* and a booking is confirmed or a session billed at most once with it.
AnnouncedOnce == \A t \in Txns : announced[t] <= 1

\* A transaction is completed exactly if its invoice and its event exist, and
\* the wallet was credited or debited exactly if that is what the transaction
\* is for, unless a job and a callback held the row at once.
MoneyMatchesStatus ==
  \A t \in Txns \ raced :
    /\ Kind[t] \in {"gateway", "topup", "wallet"} =>
         /\ txns[t] = "completed" <=> t \in invoices
         /\ txns[t] = "completed" <=> announced[t] > 0
    /\ Kind[t] = "gateway" => t \notin ledger
    /\ Kind[t] \notin {"gateway", "reversal"} => (txns[t] = "completed" <=> t \in ledger)

\* A transaction that is completed or failed keeps its status, as the header of the
\* aggregate says, unless a job and a callback, or two callbacks, held the row at once.
TerminalIsFinalUnlessRaced ==
  [][\A t \in Txns \ raced' : txns[t] \in Terminal => txns'[t] = txns[t]]_vars

\* The wallet is overdrawn only if a partial extra charge, which does not lock
\* the wallet, met another debit.
OverdrawnOnlyIfUnlocked == balance < 0 => unlocked # {}

\* The lock and the check under it let one wallet payment of a booking through.
WalletPaysOnce ==
  \A t, u \in Txns :
    /\ Kind[t] = "wallet" /\ txns[t] = "completed"
    /\ Kind[u] = "wallet" /\ txns[u] = "completed"
    /\ Related[t] = Related[u]
    => t = u

\* No payment and no top-up stays pending for ever: a callback or the job
\* settles it.
PendingIsSettled == \A t \in ByGateway : txns[t] = "pending" ~> txns[t] \in Terminal
=============================================================================
