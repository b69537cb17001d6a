--------------------------- MODULE Payments_proofs ---------------------------
(***************************************************************************)
(* Proofs about Payments, for any set of transactions and workers: types,  *)
(* then what the rows and the workers' memory say of each other, then the  *)
(* safety properties the runs check.                                       *)
(***************************************************************************)
EXTENDS Payments, TLAPS

-----------------------------------------------------------------------------
(* The inductive invariant.                                                *)

\* What a worker remembers fits the operation it is in.
MemFits(w) ==
  /\ mem[w].op \in {"idle", "callback", "pay", "charge"} => mem[w].list = {}
  /\ mem[w].op = "idle" => mem[w] = Idle
  /\ mem[w].op = "callback" =>
       /\ mem[w].step \in {"load", "lock", "commit"}
       /\ mem[w].txn \in ByGateway
       /\ answer[mem[w].txn] # "none"
  /\ mem[w].op = "pay" =>
       /\ mem[w].step \in {"lock", "check", "commit"}
       /\ mem[w].txn \in Txns /\ Kind[mem[w].txn] = "wallet"
       /\ mem[w].amount = Amount[mem[w].txn]
  /\ mem[w].op = "charge" =>
       /\ mem[w].step \in {"decide", "lock", "check", "commit"}
       /\ mem[w].txn \in Txns /\ mem[w].txn \in seen
       /\ Kind[mem[w].txn] \in {"charge", "surplus"}
       /\ mem[w].step # "decide" => Kind[mem[w].txn] = "charge"
  /\ mem[w].op = "job" => mem[w].step = "save" /\ mem[w].txn = NoTxn
  /\ mem[w].list \subseteq ByGateway

MemShape == \A w \in Workers : MemFits(w)

\* A row that a wallet payment or a session is about to insert is not there
\* yet, and no other worker is about to insert it.
NewRows ==
  \A w \in Workers : mem[w].op \in {"pay", "charge"} =>
    /\ txns[mem[w].txn] = "absent"
    /\ announced[mem[w].txn] = 0
    /\ \A v \in Workers \ {w} : mem[v].txn # mem[w].txn

\* A worker that must hold the wallet lock holds it.
NeedsLock(w) ==
  /\ mem[w].step \in {"check", "commit"}
  /\ mem[w].op \in {"pay", "charge"}
  /\ ~Partial(w)

LockKept == \A w \in Workers : NeedsLock(w) => lock = w

\* What the tables say of each other, row by row.
RowAgrees(t) ==
  /\ t \in ByGateway =>
       /\ announced[t] = (IF t \in invoices THEN 1 ELSE 0)
       /\ t \in ledger <=> t \in invoices /\ Kind[t] = "topup"
       /\ t \notin raced => (txns[t] = "completed" <=> t \in invoices)
       /\ txns[t] = "absent" => answer[t] = "none" /\ t \notin invoices
  /\ t \notin ByGateway => answer[t] = "none" /\ txns[t] \in {"absent", "completed"}
  /\ Kind[t] = "wallet" =>
       /\ announced[t] = (IF txns[t] = "completed" THEN 1 ELSE 0)
       /\ txns[t] = "completed" <=> t \in invoices
  /\ Kind[t] \in {"charge", "surplus"} =>
       /\ announced[t] <= 1
       /\ announced[t] = 1 \/ txns[t] = "completed" => t \in seen
  /\ Kind[t] \in {"refund", "reversal"} => announced[t] = 0
  /\ Kind[t] \notin {"gateway", "topup", "reversal"} => (txns[t] = "completed" <=> t \in ledger)

RowsAgree == \A t \in Txns : RowAgrees(t)

\* A copy of a row that nobody else saved is still what the table says.
CopiesPending ==
  \A w \in Workers : \A t \in Held(w) : t \notin raced => txns[t] = "pending"

IInv == TypeOK /\ MemShape /\ NewRows /\ LockKept /\ RowsAgree /\ CopiesPending

\* What the check under the lock saw still holds when the payment commits.
CheckedUnpaid ==
  \A w \in Workers : At(w, "pay", "commit") =>
    \A u \in Txns : Kind[u] = "wallet" /\ Related[u] = Related[mem[w].txn] => txns[u] # "completed"

\* The balance covers every debit that has read it.
Covered ==
  unlocked = {} =>
    /\ balance >= 0
    /\ \A w \in Workers : Debiting(w) => balance >= mem[w].amount



-----------------------------------------------------------------------------
(* Types.                                                                  *)

\* The initial state has the right types.
LEMMA InitTypeOK == Init => TypeOK
  BY ConstantsAssumption DEF Init, TypeOK, TablesOK, WorkerStates, Idle, Ops, Steps, Statuses

\* Every step keeps the types.
LEMMA NextTypeOK == TypeOK /\ MemShape /\ [Next]_vars => TypeOK'
<1> SUFFICES ASSUME TypeOK, MemShape, [Next]_vars PROVE TypeOK'
  OBVIOUS
<1> USE ConstantsAssumption
<1>1. ASSUME NEW w \in Workers, NEW t \in Txns, ReceiveCallback(w, t) PROVE TypeOK'
  <2>1. TablesOK'
    BY <1>1 DEF ReceiveCallback, tables, TypeOK, TablesOK, WorkerStates, Statuses, Terminal, RacedWith, Unlocked
  <2>2. mem' \in [Workers -> WorkerStates]
    BY <1>1 DEF ReceiveCallback, tables, TypeOK, WorkerStates, Ops, Steps, Idle
  <2>3. lock' \in Workers \cup {NoWorker} /\ (lock' \in Workers => mem'[lock'].step \in {"check", "commit"})
    BY <1>1 DEF ReceiveCallback, tables, TypeOK, WorkerStates, IsIdle, Idle, At
  <2> QED BY <2>1, <2>2, <2>3 DEF TypeOK
<1>2. ASSUME NEW w \in Workers, LoadTransaction(w) PROVE TypeOK'
  <2>1. TablesOK'
    BY <1>2 DEF LoadTransaction, Rollback, Finish, Goto, tables, TypeOK, TablesOK, WorkerStates, Statuses, Terminal, RacedWith, Unlocked
  <2>2. mem' \in [Workers -> WorkerStates]
    BY <1>2 DEF LoadTransaction, Rollback, Finish, Goto, tables, TypeOK, WorkerStates, Ops, Steps, Idle
  <2>3. lock' \in Workers \cup {NoWorker} /\ (lock' \in Workers => mem'[lock'].step \in {"check", "commit"})
    BY <1>2 DEF LoadTransaction, Rollback, Finish, Goto, tables, TypeOK, WorkerStates, IsIdle, Idle, At
  <2> QED BY <2>1, <2>2, <2>3 DEF TypeOK
<1>3. ASSUME NEW w \in Workers, CommitCallback(w) PROVE TypeOK'
  <2>0. mem[w].txn \in Txns /\ mem[w] \in WorkerStates
    BY <1>3 DEF CommitCallback, At, Debiting, MemShape, MemFits, ByGateway, TypeOK
  <2>1. TablesOK'
    <3>1. balance' \in Int
      BY <1>3, <2>0 DEF CommitCallback, Rollback, tables, TypeOK, TablesOK, WorkerStates
    <3>2. announced' \in [Txns -> Nat]
      BY <1>3, <2>0 DEF CommitCallback, Rollback, tables, TypeOK, TablesOK
    <3>3. txns' \in [Txns -> Statuses]
      BY <1>3, <2>0 DEF CommitCallback, Rollback, tables, TypeOK, TablesOK, Statuses, Terminal
    <3>4. ledger' \subseteq Txns /\ invoices' \subseteq Txns /\ seen' \subseteq Txns
      BY <1>3, <2>0 DEF CommitCallback, Rollback, tables, TypeOK, TablesOK
    <3> QED BY <1>3, <2>0, <3>1, <3>2, <3>3, <3>4
            DEF CommitCallback, Rollback, tables, TypeOK, TablesOK, RacedWith, Unlocked
  <2>2. mem' \in [Workers -> WorkerStates]
    BY <1>3 DEF CommitCallback, Rollback, Finish, tables, TypeOK, WorkerStates, Ops, Steps, Idle
  <2>3. lock' \in Workers \cup {NoWorker} /\ (lock' \in Workers => mem'[lock'].step \in {"check", "commit"})
    BY <1>3 DEF CommitCallback, Rollback, Finish, tables, TypeOK, WorkerStates, IsIdle, Idle, At
  <2> QED BY <2>1, <2>2, <2>3 DEF TypeOK
<1>4. ASSUME NEW w \in Workers, NEW t \in Txns, RequestWalletPay(w, t) PROVE TypeOK'
  <2>1. TablesOK'
    BY <1>4 DEF RequestWalletPay, tables, TypeOK, TablesOK, WorkerStates, Statuses, Terminal, RacedWith, Unlocked
  <2>2. mem' \in [Workers -> WorkerStates]
    BY <1>4 DEF RequestWalletPay, tables, TypeOK, WorkerStates, Ops, Steps, Idle
  <2>3. lock' \in Workers \cup {NoWorker} /\ (lock' \in Workers => mem'[lock'].step \in {"check", "commit"})
    BY <1>4 DEF RequestWalletPay, tables, TypeOK, WorkerStates, IsIdle, Idle, At
  <2> QED BY <2>1, <2>2, <2>3 DEF TypeOK
<1>5. ASSUME NEW w \in Workers, CheckDebit(w) PROVE TypeOK'
  <2>1. TablesOK'
    BY <1>5 DEF CheckDebit, Rollback, Finish, Goto, tables, TypeOK, TablesOK, WorkerStates, Statuses, Terminal, RacedWith, Unlocked
  <2>2. mem' \in [Workers -> WorkerStates]
    BY <1>5 DEF CheckDebit, Rollback, Finish, Goto, tables, TypeOK, WorkerStates, Ops, Steps, Idle
  <2>3. lock' \in Workers \cup {NoWorker} /\ (lock' \in Workers => mem'[lock'].step \in {"check", "commit"})
    BY <1>5 DEF CheckDebit, Rollback, Finish, Goto, tables, TypeOK, WorkerStates, IsIdle, Idle, At
  <2> QED BY <2>1, <2>2, <2>3 DEF TypeOK
<1>6. ASSUME NEW w \in Workers, CommitDebit(w) PROVE TypeOK'
  <2>0. mem[w].txn \in Txns /\ mem[w] \in WorkerStates
    BY <1>6 DEF CommitDebit, At, Debiting, MemShape, MemFits, ByGateway, TypeOK
  <2>1. TablesOK'
    <3>1. balance' \in Int
      BY <1>6, <2>0 DEF CommitDebit, Finish, TypeOK, TablesOK, WorkerStates
    <3>2. announced' \in [Txns -> Nat]
      BY <1>6, <2>0 DEF CommitDebit, Finish, TypeOK, TablesOK
    <3>3. txns' \in [Txns -> Statuses]
      BY <1>6, <2>0 DEF CommitDebit, Finish, TypeOK, TablesOK, Statuses, Terminal
    <3>4. ledger' \subseteq Txns /\ invoices' \subseteq Txns /\ seen' \subseteq Txns
      BY <1>6, <2>0 DEF CommitDebit, Finish, TypeOK, TablesOK
    <3> QED BY <1>6, <2>0, <3>1, <3>2, <3>3, <3>4
            DEF CommitDebit, Finish, TypeOK, TablesOK, RacedWith, Unlocked
  <2>2. mem' \in [Workers -> WorkerStates]
    BY <1>6 DEF CommitDebit, Finish, TypeOK, WorkerStates, Ops, Steps, Idle
  <2>3. lock' \in Workers \cup {NoWorker} /\ (lock' \in Workers => mem'[lock'].step \in {"check", "commit"})
    BY <1>6 DEF CommitDebit, Finish, TypeOK, WorkerStates, IsIdle, Idle, At
  <2> QED BY <2>1, <2>2, <2>3 DEF TypeOK
<1>7. ASSUME NEW w \in Workers, NEW t \in Txns, SessionCompleted(w, t) PROVE TypeOK'
  <2>1. TablesOK'
    BY <1>7 DEF SessionCompleted, tables, TypeOK, TablesOK, WorkerStates, Statuses, Terminal, RacedWith, Unlocked
  <2>2. mem' \in [Workers -> WorkerStates]
    BY <1>7 DEF SessionCompleted, tables, TypeOK, WorkerStates, Ops, Steps, Idle
  <2>3. lock' \in Workers \cup {NoWorker} /\ (lock' \in Workers => mem'[lock'].step \in {"check", "commit"})
    BY <1>7 DEF SessionCompleted, tables, TypeOK, WorkerStates, IsIdle, Idle, At
  <2> QED BY <2>1, <2>2, <2>3 DEF TypeOK
<1>8. ASSUME NEW w \in Workers, ReadBalance(w) PROVE TypeOK'
  <2>1. TablesOK'
    BY <1>8 DEF ReadBalance, tables, TypeOK, TablesOK, WorkerStates, Statuses, Terminal, RacedWith, Unlocked
  <2>0. mem[w] \in WorkerStates /\ balance \in Int
    BY <1>8 DEF TypeOK, TablesOK
  <2>2. mem' \in [Workers -> WorkerStates]
    <3>1. [mem[w] EXCEPT !.step = "lock"] \in WorkerStates
      BY <2>0 DEF WorkerStates, Steps
    <3>2. [mem[w] EXCEPT !.step = "check", !.amount = balance] \in WorkerStates
      <4>1. balance \in Nat
        BY <1>8, <2>0 DEF ReadBalance
      <4> QED BY <2>0, <4>1 DEF WorkerStates, Steps
    <3> QED BY <1>8, <3>1, <3>2 DEF ReadBalance, TypeOK
  <2>3. lock' \in Workers \cup {NoWorker} /\ (lock' \in Workers => mem'[lock'].step \in {"check", "commit"})
    BY <1>8 DEF ReadBalance, tables, TypeOK, WorkerStates, IsIdle, Idle, At
  <2> QED BY <2>1, <2>2, <2>3 DEF TypeOK
<1>9. ASSUME NEW w \in Workers, RecordArrears(w) PROVE TypeOK'
  <2>0. mem[w].txn \in Txns /\ mem[w] \in WorkerStates
    BY <1>9 DEF RecordArrears, At, Debiting, MemShape, MemFits, ByGateway, TypeOK
  <2>1. TablesOK'
    <3>1. balance' \in Int
      BY <1>9, <2>0 DEF RecordArrears, Finish, TypeOK, TablesOK, WorkerStates
    <3>2. announced' \in [Txns -> Nat]
      BY <1>9, <2>0 DEF RecordArrears, Finish, TypeOK, TablesOK
    <3>3. txns' \in [Txns -> Statuses]
      BY <1>9, <2>0 DEF RecordArrears, Finish, TypeOK, TablesOK, Statuses, Terminal
    <3>4. ledger' \subseteq Txns /\ invoices' \subseteq Txns /\ seen' \subseteq Txns
      BY <1>9, <2>0 DEF RecordArrears, Finish, TypeOK, TablesOK
    <3> QED BY <1>9, <2>0, <3>1, <3>2, <3>3, <3>4
            DEF RecordArrears, Finish, TypeOK, TablesOK, RacedWith, Unlocked
  <2>2. mem' \in [Workers -> WorkerStates]
    BY <1>9 DEF RecordArrears, Finish, TypeOK, WorkerStates, Ops, Steps, Idle
  <2>3. lock' \in Workers \cup {NoWorker} /\ (lock' \in Workers => mem'[lock'].step \in {"check", "commit"})
    BY <1>9 DEF RecordArrears, Finish, TypeOK, WorkerStates, IsIdle, Idle, At
  <2> QED BY <2>1, <2>2, <2>3 DEF TypeOK
<1>10. ASSUME NEW w \in Workers, CreditSurplus(w) PROVE TypeOK'
  <2>0. mem[w].txn \in Txns /\ mem[w] \in WorkerStates
    BY <1>10 DEF CreditSurplus, At, Debiting, MemShape, MemFits, ByGateway, TypeOK
  <2>1. TablesOK'
    <3>1. balance' \in Int
      BY <1>10, <2>0 DEF CreditSurplus, Finish, TypeOK, TablesOK, WorkerStates
    <3>2. announced' \in [Txns -> Nat]
      BY <1>10, <2>0 DEF CreditSurplus, Finish, TypeOK, TablesOK
    <3>3. txns' \in [Txns -> Statuses]
      BY <1>10, <2>0 DEF CreditSurplus, Finish, TypeOK, TablesOK, Statuses, Terminal
    <3>4. ledger' \subseteq Txns /\ invoices' \subseteq Txns /\ seen' \subseteq Txns
      BY <1>10, <2>0 DEF CreditSurplus, Finish, TypeOK, TablesOK
    <3> QED BY <1>10, <2>0, <3>1, <3>2, <3>3, <3>4
            DEF CreditSurplus, Finish, TypeOK, TablesOK, RacedWith, Unlocked
  <2>2. mem' \in [Workers -> WorkerStates]
    BY <1>10 DEF CreditSurplus, Finish, TypeOK, WorkerStates, Ops, Steps, Idle
  <2>3. lock' \in Workers \cup {NoWorker} /\ (lock' \in Workers => mem'[lock'].step \in {"check", "commit"})
    BY <1>10 DEF CreditSurplus, Finish, TypeOK, WorkerStates, IsIdle, Idle, At
  <2> QED BY <2>1, <2>2, <2>3 DEF TypeOK
<1>11. ASSUME NEW w \in Workers, ListStuck(w) PROVE TypeOK'
  <2>1. TablesOK'
    BY <1>11 DEF ListStuck, tables, TypeOK, TablesOK, WorkerStates, Statuses, Terminal, RacedWith, Unlocked
  <2>2. mem' \in [Workers -> WorkerStates]
    <3>1. PICK old \in SUBSET Stuck :
            mem' = [mem EXCEPT ![w] = [Idle EXCEPT !.op = "job", !.step = "save", !.list = old]]
      BY <1>11 DEF ListStuck
    <3>2. [Idle EXCEPT !.op = "job", !.step = "save", !.list = old] \in WorkerStates
      BY <3>1 DEF Idle, WorkerStates, Ops, Steps, Stuck
    <3> QED BY <3>1, <3>2 DEF TypeOK
  <2>3. lock' \in Workers \cup {NoWorker} /\ (lock' \in Workers => mem'[lock'].step \in {"check", "commit"})
    BY <1>11 DEF ListStuck, tables, TypeOK, WorkerStates, IsIdle, Idle, At
  <2> QED BY <2>1, <2>2, <2>3 DEF TypeOK
<1>12. ASSUME NEW w \in Workers, NEW t \in Txns, SaveFailed(w, t) PROVE TypeOK'
  <2>1. TablesOK'
    BY <1>12 DEF SaveFailed, TypeOK, TablesOK, WorkerStates, Statuses, Terminal, RacedWith, Unlocked
  <2>2. mem' \in [Workers -> WorkerStates]
    BY <1>12 DEF SaveFailed, TypeOK, WorkerStates, Ops, Steps, Idle
  <2>3. lock' \in Workers \cup {NoWorker} /\ (lock' \in Workers => mem'[lock'].step \in {"check", "commit"})
    BY <1>12 DEF SaveFailed, TypeOK, WorkerStates, IsIdle, Idle, At
  <2> QED BY <2>1, <2>2, <2>3 DEF TypeOK
<1>13. ASSUME NEW w \in Workers, LockWallet(w) PROVE TypeOK'
  <2>1. TablesOK'
    BY <1>13 DEF LockWallet, Goto, tables, TypeOK, TablesOK, WorkerStates, Statuses, Terminal, RacedWith, Unlocked
  <2>2. mem' \in [Workers -> WorkerStates]
    BY <1>13 DEF LockWallet, Goto, tables, TypeOK, WorkerStates, Ops, Steps, Idle
  <2>3. lock' \in Workers \cup {NoWorker} /\ (lock' \in Workers => mem'[lock'].step \in {"check", "commit"})
    BY <1>13 DEF LockWallet, Goto, tables, TypeOK, WorkerStates, IsIdle, Idle, At
  <2> QED BY <2>1, <2>2, <2>3 DEF TypeOK
<1>14. ASSUME NEW w \in Workers, Abort(w) PROVE TypeOK'
  <2>1. TablesOK'
    BY <1>14 DEF Abort, Rollback, Finish, tables, TypeOK, TablesOK, WorkerStates, Statuses, Terminal, RacedWith, Unlocked
  <2>2. mem' \in [Workers -> WorkerStates]
    BY <1>14 DEF Abort, Rollback, Finish, tables, TypeOK, WorkerStates, Ops, Steps, Idle
  <2>3. lock' \in Workers \cup {NoWorker} /\ (lock' \in Workers => mem'[lock'].step \in {"check", "commit"})
    BY <1>14 DEF Abort, Rollback, Finish, tables, TypeOK, WorkerStates, IsIdle, Idle, At
  <2> QED BY <2>1, <2>2, <2>3 DEF TypeOK
<1>15. ASSUME NEW t \in Txns, CreatePayment(t) PROVE TypeOK'
  <2>1. TablesOK'
    BY <1>15 DEF CreatePayment, TypeOK, TablesOK, WorkerStates, Statuses, Terminal, RacedWith, Unlocked
  <2>2. mem' \in [Workers -> WorkerStates]
    BY <1>15 DEF CreatePayment, TypeOK, WorkerStates, Ops, Steps, Idle
  <2>3. lock' \in Workers \cup {NoWorker} /\ (lock' \in Workers => mem'[lock'].step \in {"check", "commit"})
    BY <1>15 DEF CreatePayment, TypeOK, WorkerStates, IsIdle, Idle, At
  <2> QED BY <2>1, <2>2, <2>3 DEF TypeOK
<1>16. ASSUME NEW t \in Txns, GatewayAnswers(t) PROVE TypeOK'
  <2>1. TablesOK'
    BY <1>16 DEF GatewayAnswers, tables, TypeOK, TablesOK, WorkerStates, Statuses, Terminal, RacedWith, Unlocked
  <2>2. mem' \in [Workers -> WorkerStates]
    BY <1>16 DEF GatewayAnswers, tables, TypeOK, WorkerStates, Ops, Steps, Idle
  <2>3. lock' \in Workers \cup {NoWorker} /\ (lock' \in Workers => mem'[lock'].step \in {"check", "commit"})
    BY <1>16 DEF GatewayAnswers, tables, TypeOK, WorkerStates, IsIdle, Idle, At
  <2> QED BY <2>1, <2>2, <2>3 DEF TypeOK
<1>17. ASSUME NEW t \in Txns, ReceiveRefund(t) PROVE TypeOK'
  <2>1. TablesOK'
    BY <1>17 DEF ReceiveRefund, tables, TypeOK, TablesOK, WorkerStates, Statuses, Terminal, RacedWith, Unlocked
  <2>2. mem' \in [Workers -> WorkerStates]
    BY <1>17 DEF ReceiveRefund, tables, TypeOK, WorkerStates, Ops, Steps, Idle
  <2>3. lock' \in Workers \cup {NoWorker} /\ (lock' \in Workers => mem'[lock'].step \in {"check", "commit"})
    BY <1>17 DEF ReceiveRefund, tables, TypeOK, WorkerStates, IsIdle, Idle, At
  <2> QED BY <2>1, <2>2, <2>3 DEF TypeOK
<1>18. ASSUME NEW t \in Txns, CreditRefund(t) PROVE TypeOK'
  <2>1. TablesOK'
    BY <1>18 DEF CreditRefund, TypeOK, TablesOK, WorkerStates, Statuses, Terminal, RacedWith, Unlocked
  <2>2. mem' \in [Workers -> WorkerStates]
    BY <1>18 DEF CreditRefund, TypeOK, WorkerStates, Ops, Steps, Idle
  <2>3. lock' \in Workers \cup {NoWorker} /\ (lock' \in Workers => mem'[lock'].step \in {"check", "commit"})
    BY <1>18 DEF CreditRefund, TypeOK, WorkerStates, IsIdle, Idle, At
  <2> QED BY <2>1, <2>2, <2>3 DEF TypeOK
<1>19. ASSUME NEW t \in Txns, NEW u \in Txns, RefundTransaction(t, u) PROVE TypeOK'
  <2>1. TablesOK'
    <3>1. balance' \in Int
      BY <1>19 DEF RefundTransaction, TypeOK, TablesOK
    <3> QED BY <1>19, <3>1 DEF RefundTransaction, TypeOK, TablesOK, Statuses, Terminal
  <2>2. mem' \in [Workers -> WorkerStates]
    BY <1>19 DEF RefundTransaction, TypeOK, WorkerStates, Ops, Steps, Idle
  <2>3. lock' \in Workers \cup {NoWorker} /\ (lock' \in Workers => mem'[lock'].step \in {"check", "commit"})
    BY <1>19 DEF RefundTransaction, TypeOK, WorkerStates, IsIdle, Idle, At
  <2> QED BY <2>1, <2>2, <2>3 DEF TypeOK
<1>20. CASE UNCHANGED vars
  BY <1>20 DEF vars, tables, TypeOK, TablesOK
<1> QED
  BY <1>1, <1>2, <1>3, <1>4, <1>5, <1>6, <1>7, <1>8, <1>9, <1>10, <1>11, <1>12, <1>13, <1>14, <1>15, <1>16, <1>17, <1>18, <1>19, <1>20
     DEF Next, Callback, WalletPay, Settle, Reconcile

-----------------------------------------------------------------------------
(* The memory of the workers.                                              *)

\* A step of one worker leaves what the others remember fitting.
LEMMA OthersFit ==
  ASSUME MemShape, NEW w \in Workers, \A v \in Workers \ {w} : mem'[v] = mem[v],
         answer' = answer, seen \subseteq seen', MemFits(w)'
  PROVE  MemShape'
  BY DEF MemShape, MemFits

\* An idle worker fits.
LEMMA IdleFits ==
  ASSUME NEW w \in Workers, mem'[w] = Idle
  PROVE  MemFits(w)'
  BY DEF MemFits, Idle

\* Every step keeps the memories fitting.
LEMMA NextMemShape == TypeOK /\ MemShape /\ RowsAgree /\ [Next]_vars => MemShape'
<1> SUFFICES ASSUME TypeOK, MemShape, RowsAgree, [Next]_vars PROVE MemShape'
  OBVIOUS
<1> USE ConstantsAssumption
<1>1. ASSUME NEW w \in Workers, NEW t \in Txns, ReceiveCallback(w, t) PROVE MemShape'
  <2>1. \A v \in Workers \ {w} : mem'[v] = mem[v]
    BY <1>1 DEF ReceiveCallback, tables, TypeOK
  <2>2. answer' = answer /\ seen \subseteq seen'
    BY <1>1 DEF ReceiveCallback, tables
  <2>3. MemFits(w)'
    <3>1. t \in ByGateway
      BY <1>1 DEF ReceiveCallback, RowsAgree, RowAgrees
    <3> QED BY <1>1, <3>1 DEF ReceiveCallback, TypeOK, MemFits, Idle
  <2> QED BY <2>1, <2>2, <2>3, OthersFit
<1>2. ASSUME NEW w \in Workers, LoadTransaction(w) PROVE MemShape'
  <2>1. \A v \in Workers \ {w} : mem'[v] = mem[v]
    BY <1>2 DEF LoadTransaction, Rollback, Finish, Goto, tables, TypeOK
  <2>2. answer' = answer /\ seen \subseteq seen'
    BY <1>2 DEF LoadTransaction, Rollback, Finish, Goto, tables
  <2>3. MemFits(w)'
    <3>1. mem[w] \in WorkerStates /\ MemFits(w)
      BY DEF TypeOK, MemShape
    <3>2. \/ mem'[w] = Idle
          \/ mem'[w] = [mem[w] EXCEPT !.step = "lock"] /\ answer' = answer
          \/ mem'[w] = [mem[w] EXCEPT !.step = "commit"] /\ answer' = answer
      BY <1>2 DEF LoadTransaction, Rollback, Finish, Goto, TypeOK
    <3> QED BY <1>2, <3>1, <3>2, IdleFits DEF LoadTransaction, At, MemFits, WorkerStates
  <2> QED BY <2>1, <2>2, <2>3, OthersFit
<1>3. ASSUME NEW w \in Workers, CommitCallback(w) PROVE MemShape'
  <2>1. \A v \in Workers \ {w} : mem'[v] = mem[v]
    BY <1>3 DEF CommitCallback, Rollback, Finish, tables, TypeOK
  <2>2. answer' = answer /\ seen \subseteq seen'
    BY <1>3 DEF CommitCallback, Rollback, Finish, tables
  <2>3. MemFits(w)'
    <3>1. mem[w] \in WorkerStates /\ MemFits(w)
      BY DEF TypeOK, MemShape
    <3>2. mem'[w] = Idle
      BY <1>3 DEF CommitCallback, Rollback, Finish, Goto, TypeOK
    <3> QED BY <1>3, <3>1, <3>2, IdleFits DEF At, MemFits, WorkerStates
  <2> QED BY <2>1, <2>2, <2>3, OthersFit
<1>4. ASSUME NEW w \in Workers, NEW t \in Txns, RequestWalletPay(w, t) PROVE MemShape'
  <2>1. \A v \in Workers \ {w} : mem'[v] = mem[v]
    BY <1>4 DEF RequestWalletPay, tables, TypeOK
  <2>2. answer' = answer /\ seen \subseteq seen'
    BY <1>4 DEF RequestWalletPay, tables
  <2>3. MemFits(w)'
    BY <1>4 DEF RequestWalletPay, tables, TypeOK, WorkerStates, MemShape, MemFits, At, Idle, ByGateway
  <2> QED BY <2>1, <2>2, <2>3, OthersFit
<1>5. ASSUME NEW w \in Workers, CheckDebit(w) PROVE MemShape'
  <2>1. \A v \in Workers \ {w} : mem'[v] = mem[v]
    BY <1>5 DEF CheckDebit, Rollback, Finish, Goto, tables, TypeOK
  <2>2. answer' = answer /\ seen \subseteq seen'
    BY <1>5 DEF CheckDebit, Rollback, Finish, Goto, tables
  <2>3. MemFits(w)'
    <3>1. mem[w] \in WorkerStates /\ MemFits(w)
      BY DEF TypeOK, MemShape
    <3>2. \/ mem'[w] = Idle
          \/ /\ mem'[w] = [mem[w] EXCEPT !.step = "commit"]
             /\ answer' = answer /\ seen' = seen
      BY <1>5 DEF CheckDebit, Rollback, Finish, Goto, TypeOK
    <3> QED BY <1>5, <3>1, <3>2, IdleFits DEF CheckDebit, At, MemFits, WorkerStates, Idle
  <2> QED BY <2>1, <2>2, <2>3, OthersFit
<1>6. ASSUME NEW w \in Workers, CommitDebit(w) PROVE MemShape'
  <2>1. \A v \in Workers \ {w} : mem'[v] = mem[v]
    BY <1>6 DEF CommitDebit, Finish, TypeOK
  <2>2. answer' = answer /\ seen \subseteq seen'
    BY <1>6 DEF CommitDebit, Finish
  <2>3. MemFits(w)'
    BY <1>6 DEF CommitDebit, Finish, TypeOK, WorkerStates, MemShape, MemFits, At, Idle, ByGateway
  <2> QED BY <2>1, <2>2, <2>3, OthersFit
<1>7. ASSUME NEW w \in Workers, NEW t \in Txns, SessionCompleted(w, t) PROVE MemShape'
  <2>1. \A v \in Workers \ {w} : mem'[v] = mem[v]
    BY <1>7 DEF SessionCompleted, tables, TypeOK
  <2>2. answer' = answer /\ seen \subseteq seen'
    BY <1>7 DEF SessionCompleted, tables
  <2>3. MemFits(w)'
    BY <1>7 DEF SessionCompleted, tables, TypeOK, WorkerStates, MemShape, MemFits, At, Idle, ByGateway
  <2> QED BY <2>1, <2>2, <2>3, OthersFit
<1>8. ASSUME NEW w \in Workers, ReadBalance(w) PROVE MemShape'
  <2>1. \A v \in Workers \ {w} : mem'[v] = mem[v]
    BY <1>8 DEF ReadBalance, tables, TypeOK
  <2>2. answer' = answer /\ seen \subseteq seen'
    BY <1>8 DEF ReadBalance, tables
  <2>3. MemFits(w)'
    BY <1>8 DEF ReadBalance, tables, TypeOK, WorkerStates, MemShape, MemFits, At, Idle, ByGateway
  <2> QED BY <2>1, <2>2, <2>3, OthersFit
<1>9. ASSUME NEW w \in Workers, RecordArrears(w) PROVE MemShape'
  <2>1. \A v \in Workers \ {w} : mem'[v] = mem[v]
    BY <1>9 DEF RecordArrears, Finish, TypeOK
  <2>2. answer' = answer /\ seen \subseteq seen'
    BY <1>9 DEF RecordArrears, Finish
  <2>3. MemFits(w)'
    BY <1>9 DEF RecordArrears, Finish, TypeOK, WorkerStates, MemShape, MemFits, At, Idle, ByGateway
  <2> QED BY <2>1, <2>2, <2>3, OthersFit
<1>10. ASSUME NEW w \in Workers, CreditSurplus(w) PROVE MemShape'
  <2>1. \A v \in Workers \ {w} : mem'[v] = mem[v]
    BY <1>10 DEF CreditSurplus, Finish, TypeOK
  <2>2. answer' = answer /\ seen \subseteq seen'
    BY <1>10 DEF CreditSurplus, Finish
  <2>3. MemFits(w)'
    BY <1>10 DEF CreditSurplus, Finish, TypeOK, WorkerStates, MemShape, MemFits, At, Idle, ByGateway
  <2> QED BY <2>1, <2>2, <2>3, OthersFit
<1>11. ASSUME NEW w \in Workers, ListStuck(w) PROVE MemShape'
  <2>1. \A v \in Workers \ {w} : mem'[v] = mem[v]
    BY <1>11 DEF ListStuck, tables, TypeOK
  <2>2. answer' = answer /\ seen \subseteq seen'
    BY <1>11 DEF ListStuck, tables
  <2>3. MemFits(w)'
    <3>1. PICK old \in SUBSET Stuck :
            mem' = [mem EXCEPT ![w] = [Idle EXCEPT !.op = "job", !.step = "save", !.list = old]]
      BY <1>11 DEF ListStuck
    <3>2. old \subseteq ByGateway
      BY <3>1 DEF Stuck, RowsAgree, RowAgrees
    <3> QED BY <3>1, <3>2 DEF MemFits, Idle, TypeOK
  <2> QED BY <2>1, <2>2, <2>3, OthersFit
<1>12. ASSUME NEW w \in Workers, NEW t \in Txns, SaveFailed(w, t) PROVE MemShape'
  <2>1. \A v \in Workers \ {w} : mem'[v] = mem[v]
    BY <1>12 DEF SaveFailed, TypeOK
  <2>2. answer' = answer /\ seen \subseteq seen'
    BY <1>12 DEF SaveFailed
  <2>3. MemFits(w)'
    BY <1>12 DEF SaveFailed, TypeOK, WorkerStates, MemShape, MemFits, At, Idle, ByGateway
  <2> QED BY <2>1, <2>2, <2>3, OthersFit
<1>13. ASSUME NEW w \in Workers, LockWallet(w) PROVE MemShape'
  <2>1. \A v \in Workers \ {w} : mem'[v] = mem[v]
    BY <1>13 DEF LockWallet, Goto, tables, TypeOK
  <2>2. answer' = answer /\ seen \subseteq seen'
    BY <1>13 DEF LockWallet, Goto, tables
  <2>3. MemFits(w)'
    BY <1>13 DEF LockWallet, Goto, tables, TypeOK, WorkerStates, MemShape, MemFits, At, Idle, ByGateway
  <2> QED BY <2>1, <2>2, <2>3, OthersFit
<1>14. ASSUME NEW w \in Workers, Abort(w) PROVE MemShape'
  <2>1. \A v \in Workers \ {w} : mem'[v] = mem[v]
    BY <1>14 DEF Abort, Rollback, Finish, tables, TypeOK
  <2>2. answer' = answer /\ seen \subseteq seen'
    BY <1>14 DEF Abort, Rollback, Finish, tables
  <2>3. MemFits(w)'
    BY <1>14 DEF Abort, Rollback, Finish, tables, TypeOK, WorkerStates, MemShape, MemFits, At, Idle, ByGateway
  <2> QED BY <2>1, <2>2, <2>3, OthersFit
<1>15. ASSUME NEW t \in Txns, CreatePayment(t) PROVE MemShape'
  BY <1>15 DEF CreatePayment, MemShape, MemFits, TypeOK, TablesOK, ByGateway
<1>16. ASSUME NEW t \in Txns, GatewayAnswers(t) PROVE MemShape'
  BY <1>16 DEF GatewayAnswers, tables, MemShape, MemFits, TypeOK, TablesOK, ByGateway
<1>17. ASSUME NEW t \in Txns, ReceiveRefund(t) PROVE MemShape'
  BY <1>17 DEF ReceiveRefund, tables, MemShape, MemFits, TypeOK, TablesOK, ByGateway
<1>18. ASSUME NEW t \in Txns, CreditRefund(t) PROVE MemShape'
  BY <1>18 DEF CreditRefund, MemShape, MemFits, TypeOK, TablesOK, ByGateway
<1>19. ASSUME NEW t \in Txns, NEW u \in Txns, RefundTransaction(t, u) PROVE MemShape'
  BY <1>19 DEF RefundTransaction, MemShape, MemFits, TypeOK, TablesOK, ByGateway
<1>20. CASE UNCHANGED vars
  BY <1>20 DEF vars, tables, MemShape, MemFits
<1> QED
  BY <1>1, <1>2, <1>3, <1>4, <1>5, <1>6, <1>7, <1>8, <1>9, <1>10, <1>11, <1>12, <1>13, <1>14, <1>15, <1>16, <1>17, <1>18, <1>19, <1>20
     DEF Next, Callback, WalletPay, Settle, Reconcile

-----------------------------------------------------------------------------
(* Rows that are about to be inserted.                                     *)

Inserted == {t \in Txns : Kind[t] \in {"wallet", "charge", "surplus"}}

\* A worker that goes on, or is done, leaves the rows the others are about to
\* insert absent, if it writes no such row but its own, and that one last.
LEMMA KeepsNew ==
  ASSUME MemShape, NewRows, NEW w \in Workers,
         \A v \in Workers \ {w} : mem'[v] = mem[v],
         \A t \in Inserted : 
               \/ txns'[t] = txns[t] /\ announced'[t] = announced[t]
               \/ t = mem[w].txn /\ mem'[w] = Idle /\ mem[w].op \in {"pay", "charge"},
         \/ mem'[w].txn = mem[w].txn /\ mem'[w].op = mem[w].op
         \/ mem'[w].txn = NoTxn /\ mem'[w].op \notin {"pay", "charge"}
  PROVE  NewRows'
<1> SUFFICES ASSUME NEW v \in Workers, mem'[v].op \in {"pay", "charge"}
             PROVE  /\ txns'[mem'[v].txn] = "absent"
                    /\ announced'[mem'[v].txn] = 0
                    /\ \A x \in Workers \ {v} : mem'[x].txn # mem'[v].txn
  BY DEF NewRows
<1>1. mem[v].op = mem'[v].op /\ mem[v].txn = mem'[v].txn
  OBVIOUS
<1>2. mem[v].txn \in Inserted /\ mem[v].txn # NoTxn
  BY <1>1, ConstantsAssumption DEF MemShape, MemFits, Inserted
<1>3. /\ txns[mem[v].txn] = "absent"
      /\ announced[mem[v].txn] = 0
      /\ \A x \in Workers \ {v} : mem[x].txn # mem[v].txn
  BY <1>1 DEF NewRows
<1>4. \A x \in Workers \ {v} : mem'[x].txn # mem'[v].txn
  BY <1>1, <1>2, <1>3
<1>5. mem[v].txn = mem[w].txn /\ mem'[w] = Idle => FALSE
  BY <1>1, <1>2, <1>3 DEF Idle
<1> QED BY <1>1, <1>2, <1>3, <1>4, <1>5

\* A worker that begins with a new row keeps all of them new.
LEMMA BeginsNew ==
  ASSUME TypeOK, MemShape, NewRows, RowsAgree, NEW w \in Workers, NEW t \in Inserted, IsNew(t),
         \A v \in Workers \ {w} : mem'[v] = mem[v], mem'[w].txn = t,
         txns' = txns, announced' = announced
  PROVE  NewRows'
<1>1. txns[t] = "absent" /\ announced[t] = 0
  BY DEF IsNew, RowsAgree, RowAgrees, Inserted, TypeOK, TablesOK
<1> QED BY <1>1 DEF NewRows, IsNew

\* The same for a worker that writes no such row.
LEMMA KeepsNewElse ==
  ASSUME MemShape, NewRows, NEW w \in Workers,
         \A v \in Workers \ {w} : mem'[v] = mem[v],
         \A t \in Inserted : txns'[t] = txns[t] /\ announced'[t] = announced[t],
         \/ mem'[w].txn = mem[w].txn /\ mem'[w].op = mem[w].op
         \/ mem'[w].txn = NoTxn /\ mem'[w].op \notin {"pay", "charge"}
  PROVE  NewRows'
<1>1. \A t \in Inserted : 
      \/ txns'[t] = txns[t] /\ announced'[t] = announced[t]
      \/ t = mem[w].txn /\ mem'[w] = Idle /\ mem[w].op \in {"pay", "charge"}
  OBVIOUS
<1> QED BY <1>1, KeepsNew

\* Every step keeps the rows about to be inserted absent.
LEMMA NextNewRows == TypeOK /\ MemShape /\ NewRows /\ RowsAgree /\ [Next]_vars => NewRows'
<1> SUFFICES ASSUME TypeOK, MemShape, NewRows, RowsAgree, [Next]_vars PROVE NewRows'
  OBVIOUS
<1> USE ConstantsAssumption
<1>1. ASSUME NEW w \in Workers, NEW t \in Txns, ReceiveCallback(w, t) PROVE NewRows'
  <2>1. t \in ByGateway /\ t \notin Inserted
    BY <1>1 DEF ReceiveCallback, RowsAgree, RowAgrees, ByGateway, Inserted
  <2>2. \A v \in Workers \ {w} : mem'[v] = mem[v]
    BY <1>1 DEF ReceiveCallback, TypeOK
  <2>3. mem'[w].txn = t /\ mem'[w].op = "callback"
    BY <1>1 DEF ReceiveCallback, TypeOK, Idle
  <2> QED BY <1>1, <2>1, <2>2, <2>3 DEF ReceiveCallback, tables, NewRows, MemShape, MemFits, Inserted
<1>2. ASSUME NEW w \in Workers, LoadTransaction(w) PROVE NewRows'
  <2>1. \A v \in Workers \ {w} : mem'[v] = mem[v]
    BY <1>2 DEF LoadTransaction, Rollback, Finish, Goto, tables, TypeOK
  <2>2. \A u \in Inserted : txns'[u] = txns[u] /\ announced'[u] = announced[u]
    BY <1>2 DEF LoadTransaction, Rollback, Finish, Goto, tables
  <2>3. \/ mem'[w].txn = mem[w].txn /\ mem'[w].op = mem[w].op
        \/ mem'[w].txn = NoTxn /\ mem'[w].op \notin {"pay", "charge"}
    BY <1>2 DEF LoadTransaction, Rollback, Finish, Goto, tables, At, IsIdle, TypeOK, WorkerStates, Idle, MemShape, MemFits
  <2> QED BY <2>1, <2>2, <2>3, KeepsNewElse
<1>3. ASSUME NEW w \in Workers, CommitCallback(w) PROVE NewRows'
  <2>1. \A v \in Workers \ {w} : mem'[v] = mem[v]
    BY <1>3 DEF CommitCallback, Rollback, Finish, tables, TypeOK
  <2>0. mem[w].txn \in ByGateway /\ mem[w].txn \notin Inserted
    BY <1>3 DEF CommitCallback, At, MemShape, MemFits, ByGateway, Inserted
  <2>2. \A u \in Inserted : txns'[u] = txns[u] /\ announced'[u] = announced[u]
    BY <1>3, <2>0 DEF CommitCallback, Rollback, tables, TypeOK, TablesOK, Inserted
  <2>3. \/ mem'[w].txn = mem[w].txn /\ mem'[w].op = mem[w].op
        \/ mem'[w].txn = NoTxn /\ mem'[w].op \notin {"pay", "charge"}
    BY <1>3 DEF CommitCallback, Rollback, Finish, tables, At, IsIdle, TypeOK, WorkerStates, Idle, MemShape, MemFits
  <2> QED BY <2>1, <2>2, <2>3, KeepsNewElse
<1>4. ASSUME NEW w \in Workers, NEW t \in Txns, RequestWalletPay(w, t) PROVE NewRows'
  <2>1. t \in Inserted /\ IsNew(t)
    BY <1>4 DEF RequestWalletPay, Inserted
  <2> QED BY <1>4, <2>1, BeginsNew DEF RequestWalletPay, tables, TypeOK, Idle
<1>5. ASSUME NEW w \in Workers, CheckDebit(w) PROVE NewRows'
  <2>1. \A v \in Workers \ {w} : mem'[v] = mem[v]
    BY <1>5 DEF CheckDebit, Rollback, Finish, Goto, tables, TypeOK
  <2>2. \A u \in Inserted : txns'[u] = txns[u] /\ announced'[u] = announced[u]
    BY <1>5 DEF CheckDebit, Rollback, Finish, Goto, tables
  <2>3. \/ mem'[w].txn = mem[w].txn /\ mem'[w].op = mem[w].op
        \/ mem'[w].txn = NoTxn /\ mem'[w].op \notin {"pay", "charge"}
    BY <1>5 DEF CheckDebit, Rollback, Finish, Goto, tables, At, IsIdle, TypeOK, WorkerStates, Idle, MemShape, MemFits
  <2> QED BY <2>1, <2>2, <2>3, KeepsNewElse
<1>6. ASSUME NEW w \in Workers, CommitDebit(w) PROVE NewRows'
  <2>1. \A v \in Workers \ {w} : mem'[v] = mem[v]
    BY <1>6 DEF CommitDebit, Finish, TypeOK
  <2>2. \A u \in Inserted : 
        \/ txns'[u] = txns[u] /\ announced'[u] = announced[u]
        \/ u = mem[w].txn /\ mem'[w] = Idle /\ mem[w].op \in {"pay", "charge"}
    BY <1>6 DEF CommitDebit, Finish, At, Debiting, Inserted, ByGateway, MemShape, MemFits, TypeOK, TablesOK
  <2>3. \/ mem'[w].txn = mem[w].txn /\ mem'[w].op = mem[w].op
        \/ mem'[w].txn = NoTxn /\ mem'[w].op \notin {"pay", "charge"}
    BY <1>6 DEF CommitDebit, Finish, At, IsIdle, TypeOK, WorkerStates, Idle, MemShape, MemFits
  <2> QED BY <2>1, <2>2, <2>3, KeepsNew
<1>7. ASSUME NEW w \in Workers, NEW t \in Txns, SessionCompleted(w, t) PROVE NewRows'
  <2>1. t \in Inserted /\ IsNew(t)
    BY <1>7 DEF SessionCompleted, Inserted
  <2> QED BY <1>7, <2>1, BeginsNew DEF SessionCompleted, tables, TypeOK, Idle
<1>8. ASSUME NEW w \in Workers, ReadBalance(w) PROVE NewRows'
  <2>1. \A v \in Workers \ {w} : mem'[v] = mem[v]
    BY <1>8 DEF ReadBalance, tables, TypeOK
  <2>2. \A u \in Inserted : txns'[u] = txns[u] /\ announced'[u] = announced[u]
    BY <1>8 DEF ReadBalance, tables
  <2>3. \/ mem'[w].txn = mem[w].txn /\ mem'[w].op = mem[w].op
        \/ mem'[w].txn = NoTxn /\ mem'[w].op \notin {"pay", "charge"}
    BY <1>8 DEF ReadBalance, tables, At, IsIdle, TypeOK, WorkerStates, Idle, MemShape, MemFits
  <2> QED BY <2>1, <2>2, <2>3, KeepsNewElse
<1>9. ASSUME NEW w \in Workers, RecordArrears(w) PROVE NewRows'
  <2>1. \A v \in Workers \ {w} : mem'[v] = mem[v]
    BY <1>9 DEF RecordArrears, Finish, TypeOK
  <2>2. \A u \in Inserted : 
        \/ txns'[u] = txns[u] /\ announced'[u] = announced[u]
        \/ u = mem[w].txn /\ mem'[w] = Idle /\ mem[w].op \in {"pay", "charge"}
    BY <1>9 DEF RecordArrears, Finish, At, Debiting, Inserted, ByGateway, MemShape, MemFits, TypeOK, TablesOK
  <2>3. \/ mem'[w].txn = mem[w].txn /\ mem'[w].op = mem[w].op
        \/ mem'[w].txn = NoTxn /\ mem'[w].op \notin {"pay", "charge"}
    BY <1>9 DEF RecordArrears, Finish, At, IsIdle, TypeOK, WorkerStates, Idle, MemShape, MemFits
  <2> QED BY <2>1, <2>2, <2>3, KeepsNew
<1>10. ASSUME NEW w \in Workers, CreditSurplus(w) PROVE NewRows'
  <2>1. \A v \in Workers \ {w} : mem'[v] = mem[v]
    BY <1>10 DEF CreditSurplus, Finish, TypeOK
  <2>2. \A u \in Inserted : 
        \/ txns'[u] = txns[u] /\ announced'[u] = announced[u]
        \/ u = mem[w].txn /\ mem'[w] = Idle /\ mem[w].op \in {"pay", "charge"}
    BY <1>10 DEF CreditSurplus, Finish, At, Debiting, Inserted, ByGateway, MemShape, MemFits, TypeOK, TablesOK
  <2>3. \/ mem'[w].txn = mem[w].txn /\ mem'[w].op = mem[w].op
        \/ mem'[w].txn = NoTxn /\ mem'[w].op \notin {"pay", "charge"}
    BY <1>10 DEF CreditSurplus, Finish, At, IsIdle, TypeOK, WorkerStates, Idle, MemShape, MemFits
  <2> QED BY <2>1, <2>2, <2>3, KeepsNew
<1>11. ASSUME NEW w \in Workers, ListStuck(w) PROVE NewRows'
  <2>1. \A v \in Workers \ {w} : mem'[v] = mem[v]
    BY <1>11 DEF ListStuck, tables, TypeOK
  <2>2. \A u \in Inserted : txns'[u] = txns[u] /\ announced'[u] = announced[u]
    BY <1>11 DEF ListStuck, tables
  <2>3. \/ mem'[w].txn = mem[w].txn /\ mem'[w].op = mem[w].op
        \/ mem'[w].txn = NoTxn /\ mem'[w].op \notin {"pay", "charge"}
    BY <1>11 DEF ListStuck, tables, At, IsIdle, TypeOK, WorkerStates, Idle, MemShape, MemFits
  <2> QED BY <2>1, <2>2, <2>3, KeepsNewElse
<1>12. ASSUME NEW w \in Workers, NEW t \in Txns, SaveFailed(w, t) PROVE NewRows'
  <2>1. \A v \in Workers \ {w} : mem'[v] = mem[v]
    BY <1>12 DEF SaveFailed, TypeOK
  <2>0. t \in ByGateway /\ t \notin Inserted
    BY <1>12 DEF SaveFailed, At, MemShape, MemFits, ByGateway, Inserted
  <2>2. \A u \in Inserted : txns'[u] = txns[u] /\ announced'[u] = announced[u]
    BY <1>12, <2>0 DEF SaveFailed, TypeOK, TablesOK, Inserted
  <2>3. \/ mem'[w].txn = mem[w].txn /\ mem'[w].op = mem[w].op
        \/ mem'[w].txn = NoTxn /\ mem'[w].op \notin {"pay", "charge"}
    BY <1>12 DEF SaveFailed, At, IsIdle, TypeOK, WorkerStates, Idle, MemShape, MemFits
  <2> QED BY <2>1, <2>2, <2>3, KeepsNewElse
<1>13. ASSUME NEW w \in Workers, LockWallet(w) PROVE NewRows'
  <2>1. \A v \in Workers \ {w} : mem'[v] = mem[v]
    BY <1>13 DEF LockWallet, Goto, tables, TypeOK
  <2>2. \A u \in Inserted : txns'[u] = txns[u] /\ announced'[u] = announced[u]
    BY <1>13 DEF LockWallet, Goto, tables
  <2>3. \/ mem'[w].txn = mem[w].txn /\ mem'[w].op = mem[w].op
        \/ mem'[w].txn = NoTxn /\ mem'[w].op \notin {"pay", "charge"}
    BY <1>13 DEF LockWallet, Goto, tables, At, IsIdle, TypeOK, WorkerStates, Idle, MemShape, MemFits
  <2> QED BY <2>1, <2>2, <2>3, KeepsNewElse
<1>14. ASSUME NEW w \in Workers, Abort(w) PROVE NewRows'
  <2>1. \A v \in Workers \ {w} : mem'[v] = mem[v]
    BY <1>14 DEF Abort, Rollback, Finish, tables, TypeOK
  <2>2. \A u \in Inserted : txns'[u] = txns[u] /\ announced'[u] = announced[u]
    BY <1>14 DEF Abort, Rollback, Finish, tables
  <2>3. \/ mem'[w].txn = mem[w].txn /\ mem'[w].op = mem[w].op
        \/ mem'[w].txn = NoTxn /\ mem'[w].op \notin {"pay", "charge"}
    BY <1>14 DEF Abort, Rollback, Finish, tables, At, IsIdle, TypeOK, WorkerStates, Idle, MemShape, MemFits
  <2> QED BY <2>1, <2>2, <2>3, KeepsNewElse
<1>15. ASSUME NEW t \in Txns, CreatePayment(t) PROVE NewRows'
  BY <1>15 DEF CreatePayment, NewRows, MemShape, MemFits, ByGateway, TypeOK, TablesOK
<1>16. ASSUME NEW t \in Txns, GatewayAnswers(t) PROVE NewRows'
  BY <1>16 DEF GatewayAnswers, tables, NewRows, MemShape, MemFits, ByGateway, TypeOK, TablesOK
<1>17. ASSUME NEW t \in Txns, ReceiveRefund(t) PROVE NewRows'
  BY <1>17 DEF ReceiveRefund, tables, NewRows, MemShape, MemFits, ByGateway, TypeOK, TablesOK
<1>18. ASSUME NEW t \in Txns, CreditRefund(t) PROVE NewRows'
  BY <1>18 DEF CreditRefund, NewRows, MemShape, MemFits, ByGateway, TypeOK, TablesOK
<1>19. ASSUME NEW t \in Txns, NEW u \in Txns, RefundTransaction(t, u) PROVE NewRows'
  BY <1>19 DEF RefundTransaction, NewRows, MemShape, MemFits, ByGateway, TypeOK, TablesOK
<1>20. CASE UNCHANGED vars
  BY <1>20 DEF vars, tables, NewRows
<1> QED
  BY <1>1, <1>2, <1>3, <1>4, <1>5, <1>6, <1>7, <1>8, <1>9, <1>10, <1>11, <1>12, <1>13, <1>14, <1>15, <1>16, <1>17, <1>18, <1>19, <1>20
     DEF Next, Callback, WalletPay, Settle, Reconcile

-----------------------------------------------------------------------------
(* The wallet lock.                                                        *)

\* The lock stays with a worker that needs it when another one takes it from
\* nobody, keeps its own or gives its own up.
LEMMA OthersKeepLock ==
  ASSUME TypeOK, LockKept, NEW w \in Workers,
         \A v \in Workers \ {w} : mem'[v] = mem[v],
         lock' \in {lock, NoWorker, w},
         lock' # lock => lock \in {NoWorker, w},
         NeedsLock(w)' => lock' = w
  PROVE  LockKept'
<1>1. ASSUME NEW v \in Workers \ {w}, NeedsLock(v)' PROVE lock' = v
  <2>1. NeedsLock(v)
    BY <1>1 DEF NeedsLock, Partial
  <2> QED BY <2>1, ConstantsAssumption DEF LockKept
<1> QED BY <1>1 DEF LockKept

\* Every step keeps the lock with the workers that need it.
LEMMA NextLockKept == TypeOK /\ MemShape /\ LockKept /\ [Next]_vars => LockKept'
<1> SUFFICES ASSUME TypeOK, MemShape, LockKept, [Next]_vars PROVE LockKept'
  OBVIOUS
<1> USE ConstantsAssumption
<1>1. ASSUME NEW w \in Workers, NEW t \in Txns, ReceiveCallback(w, t) PROVE LockKept'
  <2>1. \A v \in Workers \ {w} : mem'[v] = mem[v]
    BY <1>1 DEF ReceiveCallback, tables, TypeOK
  <2>2. lock' \in {lock, NoWorker, w} /\ (lock' # lock => lock \in {NoWorker, w})
    BY <1>1 DEF ReceiveCallback, tables
  <2>3. NeedsLock(w)' => lock' = w
    BY <1>1 DEF ReceiveCallback, tables, NeedsLock, TypeOK, WorkerStates, MemShape, MemFits, At, Idle
  <2> QED BY <2>1, <2>2, <2>3, OthersKeepLock
<1>2. ASSUME NEW w \in Workers, LoadTransaction(w) PROVE LockKept'
  <2>1. \A v \in Workers \ {w} : mem'[v] = mem[v]
    BY <1>2 DEF LoadTransaction, Rollback, Finish, Goto, tables, TypeOK
  <2>2. lock' \in {lock, NoWorker, w} /\ (lock' # lock => lock \in {NoWorker, w})
    BY <1>2 DEF LoadTransaction, Rollback, Finish, Goto, tables
  <2>3. NeedsLock(w)' => lock' = w
    BY <1>2 DEF LoadTransaction, Rollback, Finish, Goto, tables, NeedsLock, TypeOK, WorkerStates, MemShape, MemFits, At, Idle
  <2> QED BY <2>1, <2>2, <2>3, OthersKeepLock
<1>3. ASSUME NEW w \in Workers, CommitCallback(w) PROVE LockKept'
  <2>1. \A v \in Workers \ {w} : mem'[v] = mem[v]
    BY <1>3 DEF CommitCallback, Rollback, Finish, tables, TypeOK
  <2>2. lock' \in {lock, NoWorker, w} /\ (lock' # lock => lock \in {NoWorker, w})
    BY <1>3 DEF CommitCallback, Rollback, Finish, tables
  <2>3. NeedsLock(w)' => lock' = w
    BY <1>3 DEF CommitCallback, Rollback, Finish, tables, NeedsLock, TypeOK, WorkerStates, MemShape, MemFits, At, Idle
  <2> QED BY <2>1, <2>2, <2>3, OthersKeepLock
<1>4. ASSUME NEW w \in Workers, NEW t \in Txns, RequestWalletPay(w, t) PROVE LockKept'
  <2>1. \A v \in Workers \ {w} : mem'[v] = mem[v]
    BY <1>4 DEF RequestWalletPay, tables, TypeOK
  <2>2. lock' \in {lock, NoWorker, w} /\ (lock' # lock => lock \in {NoWorker, w})
    BY <1>4 DEF RequestWalletPay, tables
  <2>3. NeedsLock(w)' => lock' = w
    BY <1>4 DEF RequestWalletPay, tables, NeedsLock, TypeOK, WorkerStates, MemShape, MemFits, At, Idle
  <2> QED BY <2>1, <2>2, <2>3, OthersKeepLock
<1>5. ASSUME NEW w \in Workers, CheckDebit(w) PROVE LockKept'
  <2>1. \A v \in Workers \ {w} : mem'[v] = mem[v]
    BY <1>5 DEF CheckDebit, Rollback, Finish, Goto, tables, TypeOK
  <2>2. lock' \in {lock, NoWorker, w} /\ (lock' # lock => lock \in {NoWorker, w})
    BY <1>5 DEF CheckDebit, Rollback, Finish, Goto, tables
  <2>3. NeedsLock(w)' => lock' = w
    <3>1. CASE mem'[w] = Idle
      BY <3>1 DEF NeedsLock, Idle
    <3>2. CASE mem'[w] = [mem[w] EXCEPT !.step = "commit"] /\ lock' = lock
      <4>1. mem'[w].op = mem[w].op /\ mem'[w].txn = mem[w].txn /\ mem'[w].amount = mem[w].amount
        BY <3>2 DEF TypeOK, WorkerStates
      <4>2. mem[w].step = "check"
        BY <1>5 DEF CheckDebit
      <4> QED BY <3>2, <4>1, <4>2 DEF LockKept, NeedsLock, Partial
    <3> QED BY <1>5, <3>1, <3>2 DEF CheckDebit, Rollback, Finish, Goto, tables, TypeOK
  <2> QED BY <2>1, <2>2, <2>3, OthersKeepLock
<1>6. ASSUME NEW w \in Workers, CommitDebit(w) PROVE LockKept'
  <2>1. \A v \in Workers \ {w} : mem'[v] = mem[v]
    BY <1>6 DEF CommitDebit, Finish, TypeOK
  <2>2. lock' \in {lock, NoWorker, w} /\ (lock' # lock => lock \in {NoWorker, w})
    BY <1>6 DEF CommitDebit, Finish
  <2>3. NeedsLock(w)' => lock' = w
    BY <1>6 DEF CommitDebit, Finish, NeedsLock, TypeOK, WorkerStates, MemShape, MemFits, At, Idle
  <2> QED BY <2>1, <2>2, <2>3, OthersKeepLock
<1>7. ASSUME NEW w \in Workers, NEW t \in Txns, SessionCompleted(w, t) PROVE LockKept'
  <2>1. \A v \in Workers \ {w} : mem'[v] = mem[v]
    BY <1>7 DEF SessionCompleted, tables, TypeOK
  <2>2. lock' \in {lock, NoWorker, w} /\ (lock' # lock => lock \in {NoWorker, w})
    BY <1>7 DEF SessionCompleted, tables
  <2>3. NeedsLock(w)' => lock' = w
    BY <1>7 DEF SessionCompleted, tables, NeedsLock, TypeOK, WorkerStates, MemShape, MemFits, At, Idle
  <2> QED BY <2>1, <2>2, <2>3, OthersKeepLock
<1>8. ASSUME NEW w \in Workers, ReadBalance(w) PROVE LockKept'
  <2>1. \A v \in Workers \ {w} : mem'[v] = mem[v]
    BY <1>8 DEF ReadBalance, tables, TypeOK
  <2>2. lock' \in {lock, NoWorker, w} /\ (lock' # lock => lock \in {NoWorker, w})
    BY <1>8 DEF ReadBalance, tables
  <2>3. NeedsLock(w)' => lock' = w
    <3>1. CASE mem'[w] = [mem[w] EXCEPT !.step = "lock"]
      BY <3>1 DEF NeedsLock, TypeOK, WorkerStates
    <3>2. CASE /\ mem'[w] = [mem[w] EXCEPT !.step = "check", !.amount = balance]
               /\ ~(balance >= Amount[mem[w].txn])
      <4>1. mem[w].txn \in Txns /\ Amount[mem[w].txn] \in Nat /\ balance \in Int
        BY <1>8 DEF ReadBalance, At, MemShape, MemFits, TypeOK, TablesOK
      <4>2. balance < Amount[mem[w].txn]
        BY <3>2, <4>1
      <4>3. mem'[w].op = "charge" /\ mem'[w].txn = mem[w].txn /\ mem'[w].amount = balance
        BY <1>8, <3>2 DEF ReadBalance, At, TypeOK, WorkerStates
      <4> QED BY <4>2, <4>3 DEF NeedsLock, Partial
    <3> QED BY <1>8, <3>1, <3>2 DEF ReadBalance, tables, TypeOK
  <2> QED BY <2>1, <2>2, <2>3, OthersKeepLock
<1>9. ASSUME NEW w \in Workers, RecordArrears(w) PROVE LockKept'
  <2>1. \A v \in Workers \ {w} : mem'[v] = mem[v]
    BY <1>9 DEF RecordArrears, Finish, TypeOK
  <2>2. lock' \in {lock, NoWorker, w} /\ (lock' # lock => lock \in {NoWorker, w})
    BY <1>9 DEF RecordArrears, Finish
  <2>3. NeedsLock(w)' => lock' = w
    BY <1>9 DEF RecordArrears, Finish, NeedsLock, TypeOK, WorkerStates, MemShape, MemFits, At, Idle
  <2> QED BY <2>1, <2>2, <2>3, OthersKeepLock
<1>10. ASSUME NEW w \in Workers, CreditSurplus(w) PROVE LockKept'
  <2>1. \A v \in Workers \ {w} : mem'[v] = mem[v]
    BY <1>10 DEF CreditSurplus, Finish, TypeOK
  <2>2. lock' \in {lock, NoWorker, w} /\ (lock' # lock => lock \in {NoWorker, w})
    BY <1>10 DEF CreditSurplus, Finish
  <2>3. NeedsLock(w)' => lock' = w
    BY <1>10 DEF CreditSurplus, Finish, NeedsLock, TypeOK, WorkerStates, MemShape, MemFits, At, Idle
  <2> QED BY <2>1, <2>2, <2>3, OthersKeepLock
<1>11. ASSUME NEW w \in Workers, ListStuck(w) PROVE LockKept'
  <2>1. \A v \in Workers \ {w} : mem'[v] = mem[v]
    BY <1>11 DEF ListStuck, tables, TypeOK
  <2>2. lock' \in {lock, NoWorker, w} /\ (lock' # lock => lock \in {NoWorker, w})
    BY <1>11 DEF ListStuck, tables
  <2>3. NeedsLock(w)' => lock' = w
    BY <1>11 DEF ListStuck, tables, NeedsLock, TypeOK, WorkerStates, MemShape, MemFits, At, Idle
  <2> QED BY <2>1, <2>2, <2>3, OthersKeepLock
<1>12. ASSUME NEW w \in Workers, NEW t \in Txns, SaveFailed(w, t) PROVE LockKept'
  <2>1. \A v \in Workers \ {w} : mem'[v] = mem[v]
    BY <1>12 DEF SaveFailed, TypeOK
  <2>2. lock' \in {lock, NoWorker, w} /\ (lock' # lock => lock \in {NoWorker, w})
    BY <1>12 DEF SaveFailed
  <2>3. NeedsLock(w)' => lock' = w
    BY <1>12 DEF SaveFailed, NeedsLock, TypeOK, WorkerStates, MemShape, MemFits, At, Idle
  <2> QED BY <2>1, <2>2, <2>3, OthersKeepLock
<1>13. ASSUME NEW w \in Workers, LockWallet(w) PROVE LockKept'
  <2>1. \A v \in Workers \ {w} : mem'[v] = mem[v]
    BY <1>13 DEF LockWallet, Goto, tables, TypeOK
  <2>2. lock' \in {lock, NoWorker, w} /\ (lock' # lock => lock \in {NoWorker, w})
    BY <1>13 DEF LockWallet, Goto, tables
  <2>3. NeedsLock(w)' => lock' = w
    BY <1>13 DEF LockWallet, Goto, tables, NeedsLock, TypeOK, WorkerStates, MemShape, MemFits, At, Idle
  <2> QED BY <2>1, <2>2, <2>3, OthersKeepLock
<1>14. ASSUME NEW w \in Workers, Abort(w) PROVE LockKept'
  <2>1. \A v \in Workers \ {w} : mem'[v] = mem[v]
    BY <1>14 DEF Abort, Rollback, Finish, tables, TypeOK
  <2>2. lock' \in {lock, NoWorker, w} /\ (lock' # lock => lock \in {NoWorker, w})
    BY <1>14 DEF Abort, Rollback, Finish, tables
  <2>3. NeedsLock(w)' => lock' = w
    BY <1>14 DEF Abort, Rollback, Finish, tables, NeedsLock, TypeOK, WorkerStates, MemShape, MemFits, At, Idle
  <2> QED BY <2>1, <2>2, <2>3, OthersKeepLock
<1>15. ASSUME NEW t \in Txns, CreatePayment(t) PROVE LockKept'
  BY <1>15 DEF CreatePayment, LockKept, NeedsLock, Partial
<1>16. ASSUME NEW t \in Txns, GatewayAnswers(t) PROVE LockKept'
  BY <1>16 DEF GatewayAnswers, tables, LockKept, NeedsLock, Partial
<1>17. ASSUME NEW t \in Txns, ReceiveRefund(t) PROVE LockKept'
  BY <1>17 DEF ReceiveRefund, tables, LockKept, NeedsLock, Partial
<1>18. ASSUME NEW t \in Txns, CreditRefund(t) PROVE LockKept'
  BY <1>18 DEF CreditRefund, LockKept, NeedsLock, Partial
<1>19. ASSUME NEW t \in Txns, NEW u \in Txns, RefundTransaction(t, u) PROVE LockKept'
  BY <1>19 DEF RefundTransaction, LockKept, NeedsLock, Partial
<1>20. CASE UNCHANGED vars
  BY <1>20 DEF vars, tables, LockKept, NeedsLock, Partial
<1> QED
  BY <1>1, <1>2, <1>3, <1>4, <1>5, <1>6, <1>7, <1>8, <1>9, <1>10, <1>11, <1>12, <1>13, <1>14, <1>15, <1>16, <1>17, <1>18, <1>19, <1>20
     DEF Next, Callback, WalletPay, Settle, Reconcile

-----------------------------------------------------------------------------
(* Rows of the tables.                                                     *)

\* Nothing happened to a row, but that its event was marked, another copy of
\* it was saved or VNPay answered.
SameRow(t) ==
  /\ txns'[t] = txns[t] /\ announced'[t] = announced[t]
  /\ t \in invoices' <=> t \in invoices
  /\ t \in ledger' <=> t \in ledger
  /\ t \in seen => t \in seen'
  /\ t \in raced => t \in raced'
  /\ answer'[t] = answer[t]

\* A row to which nothing happened agrees with itself.
LEMMA SameRowAgrees ==
  ASSUME NEW t \in Txns, RowAgrees(t), SameRow(t)
  PROVE  RowAgrees(t)'
BY DEF SameRow, RowAgrees, ByGateway

\* A step that keeps all rows but one has to care about that one.
LEMMA OneRow ==
  ASSUME RowsAgree, NEW t \in Txns, \A u \in Txns \ {t} : SameRow(u), RowAgrees(t)'
  PROVE  RowsAgree'
BY SameRowAgrees DEF RowsAgree

\* A step that keeps all rows.
LEMMA NoRow ==
  ASSUME RowsAgree, \A u \in Txns : SameRow(u)
  PROVE  RowsAgree'
BY SameRowAgrees DEF RowsAgree

\* Every step keeps the tables in agreement.
LEMMA NextRowsAgree == TypeOK /\ MemShape /\ NewRows /\ RowsAgree /\ CopiesPending /\ [Next]_vars => RowsAgree'
<1> SUFFICES ASSUME TypeOK, MemShape, NewRows, RowsAgree, CopiesPending, [Next]_vars PROVE RowsAgree'
  OBVIOUS
<1> USE ConstantsAssumption
<1>1. ASSUME NEW w \in Workers, NEW t \in Txns, ReceiveCallback(w, t) PROVE RowsAgree'
  <2>1. \A u \in Txns : SameRow(u)
    BY <1>1 DEF ReceiveCallback, tables, SameRow
  <2> QED BY <2>1, NoRow
<1>2. ASSUME NEW w \in Workers, LoadTransaction(w) PROVE RowsAgree'
  <2>1. \A u \in Txns : SameRow(u)
    BY <1>2 DEF LoadTransaction, Rollback, Finish, Goto, tables, SameRow
  <2> QED BY <2>1, NoRow
<1>3. ASSUME NEW w \in Workers, CommitCallback(w) PROVE RowsAgree'
  <2>1. PICK t \in Txns : t = mem[w].txn
    BY <1>3 DEF CommitCallback, At, Debiting, MemShape, MemFits, ByGateway
  <2>2. t \in ByGateway /\ RowAgrees(t) /\ answer[t] # "none"
    BY <1>3, <2>1 DEF CommitCallback, At, MemShape, MemFits, ByGateway, RowsAgree
  <2>3. \A u \in Txns \ {t} : SameRow(u)
    BY <1>3, <2>1 DEF CommitCallback, Rollback, Finish, tables, TypeOK, TablesOK, SameRow, RacedWith
  <2>4. CASE UNCHANGED <<tables, answer, seen, raced>>
    BY <2>4, NoRow DEF tables, SameRow
  <2>5. CASE ~UNCHANGED <<tables, answer, seen, raced>>
    <3>1. t \notin raced => t \notin invoices
      BY <1>3, <2>1, <2>2 DEF CommitCallback, At, CopiesPending, Held, RowAgrees
    <3>2. /\ txns'[t] = (IF answer[t] = "success" THEN "completed" ELSE "failed")
          /\ invoices' = (IF answer[t] = "success" THEN invoices \cup {t} ELSE invoices)
          /\ ledger' = (IF Credits(t) THEN ledger \cup {t} ELSE ledger)
          /\ announced'[t] = (IF answer[t] = "success" THEN announced[t] + 1 ELSE announced[t])
          /\ answer' = answer /\ raced \subseteq raced'
          /\ answer[t] = "success" => t \notin invoices
      BY <1>3, <2>1, <2>5 DEF CommitCallback, Rollback, Finish, tables, TypeOK, TablesOK, InvoiceExists, RacedWith
    <3>3. RowAgrees(t)'
      BY <2>2, <3>1, <3>2 DEF RowAgrees, ByGateway, Credits
    <3> QED BY <2>3, <3>3, OneRow
  <2> QED BY <2>4, <2>5
<1>4. ASSUME NEW w \in Workers, NEW t \in Txns, RequestWalletPay(w, t) PROVE RowsAgree'
  <2>1. \A u \in Txns : SameRow(u)
    BY <1>4 DEF RequestWalletPay, tables, SameRow
  <2> QED BY <2>1, NoRow
<1>5. ASSUME NEW w \in Workers, CheckDebit(w) PROVE RowsAgree'
  <2>1. \A u \in Txns : SameRow(u)
    BY <1>5 DEF CheckDebit, Rollback, Finish, Goto, tables, SameRow
  <2> QED BY <2>1, NoRow
<1>6. ASSUME NEW w \in Workers, CommitDebit(w) PROVE RowsAgree'
  <2>1. PICK t \in Txns : t = mem[w].txn
    BY <1>6 DEF CommitDebit, At, Debiting, MemShape, MemFits, ByGateway
  <2>2. RowAgrees(t) /\ txns[t] = "absent" /\ announced[t] = 0 /\ t \notin ByGateway
    BY <1>6, <2>1 DEF CommitDebit, At, Debiting, MemShape, MemFits, NewRows, ByGateway, RowsAgree
  <2>3. \A u \in Txns \ {t} : SameRow(u)
    BY <1>6, <2>1 DEF CommitDebit, Finish, TypeOK, TablesOK, SameRow, RacedWith
  <2>4. RowAgrees(t)'
    BY <1>6, <2>1, <2>2 DEF CommitDebit, Finish, TypeOK, TablesOK, MemShape, MemFits, RowAgrees, ByGateway, At, Debiting
  <2> QED BY <2>3, <2>4, OneRow
<1>7. ASSUME NEW w \in Workers, NEW t \in Txns, SessionCompleted(w, t) PROVE RowsAgree'
  <2>1. RowAgrees(t)
    BY DEF RowsAgree
  <2>2. \A u \in Txns \ {t} : SameRow(u)
    BY <1>7 DEF SessionCompleted, tables, TypeOK, TablesOK, SameRow, RacedWith
  <2>3. RowAgrees(t)'
    BY <1>7, <2>1 DEF SessionCompleted, tables, TypeOK, TablesOK, MemShape, MemFits, RowAgrees, ByGateway, At
  <2> QED BY <2>2, <2>3, OneRow
<1>8. ASSUME NEW w \in Workers, ReadBalance(w) PROVE RowsAgree'
  <2>1. \A u \in Txns : SameRow(u)
    BY <1>8 DEF ReadBalance, tables, SameRow
  <2> QED BY <2>1, NoRow
<1>9. ASSUME NEW w \in Workers, RecordArrears(w) PROVE RowsAgree'
  <2>1. PICK t \in Txns : t = mem[w].txn
    BY <1>9 DEF RecordArrears, At, Debiting, MemShape, MemFits, ByGateway
  <2>2. RowAgrees(t) /\ txns[t] = "absent" /\ announced[t] = 0 /\ t \notin ByGateway
    BY <1>9, <2>1 DEF RecordArrears, At, Debiting, MemShape, MemFits, NewRows, ByGateway, RowsAgree
  <2>3. \A u \in Txns \ {t} : SameRow(u)
    BY <1>9, <2>1 DEF RecordArrears, Finish, TypeOK, TablesOK, SameRow, RacedWith
  <2>4. RowAgrees(t)'
    BY <1>9, <2>1, <2>2 DEF RecordArrears, Finish, TypeOK, TablesOK, MemShape, MemFits, RowAgrees, ByGateway, At, Debiting
  <2> QED BY <2>3, <2>4, OneRow
<1>10. ASSUME NEW w \in Workers, CreditSurplus(w) PROVE RowsAgree'
  <2>1. PICK t \in Txns : t = mem[w].txn
    BY <1>10 DEF CreditSurplus, At, Debiting, MemShape, MemFits, ByGateway
  <2>2. RowAgrees(t) /\ txns[t] = "absent" /\ announced[t] = 0 /\ t \notin ByGateway
    BY <1>10, <2>1 DEF CreditSurplus, At, Debiting, MemShape, MemFits, NewRows, ByGateway, RowsAgree
  <2>3. \A u \in Txns \ {t} : SameRow(u)
    BY <1>10, <2>1 DEF CreditSurplus, Finish, TypeOK, TablesOK, SameRow, RacedWith
  <2>4. RowAgrees(t)'
    BY <1>10, <2>1, <2>2 DEF CreditSurplus, Finish, TypeOK, TablesOK, MemShape, MemFits, RowAgrees, ByGateway, At, Debiting
  <2> QED BY <2>3, <2>4, OneRow
<1>11. ASSUME NEW w \in Workers, ListStuck(w) PROVE RowsAgree'
  <2>1. \A u \in Txns : SameRow(u)
    BY <1>11 DEF ListStuck, tables, SameRow
  <2> QED BY <2>1, NoRow
<1>12. ASSUME NEW w \in Workers, NEW t \in Txns, SaveFailed(w, t) PROVE RowsAgree'
  <2>1. RowAgrees(t) /\ t \in ByGateway
    BY <1>12 DEF SaveFailed, At, MemShape, MemFits, RowsAgree
  <2>2. \A u \in Txns \ {t} : SameRow(u)
    BY <1>12 DEF SaveFailed, TypeOK, TablesOK, SameRow, RacedWith
  <2>3. t \notin raced => t \notin invoices
    BY <1>12, <2>1 DEF SaveFailed, At, CopiesPending, Held, RowAgrees
  <2>4. txns'[t] = "failed" /\ raced \subseteq raced' /\ UNCHANGED <<invoices, ledger, announced, answer>>
    BY <1>12 DEF SaveFailed, TypeOK, TablesOK, RacedWith
  <2>5. RowAgrees(t)'
    BY <2>1, <2>3, <2>4 DEF RowAgrees, ByGateway
  <2> QED BY <2>2, <2>5, OneRow
<1>13. ASSUME NEW w \in Workers, LockWallet(w) PROVE RowsAgree'
  <2>1. \A u \in Txns : SameRow(u)
    BY <1>13 DEF LockWallet, Goto, tables, SameRow
  <2> QED BY <2>1, NoRow
<1>14. ASSUME NEW w \in Workers, Abort(w) PROVE RowsAgree'
  <2>1. \A u \in Txns : SameRow(u)
    BY <1>14 DEF Abort, Rollback, Finish, tables, SameRow
  <2> QED BY <2>1, NoRow
<1>15. ASSUME NEW t \in Txns, CreatePayment(t) PROVE RowsAgree'
  <2>1. RowAgrees(t)
    BY DEF RowsAgree
  <2>2. \A u \in Txns \ {t} : SameRow(u)
    BY <1>15 DEF CreatePayment, TypeOK, TablesOK, SameRow, RacedWith
  <2>3. RowAgrees(t)'
    BY <1>15, <2>1 DEF CreatePayment, TypeOK, TablesOK, MemShape, MemFits, RowAgrees, ByGateway, At
  <2> QED BY <2>2, <2>3, OneRow
<1>16. ASSUME NEW t \in Txns, GatewayAnswers(t) PROVE RowsAgree'
  <2>1. RowAgrees(t)
    BY DEF RowsAgree
  <2>2. \A u \in Txns \ {t} : SameRow(u)
    BY <1>16 DEF GatewayAnswers, tables, TypeOK, TablesOK, SameRow, RacedWith
  <2>3. RowAgrees(t)'
    BY <1>16, <2>1 DEF GatewayAnswers, tables, TypeOK, TablesOK, MemShape, MemFits, RowAgrees, ByGateway, At
  <2> QED BY <2>2, <2>3, OneRow
<1>17. ASSUME NEW t \in Txns, ReceiveRefund(t) PROVE RowsAgree'
  <2>1. RowAgrees(t)
    BY DEF RowsAgree
  <2>2. \A u \in Txns \ {t} : SameRow(u)
    BY <1>17 DEF ReceiveRefund, tables, TypeOK, TablesOK, SameRow, RacedWith
  <2>3. RowAgrees(t)'
    BY <1>17, <2>1 DEF ReceiveRefund, tables, TypeOK, TablesOK, MemShape, MemFits, RowAgrees, ByGateway, At
  <2> QED BY <2>2, <2>3, OneRow
<1>18. ASSUME NEW t \in Txns, CreditRefund(t) PROVE RowsAgree'
  <2>1. RowAgrees(t)
    BY DEF RowsAgree
  <2>2. \A u \in Txns \ {t} : SameRow(u)
    BY <1>18 DEF CreditRefund, TypeOK, TablesOK, SameRow, RacedWith
  <2>3. RowAgrees(t)'
    BY <1>18, <2>1 DEF CreditRefund, TypeOK, TablesOK, MemShape, MemFits, RowAgrees, ByGateway, At
  <2> QED BY <2>2, <2>3, OneRow
<1>19. ASSUME NEW t \in Txns, NEW u \in Txns, RefundTransaction(t, u) PROVE RowsAgree'
  <2>1. RowAgrees(t)
    BY DEF RowsAgree
  <2>2. \A r \in Txns \ {t} : SameRow(r)
    BY <1>19 DEF RefundTransaction, TypeOK, TablesOK, SameRow, RacedWith
  <2>3. RowAgrees(t)'
    BY <1>19, <2>1 DEF RefundTransaction, TypeOK, TablesOK, MemShape, MemFits, RowAgrees, ByGateway, At
  <2> QED BY <2>2, <2>3, OneRow
<1>20. CASE UNCHANGED vars
  BY <1>20 DEF vars, tables, RowsAgree, RowAgrees
<1> QED
  BY <1>1, <1>2, <1>3, <1>4, <1>5, <1>6, <1>7, <1>8, <1>9, <1>10, <1>11, <1>12, <1>13, <1>14, <1>15, <1>16, <1>17, <1>18, <1>19, <1>20
     DEF Next, Callback, WalletPay, Settle, Reconcile

-----------------------------------------------------------------------------
(* Copies in memory.                                                       *)

\* A worker that holds no more rows than before, and writes at most one row that
\* is then marked as raced, pending or held by nobody, keeps the copies current.
LEMMA CopiesKept ==
  ASSUME MemShape, CopiesPending, NEW w \in Workers,
         \A v \in Workers \ {w} : Held(v)' = Held(v),
         \A u \in Held(w)' : u \in Held(w) /\ txns'[u] = txns[u],
         \A u \in ByGateway : \/ txns'[u] = txns[u]
                              \/ u \in raced'
                              \/ \A v \in Workers \ {w} : u \notin Held(v),
         raced \subseteq raced'
  PROVE  CopiesPending'
<1> SUFFICES ASSUME NEW v \in Workers, NEW u \in Held(v)', u \notin raced' PROVE txns'[u] = "pending"
  BY DEF CopiesPending
<1>1. u \in Held(v) /\ u \notin raced
  OBVIOUS
<1>2. txns[u] = "pending"
  BY <1>1 DEF CopiesPending
<1>3. u \in ByGateway
  BY <1>1 DEF MemShape, MemFits, Held
<1> QED BY <1>1, <1>2, <1>3

\* Every step keeps the copies current, or the row is marked as raced.
LEMMA NextCopiesPending ==
  TypeOK /\ MemShape /\ NewRows /\ RowsAgree /\ CopiesPending /\ [Next]_vars => CopiesPending'
<1> SUFFICES ASSUME TypeOK, MemShape, NewRows, RowsAgree, CopiesPending, [Next]_vars PROVE CopiesPending'
  OBVIOUS
<1> USE ConstantsAssumption
<1>1. ASSUME NEW w \in Workers, NEW t \in Txns, ReceiveCallback(w, t) PROVE CopiesPending'
  <2>1. \A v \in Workers \ {w} : Held(v)' = Held(v)
    BY <1>1 DEF ReceiveCallback, tables, TypeOK, Held
  <2>2. \A u \in Held(w)' : u \in Held(w) /\ txns'[u] = txns[u]
    BY <1>1 DEF ReceiveCallback, tables, Held, Idle, IsIdle, TypeOK, WorkerStates, MemShape, MemFits, At
  <2>3. \A u \in ByGateway : txns'[u] = txns[u]
    BY <1>1 DEF ReceiveCallback, tables
  <2>4. raced \subseteq raced'
    BY <1>1 DEF ReceiveCallback, tables
  <2> QED BY <2>1, <2>2, <2>3, <2>4, CopiesKept
<1>2. ASSUME NEW w \in Workers, LoadTransaction(w) PROVE CopiesPending'
  <2>1. \A v \in Workers \ {w} : mem'[v] = mem[v]
    BY <1>2 DEF LoadTransaction, Rollback, Finish, Goto, tables, TypeOK
  <2>2. txns' = txns /\ raced' = raced
    BY <1>2 DEF LoadTransaction, Rollback, Finish, Goto, tables
  <2>3. \A u \in Held(w)' : txns[u] = "pending"
    <3>1. CASE mem'[w] = Idle
      BY <3>1 DEF Held, Idle
    <3>2. CASE ~IsFinal(mem[w].txn) /\ mem'[w].op = "callback" /\ mem'[w].txn = mem[w].txn
      <4>1. mem[w].txn \in ByGateway /\ mem[w].txn \in Txns /\ answer[mem[w].txn] # "none"
        BY <1>2 DEF LoadTransaction, At, MemShape, MemFits, ByGateway
      <4>2. txns[mem[w].txn] = "pending"
        BY <3>2, <4>1 DEF IsFinal, RowsAgree, RowAgrees, TypeOK, TablesOK, Statuses
      <4>3. mem'[w].list = {}
        BY <1>2 DEF LoadTransaction, Rollback, Finish, Goto, tables, At, MemShape, MemFits, TypeOK, WorkerStates, Idle
      <4> QED BY <3>2, <4>2, <4>3 DEF Held
    <3> QED BY <1>2, <3>1, <3>2 DEF LoadTransaction, Rollback, Finish, Goto, tables, At, TypeOK, WorkerStates
  <2>4. \A v \in Workers \ {w} : Held(v)' = Held(v)
    BY <2>1 DEF Held
  <2> QED BY <2>2, <2>3, <2>4 DEF CopiesPending
<1>3. ASSUME NEW w \in Workers, CommitCallback(w) PROVE CopiesPending'
  <2>1. \A v \in Workers \ {w} : Held(v)' = Held(v)
    BY <1>3 DEF CommitCallback, Rollback, Finish, tables, TypeOK, Held
  <2>2. \A u \in Held(w)' : u \in Held(w) /\ txns'[u] = txns[u]
    BY <1>3 DEF CommitCallback, Rollback, Finish, tables, Held, Idle, TypeOK
  <2>3. \A u \in ByGateway : \/ txns'[u] = txns[u]
                             \/ u \in raced'
                             \/ \A v \in Workers \ {w} : u \notin Held(v)
    BY <1>3 DEF CommitCallback, Rollback, Finish, tables, RacedWith, TypeOK, TablesOK, ByGateway
  <2>4. raced \subseteq raced'
    BY <1>3 DEF CommitCallback, Rollback, Finish, tables, RacedWith
  <2> QED BY <2>1, <2>2, <2>3, <2>4, CopiesKept
<1>4. ASSUME NEW w \in Workers, NEW t \in Txns, RequestWalletPay(w, t) PROVE CopiesPending'
  <2>1. \A v \in Workers \ {w} : Held(v)' = Held(v)
    BY <1>4 DEF RequestWalletPay, tables, TypeOK, Held
  <2>2. \A u \in Held(w)' : u \in Held(w) /\ txns'[u] = txns[u]
    BY <1>4 DEF RequestWalletPay, tables, Held, Idle, IsIdle, TypeOK, WorkerStates, MemShape, MemFits, At
  <2>3. \A u \in ByGateway : txns'[u] = txns[u]
    BY <1>4 DEF RequestWalletPay, tables
  <2>4. raced \subseteq raced'
    BY <1>4 DEF RequestWalletPay, tables
  <2> QED BY <2>1, <2>2, <2>3, <2>4, CopiesKept
<1>5. ASSUME NEW w \in Workers, CheckDebit(w) PROVE CopiesPending'
  <2>1. \A v \in Workers \ {w} : Held(v)' = Held(v)
    BY <1>5 DEF CheckDebit, Rollback, Finish, Goto, tables, TypeOK, Held
  <2>2. \A u \in Held(w)' : u \in Held(w) /\ txns'[u] = txns[u]
    BY <1>5 DEF CheckDebit, Rollback, Finish, Goto, tables, Held, Idle, IsIdle, TypeOK, WorkerStates, MemShape, MemFits, At
  <2>3. \A u \in ByGateway : txns'[u] = txns[u]
    BY <1>5 DEF CheckDebit, Rollback, Finish, Goto, tables
  <2>4. raced \subseteq raced'
    BY <1>5 DEF CheckDebit, Rollback, Finish, Goto, tables
  <2> QED BY <2>1, <2>2, <2>3, <2>4, CopiesKept
<1>6. ASSUME NEW w \in Workers, CommitDebit(w) PROVE CopiesPending'
  <2>1. \A v \in Workers \ {w} : Held(v)' = Held(v)
    BY <1>6 DEF CommitDebit, Finish, TypeOK, Held
  <2>2. \A u \in Held(w)' : u \in Held(w) /\ txns'[u] = txns[u]
    BY <1>6 DEF CommitDebit, Finish, Held, Idle, TypeOK
  <2>0. mem[w].txn \notin ByGateway
    BY <1>6 DEF CommitDebit, At, Debiting, MemShape, MemFits, ByGateway
  <2>3. \A u \in ByGateway : txns'[u] = txns[u]
    BY <1>6, <2>0 DEF CommitDebit, Finish, TypeOK, TablesOK, ByGateway
  <2>4. raced \subseteq raced'
    BY <1>6 DEF CommitDebit, Finish
  <2> QED BY <2>1, <2>2, <2>3, <2>4, CopiesKept
<1>7. ASSUME NEW w \in Workers, NEW t \in Txns, SessionCompleted(w, t) PROVE CopiesPending'
  <2>1. \A v \in Workers \ {w} : Held(v)' = Held(v)
    BY <1>7 DEF SessionCompleted, tables, TypeOK, Held
  <2>2. \A u \in Held(w)' : u \in Held(w) /\ txns'[u] = txns[u]
    BY <1>7 DEF SessionCompleted, tables, Held, Idle, IsIdle, TypeOK, WorkerStates, MemShape, MemFits, At
  <2>3. \A u \in ByGateway : txns'[u] = txns[u]
    BY <1>7 DEF SessionCompleted, tables
  <2>4. raced \subseteq raced'
    BY <1>7 DEF SessionCompleted, tables
  <2> QED BY <2>1, <2>2, <2>3, <2>4, CopiesKept
<1>8. ASSUME NEW w \in Workers, ReadBalance(w) PROVE CopiesPending'
  <2>1. \A v \in Workers \ {w} : Held(v)' = Held(v)
    BY <1>8 DEF ReadBalance, tables, TypeOK, Held
  <2>2. \A u \in Held(w)' : u \in Held(w) /\ txns'[u] = txns[u]
    BY <1>8 DEF ReadBalance, tables, Held, Idle, IsIdle, TypeOK, WorkerStates, MemShape, MemFits, At
  <2>3. \A u \in ByGateway : txns'[u] = txns[u]
    BY <1>8 DEF ReadBalance, tables
  <2>4. raced \subseteq raced'
    BY <1>8 DEF ReadBalance, tables
  <2> QED BY <2>1, <2>2, <2>3, <2>4, CopiesKept
<1>9. ASSUME NEW w \in Workers, RecordArrears(w) PROVE CopiesPending'
  <2>1. \A v \in Workers \ {w} : Held(v)' = Held(v)
    BY <1>9 DEF RecordArrears, Finish, TypeOK, Held
  <2>2. \A u \in Held(w)' : u \in Held(w) /\ txns'[u] = txns[u]
    BY <1>9 DEF RecordArrears, Finish, Held, Idle, TypeOK
  <2>0. mem[w].txn \notin ByGateway
    BY <1>9 DEF RecordArrears, At, Debiting, MemShape, MemFits, ByGateway
  <2>3. \A u \in ByGateway : txns'[u] = txns[u]
    BY <1>9, <2>0 DEF RecordArrears, Finish, TypeOK, TablesOK, ByGateway
  <2>4. raced \subseteq raced'
    BY <1>9 DEF RecordArrears, Finish
  <2> QED BY <2>1, <2>2, <2>3, <2>4, CopiesKept
<1>10. ASSUME NEW w \in Workers, CreditSurplus(w) PROVE CopiesPending'
  <2>1. \A v \in Workers \ {w} : Held(v)' = Held(v)
    BY <1>10 DEF CreditSurplus, Finish, TypeOK, Held
  <2>2. \A u \in Held(w)' : u \in Held(w) /\ txns'[u] = txns[u]
    BY <1>10 DEF CreditSurplus, Finish, Held, Idle, TypeOK
  <2>0. mem[w].txn \notin ByGateway
    BY <1>10 DEF CreditSurplus, At, Debiting, MemShape, MemFits, ByGateway
  <2>3. \A u \in ByGateway : txns'[u] = txns[u]
    BY <1>10, <2>0 DEF CreditSurplus, Finish, TypeOK, TablesOK, ByGateway
  <2>4. raced \subseteq raced'
    BY <1>10 DEF CreditSurplus, Finish
  <2> QED BY <2>1, <2>2, <2>3, <2>4, CopiesKept
<1>11. ASSUME NEW w \in Workers, ListStuck(w) PROVE CopiesPending'
  <2>1. \A v \in Workers \ {w} : Held(v)' = Held(v)
    BY <1>11 DEF ListStuck, tables, TypeOK, Held
  <2>2. txns' = txns /\ raced' = raced
    BY <1>11 DEF ListStuck, tables
  <2>3. \A u \in Held(w)' : txns[u] = "pending"
    BY <1>11 DEF ListStuck, tables, Stuck, Held, Idle, TypeOK
  <2> QED BY <2>1, <2>2, <2>3 DEF CopiesPending
<1>12. ASSUME NEW w \in Workers, NEW t \in Txns, SaveFailed(w, t) PROVE CopiesPending'
  <2>1. \A v \in Workers \ {w} : Held(v)' = Held(v)
    BY <1>12 DEF SaveFailed, TypeOK, Held
  <2>2. \A u \in Held(w)' : u \in Held(w) /\ txns'[u] = txns[u]
    BY <1>12 DEF SaveFailed, Held, Idle, TypeOK, TablesOK, WorkerStates, At
  <2>3. \A u \in ByGateway : \/ txns'[u] = txns[u]
                             \/ u \in raced'
                             \/ \A v \in Workers \ {w} : u \notin Held(v)
    BY <1>12 DEF SaveFailed, RacedWith, TypeOK, TablesOK, ByGateway
  <2>4. raced \subseteq raced'
    BY <1>12 DEF SaveFailed, RacedWith
  <2> QED BY <2>1, <2>2, <2>3, <2>4, CopiesKept
<1>13. ASSUME NEW w \in Workers, LockWallet(w) PROVE CopiesPending'
  <2>1. \A v \in Workers \ {w} : Held(v)' = Held(v)
    BY <1>13 DEF LockWallet, Goto, tables, TypeOK, Held
  <2>2. \A u \in Held(w)' : u \in Held(w) /\ txns'[u] = txns[u]
    BY <1>13 DEF LockWallet, Goto, tables, Held, Idle, IsIdle, TypeOK, WorkerStates, MemShape, MemFits, At
  <2>3. \A u \in ByGateway : txns'[u] = txns[u]
    BY <1>13 DEF LockWallet, Goto, tables
  <2>4. raced \subseteq raced'
    BY <1>13 DEF LockWallet, Goto, tables
  <2> QED BY <2>1, <2>2, <2>3, <2>4, CopiesKept
<1>14. ASSUME NEW w \in Workers, Abort(w) PROVE CopiesPending'
  <2>1. \A v \in Workers \ {w} : Held(v)' = Held(v)
    BY <1>14 DEF Abort, Rollback, Finish, tables, TypeOK, Held
  <2>2. \A u \in Held(w)' : u \in Held(w) /\ txns'[u] = txns[u]
    BY <1>14 DEF Abort, Rollback, Finish, tables, Held, Idle, IsIdle, TypeOK, WorkerStates, MemShape, MemFits, At
  <2>3. \A u \in ByGateway : txns'[u] = txns[u]
    BY <1>14 DEF Abort, Rollback, Finish, tables
  <2>4. raced \subseteq raced'
    BY <1>14 DEF Abort, Rollback, Finish, tables
  <2> QED BY <2>1, <2>2, <2>3, <2>4, CopiesKept
<1>15. ASSUME NEW t \in Txns, CreatePayment(t) PROVE CopiesPending'
  <2>1. \A u \in ByGateway : txns'[u] = txns[u] \/ txns'[u] = "pending"
    BY <1>15 DEF CreatePayment, TypeOK, TablesOK, ByGateway
  <2>2. mem' = mem /\ raced' = raced
    BY <1>15 DEF CreatePayment
  <2> QED BY <2>1, <2>2 DEF CopiesPending, Held, MemShape, MemFits
<1>16. ASSUME NEW t \in Txns, GatewayAnswers(t) PROVE CopiesPending'
  BY <1>16 DEF GatewayAnswers, tables, CopiesPending, Held
<1>17. ASSUME NEW t \in Txns, ReceiveRefund(t) PROVE CopiesPending'
  BY <1>17 DEF ReceiveRefund, tables, CopiesPending, Held
<1>18. ASSUME NEW t \in Txns, CreditRefund(t) PROVE CopiesPending'
  <2>1. \A u \in ByGateway : txns'[u] = txns[u] \/ txns'[u] = "pending"
    BY <1>18 DEF CreditRefund, TypeOK, TablesOK, ByGateway
  <2>2. mem' = mem /\ raced' = raced
    BY <1>18 DEF CreditRefund
  <2> QED BY <2>1, <2>2 DEF CopiesPending, Held, MemShape, MemFits
<1>19. ASSUME NEW t \in Txns, NEW u \in Txns, RefundTransaction(t, u) PROVE CopiesPending'
  <2>1. \A r \in ByGateway : txns'[r] = txns[r] \/ txns'[r] = "pending"
    BY <1>19 DEF RefundTransaction, TypeOK, TablesOK, ByGateway
  <2>2. mem' = mem /\ raced' = raced
    BY <1>19 DEF RefundTransaction
  <2> QED BY <2>1, <2>2 DEF CopiesPending, Held, MemShape, MemFits
<1>20. CASE UNCHANGED vars
  BY <1>20 DEF vars, tables, CopiesPending, Held
<1> QED
  BY <1>1, <1>2, <1>3, <1>4, <1>5, <1>6, <1>7, <1>8, <1>9, <1>10, <1>11, <1>12, <1>13, <1>14, <1>15, <1>16, <1>17, <1>18, <1>19, <1>20
     DEF Next, Callback, WalletPay, Settle, Reconcile

-----------------------------------------------------------------------------
(* The invariant.                                                          *)

\* The invariant holds in every state.
LEMMA IInvCorrect == Spec => []IInv
<1>1. Init => IInv
  <2> SUFFICES ASSUME Init PROVE IInv
    OBVIOUS
  <2>1. TypeOK
    BY InitTypeOK
  <2>2. MemShape
    BY ConstantsAssumption DEF Init, MemShape, MemFits, Idle
  <2>3. NewRows /\ LockKept /\ CopiesPending
    BY DEF Init, NewRows, LockKept, NeedsLock, CopiesPending, Held, Idle
  <2>4. ASSUME NEW t \in Txns PROVE RowAgrees(t)
    <3>1. /\ txns[t] = "absent" /\ answer[t] = "none" /\ announced[t] = 0
          /\ t \notin seen /\ t \notin invoices /\ t \notin ledger
      BY DEF Init
    <3> QED BY <3>1 DEF RowAgrees
  <2> QED BY <2>1, <2>2, <2>3, <2>4 DEF IInv, RowsAgree
<1>2. IInv /\ [Next]_vars => IInv'
  BY NextTypeOK, NextMemShape, NextNewRows, NextLockKept, NextRowsAgree, NextCopiesPending DEF IInv
<1> QED BY <1>1, <1>2, PTL DEF Spec

\* In every behaviour of the service the tables and the workers have their
\* types, and the wallet is locked by nobody or by a worker in a transaction.
THEOREM TypeCorrect == Spec => []TypeOK
BY IInvCorrect, PTL DEF IInv

\* payment.completed is announced at most once for each transaction.
THEOREM AnnouncedOnceCorrect == Spec => []AnnouncedOnce
<1>1. IInv => AnnouncedOnce
  <2> SUFFICES ASSUME IInv, NEW t \in Txns PROVE announced[t] <= 1
    BY DEF AnnouncedOnce
  <2>1. RowAgrees(t) /\ Kind[t] \in Kinds
    BY ConstantsAssumption DEF IInv, RowsAgree
  <2> QED BY <2>1 DEF RowAgrees, ByGateway, Kinds
<1> QED BY <1>1, IInvCorrect, PTL

\* Invoices, ledger and events match the status of every row that was not raced.
THEOREM MoneyMatchesStatusCorrect == Spec => []MoneyMatchesStatus
<1>1. IInv => MoneyMatchesStatus
  <2> SUFFICES ASSUME IInv, NEW t \in Txns \ raced
               PROVE  /\ Kind[t] \in {"gateway", "topup", "wallet"} =>
                           /\ txns[t] = "completed" <=> t \in invoices
                           /\ txns[t] = "completed" <=> announced[t] > 0
                      /\ Kind[t] = "gateway" => t \notin ledger
                      /\ Kind[t] \notin {"gateway", "reversal"} => (txns[t] = "completed" <=> t \in ledger)
    BY DEF MoneyMatchesStatus
  <2>1. RowAgrees(t)
    BY DEF IInv, RowsAgree
  <2>2. CASE t \in ByGateway
    <3>1. /\ announced[t] = (IF t \in invoices THEN 1 ELSE 0)
          /\ t \in ledger <=> t \in invoices /\ Kind[t] = "topup"
          /\ txns[t] = "completed" <=> t \in invoices
      BY <2>1, <2>2 DEF RowAgrees
    <3>2. t \in invoices <=> announced[t] > 0
      BY <3>1
    <3> QED BY <2>2, <3>1, <3>2 DEF ByGateway
  <2>3. CASE t \notin ByGateway
    BY <2>1, <2>3 DEF RowAgrees, ByGateway
  <2> QED BY <2>2, <2>3
<1> QED BY <1>1, IInvCorrect, PTL

-----------------------------------------------------------------------------
(* What depends on the order of the debits.                                *)

\* Two workers that must hold the lock are one.
LEMMA OneLocks ==
  ASSUME LockKept, NEW u \in Workers, NEW v \in Workers, NeedsLock(u), NeedsLock(v)
  PROVE  u = v
BY DEF LockKept

\* WalletPay always needs the lock.
LEMMA PayLocks ==
  ASSUME NEW w \in Workers, mem[w].op = "pay", mem[w].step \in {"check", "commit"}
  PROVE  NeedsLock(w)
BY DEF NeedsLock, Partial

\* A step other than the commit of a wallet payment completes no such payment.
LEMMA OnlyPayCompletes ==
  ASSUME IInv, NEW t \in Txns, Kind[t] = "wallet", txns'[t] = "completed", txns[t] # "completed", [Next]_vars
  PROVE  \E w \in Workers : At(w, "pay", "commit") /\ mem[w].txn = t /\ CommitDebit(w)
<1> USE ConstantsAssumption
<1>0. TypeOK /\ MemShape /\ t \notin ByGateway
  BY DEF IInv, ByGateway
<1>1. ASSUME NEW w \in Workers, NEW u \in Txns, ReceiveCallback(w, u) PROVE FALSE
  BY <1>0, <1>1 DEF ReceiveCallback, tables, ByGateway, TypeOK, TablesOK
<1>2. ASSUME NEW w \in Workers, LoadTransaction(w) PROVE FALSE
  BY <1>0, <1>2 DEF LoadTransaction, Rollback, Finish, Goto, tables, ByGateway, TypeOK, TablesOK
<1>3. ASSUME NEW w \in Workers, CommitCallback(w) PROVE FALSE
  BY <1>0, <1>3 DEF CommitCallback, Rollback, Finish, tables, At, MemShape, MemFits, TypeOK, TablesOK
<1>4. ASSUME NEW w \in Workers, NEW u \in Txns, RequestWalletPay(w, u) PROVE FALSE
  BY <1>0, <1>4 DEF RequestWalletPay, tables, ByGateway, TypeOK, TablesOK
<1>5. ASSUME NEW w \in Workers, CheckDebit(w) PROVE FALSE
  BY <1>0, <1>5 DEF CheckDebit, Rollback, Finish, Goto, tables, ByGateway, TypeOK, TablesOK
<1>6. ASSUME NEW w \in Workers, CommitDebit(w) PROVE At(w, "pay", "commit") /\ mem[w].txn = t
  BY <1>0, <1>6 DEF CommitDebit, Finish, Debiting, At, MemShape, MemFits, TypeOK, TablesOK
<1>7. ASSUME NEW w \in Workers, NEW u \in Txns, SessionCompleted(w, u) PROVE FALSE
  BY <1>0, <1>7 DEF SessionCompleted, tables, ByGateway, TypeOK, TablesOK
<1>8. ASSUME NEW w \in Workers, ReadBalance(w) PROVE FALSE
  BY <1>0, <1>8 DEF ReadBalance, tables, ByGateway, TypeOK, TablesOK
<1>9. ASSUME NEW w \in Workers, RecordArrears(w) PROVE FALSE
  BY <1>0, <1>9 DEF RecordArrears, Finish, ByGateway, TypeOK, TablesOK
<1>10. ASSUME NEW w \in Workers, CreditSurplus(w) PROVE FALSE
  BY <1>0, <1>10 DEF CreditSurplus, Finish, At, MemShape, MemFits, TypeOK, TablesOK
<1>11. ASSUME NEW w \in Workers, ListStuck(w) PROVE FALSE
  BY <1>0, <1>11 DEF ListStuck, tables, ByGateway, TypeOK, TablesOK
<1>12. ASSUME NEW w \in Workers, NEW u \in Txns, SaveFailed(w, u) PROVE FALSE
  BY <1>0, <1>12 DEF SaveFailed, ByGateway, TypeOK, TablesOK
<1>13. ASSUME NEW w \in Workers, LockWallet(w) PROVE FALSE
  BY <1>0, <1>13 DEF LockWallet, Goto, tables, ByGateway, TypeOK, TablesOK
<1>14. ASSUME NEW w \in Workers, Abort(w) PROVE FALSE
  BY <1>0, <1>14 DEF Abort, Rollback, Finish, tables, ByGateway, TypeOK, TablesOK
<1>15. ASSUME NEW u \in Txns, CreatePayment(u) PROVE FALSE
  BY <1>0, <1>15 DEF CreatePayment, ByGateway, TypeOK, TablesOK
<1>16. ASSUME NEW u \in Txns, GatewayAnswers(u) PROVE FALSE
  BY <1>0, <1>16 DEF GatewayAnswers, tables, ByGateway, TypeOK, TablesOK
<1>17. ASSUME NEW u \in Txns, ReceiveRefund(u) PROVE FALSE
  BY <1>0, <1>17 DEF ReceiveRefund, tables, ByGateway, TypeOK, TablesOK
<1>18. ASSUME NEW u \in Txns, CreditRefund(u) PROVE FALSE
  BY <1>0, <1>18 DEF CreditRefund, ByGateway, TypeOK, TablesOK
<1>19. ASSUME NEW u \in Txns, NEW v \in Txns, RefundTransaction(u, v) PROVE FALSE
  BY <1>0, <1>19 DEF RefundTransaction, ByGateway, TypeOK, TablesOK
<1>20. CASE UNCHANGED vars
  BY <1>20 DEF vars, tables
<1> QED
  BY <1>1, <1>2, <1>3, <1>4, <1>5, <1>6, <1>7, <1>8, <1>9, <1>10, <1>11, <1>12, <1>13, <1>14, <1>15, <1>16, <1>17, <1>18, <1>19, <1>20
     DEF Next, Callback, WalletPay, Settle, Reconcile

\* A worker about to write a debit was so before, or it has just checked it.
LEMMA WhoDebits ==
  ASSUME IInv, [Next]_vars, NEW w \in Workers, Debiting(w)'
  PROVE  \/ mem'[w] = mem[w]
         \/ CheckDebit(w) /\ mem'[w] = [mem[w] EXCEPT !.step = "commit"] /\ UNCHANGED tables
<1> USE ConstantsAssumption
<1>0. TypeOK /\ MemShape
  BY DEF IInv
<1>1. ASSUME NEW v \in Workers, NEW t \in Txns, ReceiveCallback(v, t) PROVE mem'[w] = mem[w]
  <2>1. CASE v # w
    BY <1>0, <1>1, <2>1 DEF ReceiveCallback, tables, TypeOK
  <2>2. CASE v = w
    BY <1>0, <1>1, <2>2 DEF ReceiveCallback, tables, Debiting, Idle, TypeOK, WorkerStates, MemShape, MemFits, At
  <2> QED BY <2>1, <2>2
<1>2. ASSUME NEW v \in Workers, LoadTransaction(v) PROVE mem'[w] = mem[w]
  <2>1. CASE v # w
    BY <1>0, <1>2, <2>1 DEF LoadTransaction, Rollback, Finish, Goto, tables, TypeOK
  <2>2. CASE v = w
    BY <1>0, <1>2, <2>2 DEF LoadTransaction, Rollback, Finish, Goto, tables, Debiting, Idle, TypeOK, WorkerStates, MemShape, MemFits, At
  <2> QED BY <2>1, <2>2
<1>3. ASSUME NEW v \in Workers, CommitCallback(v) PROVE mem'[w] = mem[w]
  <2>1. CASE v # w
    BY <1>0, <1>3, <2>1 DEF CommitCallback, Rollback, Finish, tables, TypeOK
  <2>2. CASE v = w
    BY <1>0, <1>3, <2>2 DEF CommitCallback, Rollback, Finish, tables, Debiting, Idle, TypeOK, WorkerStates, MemShape, MemFits, At
  <2> QED BY <2>1, <2>2
<1>4. ASSUME NEW v \in Workers, NEW t \in Txns, RequestWalletPay(v, t) PROVE mem'[w] = mem[w]
  <2>1. CASE v # w
    BY <1>0, <1>4, <2>1 DEF RequestWalletPay, tables, TypeOK
  <2>2. CASE v = w
    BY <1>0, <1>4, <2>2 DEF RequestWalletPay, tables, Debiting, Idle, TypeOK, WorkerStates, MemShape, MemFits, At
  <2> QED BY <2>1, <2>2
<1>5. ASSUME NEW v \in Workers, CheckDebit(v) PROVE mem'[w] # mem[w] => CheckDebit(w) /\ mem'[w] = [mem[w] EXCEPT !.step = "commit"] /\ UNCHANGED tables
  <2>1. CASE v # w
    BY <1>0, <1>5, <2>1 DEF CheckDebit, Rollback, Finish, Goto, tables, TypeOK
  <2>2. CASE v = w /\ mem'[w] = Idle
    BY <2>2 DEF Debiting, Idle
  <2>3. CASE v = w /\ mem'[w] # Idle
    <3>1. CheckDebit(w)
      BY <1>5, <2>3
    <3>2. mem'[w] = [mem[w] EXCEPT !.step = "commit"] /\ UNCHANGED tables
      BY <1>0, <1>5, <2>3 DEF CheckDebit, Rollback, Finish, Goto, TypeOK
    <3> QED BY <3>1, <3>2
  <2> QED BY <2>1, <2>2, <2>3
<1>6. ASSUME NEW v \in Workers, CommitDebit(v) PROVE mem'[w] = mem[w]
  <2>1. CASE v # w
    BY <1>0, <1>6, <2>1 DEF CommitDebit, Finish, TypeOK
  <2>2. CASE v = w
    BY <1>0, <1>6, <2>2 DEF CommitDebit, Finish, Debiting, Idle, TypeOK, WorkerStates, MemShape, MemFits, At
  <2> QED BY <2>1, <2>2
<1>7. ASSUME NEW v \in Workers, NEW t \in Txns, SessionCompleted(v, t) PROVE mem'[w] = mem[w]
  <2>1. CASE v # w
    BY <1>0, <1>7, <2>1 DEF SessionCompleted, tables, TypeOK
  <2>2. CASE v = w
    BY <1>0, <1>7, <2>2 DEF SessionCompleted, tables, Debiting, Idle, TypeOK, WorkerStates, MemShape, MemFits, At
  <2> QED BY <2>1, <2>2
<1>8. ASSUME NEW v \in Workers, ReadBalance(v) PROVE mem'[w] = mem[w]
  <2>1. CASE v # w
    BY <1>0, <1>8, <2>1 DEF ReadBalance, tables, TypeOK
  <2>2. CASE v = w
    BY <1>0, <1>8, <2>2 DEF ReadBalance, tables, Debiting, Idle, TypeOK, WorkerStates, MemShape, MemFits, At
  <2> QED BY <2>1, <2>2
<1>9. ASSUME NEW v \in Workers, RecordArrears(v) PROVE mem'[w] = mem[w]
  <2>1. CASE v # w
    BY <1>0, <1>9, <2>1 DEF RecordArrears, Finish, TypeOK
  <2>2. CASE v = w
    BY <1>0, <1>9, <2>2 DEF RecordArrears, Finish, Debiting, Idle, TypeOK, WorkerStates, MemShape, MemFits, At
  <2> QED BY <2>1, <2>2
<1>10. ASSUME NEW v \in Workers, CreditSurplus(v) PROVE mem'[w] = mem[w]
  <2>1. CASE v # w
    BY <1>0, <1>10, <2>1 DEF CreditSurplus, Finish, TypeOK
  <2>2. CASE v = w
    BY <1>0, <1>10, <2>2 DEF CreditSurplus, Finish, Debiting, Idle, TypeOK, WorkerStates, MemShape, MemFits, At
  <2> QED BY <2>1, <2>2
<1>11. ASSUME NEW v \in Workers, ListStuck(v) PROVE mem'[w] = mem[w]
  <2>1. CASE v # w
    BY <1>0, <1>11, <2>1 DEF ListStuck, tables, TypeOK
  <2>2. CASE v = w
    BY <1>0, <1>11, <2>2 DEF ListStuck, tables, Debiting, Idle, TypeOK, WorkerStates, MemShape, MemFits, At
  <2> QED BY <2>1, <2>2
<1>12. ASSUME NEW v \in Workers, NEW t \in Txns, SaveFailed(v, t) PROVE mem'[w] = mem[w]
  <2>1. CASE v # w
    BY <1>0, <1>12, <2>1 DEF SaveFailed, TypeOK
  <2>2. CASE v = w
    BY <1>0, <1>12, <2>2 DEF SaveFailed, Debiting, Idle, TypeOK, WorkerStates, MemShape, MemFits, At
  <2> QED BY <2>1, <2>2
<1>13. ASSUME NEW v \in Workers, LockWallet(v) PROVE mem'[w] = mem[w]
  <2>1. CASE v # w
    BY <1>0, <1>13, <2>1 DEF LockWallet, Goto, tables, TypeOK
  <2>2. CASE v = w
    BY <1>0, <1>13, <2>2 DEF LockWallet, Goto, tables, Debiting, Idle, TypeOK, WorkerStates, MemShape, MemFits, At
  <2> QED BY <2>1, <2>2
<1>14. ASSUME NEW v \in Workers, Abort(v) PROVE mem'[w] = mem[w]
  <2>1. CASE v # w
    BY <1>0, <1>14, <2>1 DEF Abort, Rollback, Finish, tables, TypeOK
  <2>2. CASE v = w
    BY <1>0, <1>14, <2>2 DEF Abort, Rollback, Finish, tables, Debiting, Idle, TypeOK, WorkerStates, MemShape, MemFits, At
  <2> QED BY <2>1, <2>2
<1>15. ASSUME NEW t \in Txns, CreatePayment(t) PROVE mem'[w] = mem[w]
  BY <1>15 DEF CreatePayment
<1>16. ASSUME NEW t \in Txns, GatewayAnswers(t) PROVE mem'[w] = mem[w]
  BY <1>16 DEF GatewayAnswers, tables
<1>17. ASSUME NEW t \in Txns, ReceiveRefund(t) PROVE mem'[w] = mem[w]
  BY <1>17 DEF ReceiveRefund, tables
<1>18. ASSUME NEW t \in Txns, CreditRefund(t) PROVE mem'[w] = mem[w]
  BY <1>18 DEF CreditRefund
<1>19. ASSUME NEW t \in Txns, NEW u \in Txns, RefundTransaction(t, u) PROVE mem'[w] = mem[w]
  BY <1>19 DEF RefundTransaction
<1>20. ASSUME UNCHANGED vars PROVE mem'[w] = mem[w]
  BY <1>20 DEF vars
<1> QED
  BY <1>1, <1>2, <1>3, <1>4, <1>5, <1>6, <1>7, <1>8, <1>9, <1>10, <1>11, <1>12, <1>13, <1>14, <1>15, <1>16, <1>17, <1>18, <1>19, <1>20
     DEF Next, Callback, WalletPay, Settle, Reconcile

\* Only a debit takes money, and no step forgets a debit that met another one.
LEMMA WhoTakesMoney ==
  ASSUME IInv, [Next]_vars
  PROVE  /\ unlocked \subseteq unlocked'
         /\ balance' >= balance \/ \E w \in Workers : CommitDebit(w)
<1> USE ConstantsAssumption
<1> DEFINE Goal ==
         /\ unlocked \subseteq unlocked'
         /\ balance' >= balance \/ \E w \in Workers : CommitDebit(w)
<1>0. MemShape /\ balance \in Int
  BY DEF IInv, TypeOK, TablesOK
<1>1. ASSUME NEW v \in Workers, NEW t \in Txns, ReceiveCallback(v, t) PROVE Goal
  BY <1>0, <1>1 DEF ReceiveCallback, tables
<1>2. ASSUME NEW v \in Workers, LoadTransaction(v) PROVE Goal
  BY <1>0, <1>2 DEF LoadTransaction, Rollback, Finish, Goto, tables
<1>3. ASSUME NEW v \in Workers, CommitCallback(v) PROVE Goal
  <2>1. mem[v].txn \in Txns
    BY <1>0, <1>3 DEF CommitCallback, At, MemShape, MemFits, ByGateway
  <2> QED BY <1>0, <1>3, <2>1 DEF CommitCallback, Rollback, Finish, tables
<1>4. ASSUME NEW v \in Workers, NEW t \in Txns, RequestWalletPay(v, t) PROVE Goal
  BY <1>0, <1>4 DEF RequestWalletPay, tables
<1>5. ASSUME NEW v \in Workers, CheckDebit(v) PROVE Goal
  BY <1>0, <1>5 DEF CheckDebit, Rollback, Finish, Goto, tables
<1>6. ASSUME NEW v \in Workers, CommitDebit(v) PROVE Goal
  BY <1>6 DEF CommitDebit, Unlocked
<1>7. ASSUME NEW v \in Workers, NEW t \in Txns, SessionCompleted(v, t) PROVE Goal
  BY <1>0, <1>7 DEF SessionCompleted, tables
<1>8. ASSUME NEW v \in Workers, ReadBalance(v) PROVE Goal
  BY <1>0, <1>8 DEF ReadBalance, tables
<1>9. ASSUME NEW v \in Workers, RecordArrears(v) PROVE Goal
  BY <1>0, <1>9 DEF RecordArrears, Finish
<1>10. ASSUME NEW v \in Workers, CreditSurplus(v) PROVE Goal
  <2>1. mem[v].txn \in Txns
    BY <1>0, <1>10 DEF CreditSurplus, At, MemShape, MemFits, ByGateway
  <2> QED BY <1>0, <1>10, <2>1 DEF CreditSurplus, Finish
<1>11. ASSUME NEW v \in Workers, ListStuck(v) PROVE Goal
  BY <1>0, <1>11 DEF ListStuck, tables
<1>12. ASSUME NEW v \in Workers, NEW t \in Txns, SaveFailed(v, t) PROVE Goal
  BY <1>0, <1>12 DEF SaveFailed
<1>13. ASSUME NEW v \in Workers, LockWallet(v) PROVE Goal
  BY <1>0, <1>13 DEF LockWallet, Goto, tables
<1>14. ASSUME NEW v \in Workers, Abort(v) PROVE Goal
  BY <1>0, <1>14 DEF Abort, Rollback, Finish, tables
<1>15. ASSUME NEW t \in Txns, CreatePayment(t) PROVE Goal
  BY <1>0, <1>15 DEF CreatePayment
<1>16. ASSUME NEW t \in Txns, GatewayAnswers(t) PROVE Goal
  BY <1>0, <1>16 DEF GatewayAnswers, tables
<1>17. ASSUME NEW t \in Txns, ReceiveRefund(t) PROVE Goal
  BY <1>0, <1>17 DEF ReceiveRefund, tables
<1>18. ASSUME NEW t \in Txns, CreditRefund(t) PROVE Goal
  BY <1>0, <1>18 DEF CreditRefund
<1>19. ASSUME NEW t \in Txns, NEW u \in Txns, RefundTransaction(t, u) PROVE Goal
  BY <1>0, <1>19 DEF RefundTransaction
<1>20. CASE UNCHANGED vars
  BY <1>0, <1>20 DEF vars, tables
<1> QED
  BY <1>1, <1>2, <1>3, <1>4, <1>5, <1>6, <1>7, <1>8, <1>9, <1>10, <1>11, <1>12, <1>13, <1>14, <1>15, <1>16, <1>17, <1>18, <1>19, <1>20
     DEF Next, Callback, WalletPay, Settle, Reconcile

\* What WalletPay checked under the lock is still so when it commits.
LEMMA NextCheckedUnpaid == IInv /\ CheckedUnpaid /\ [Next]_vars => CheckedUnpaid'
<1> SUFFICES ASSUME IInv, CheckedUnpaid, [Next]_vars, NEW w \in Workers, At(w, "pay", "commit")',
                    NEW u \in Txns, Kind[u] = "wallet", Related[u] = Related[mem'[w].txn],
                    txns'[u] = "completed"
             PROVE  FALSE
  BY DEF CheckedUnpaid
<1>1. Debiting(w)'
  BY DEF Debiting, At
<1>2. CASE mem'[w] = mem[w]
  <2>1. At(w, "pay", "commit") /\ txns[u] # "completed"
    BY <1>2 DEF At, CheckedUnpaid
  <2>2. PICK x \in Workers : At(x, "pay", "commit") /\ mem[x].txn = u /\ CommitDebit(x)
    BY <2>1, OnlyPayCompletes
  <2>3. x = w
    BY <2>1, <2>2, PayLocks, OneLocks DEF At, IInv
  <2>4. mem'[w] = Idle
    BY <2>2, <2>3 DEF CommitDebit, Finish, IInv, TypeOK
  <2> QED BY <1>2, <2>1, <2>4 DEF At, Idle
<1>3. CASE CheckDebit(w) /\ mem'[w] = [mem[w] EXCEPT !.step = "commit"] /\ UNCHANGED tables
  <2>1. mem'[w].op = mem[w].op /\ mem'[w].txn = mem[w].txn /\ mem'[w] # Idle
    BY <1>3 DEF IInv, TypeOK, WorkerStates, Idle
  <2>2. ~AlreadyPaid(mem[w].txn)
    BY <1>3, <2>1 DEF CheckDebit, Rollback, Finish, At, IInv, TypeOK
  <2> QED BY <1>3, <2>1, <2>2 DEF AlreadyPaid, tables
<1> QED BY <1>1, <1>2, <1>3, WhoDebits

\* The balance goes on covering the debits that have read it.
LEMMA NextCovered == IInv /\ Covered /\ [Next]_vars => Covered'
<1> SUFFICES ASSUME IInv, Covered, [Next]_vars, unlocked' = {}
             PROVE  /\ balance' >= 0
                    /\ \A w \in Workers : Debiting(w)' => balance' >= mem'[w].amount
  BY DEF Covered, Debiting
<1>1. /\ unlocked = {} /\ balance \in Int /\ balance >= 0
      /\ \A w \in Workers : Debiting(w) => balance >= mem[w].amount
  BY WhoTakesMoney DEF Covered, IInv, TypeOK, TablesOK
<1>2. \A w \in Workers : mem[w].amount \in Nat /\ mem'[w].amount \in Nat
  BY NextTypeOK DEF IInv, TypeOK, WorkerStates
<1>3. CASE \E w \in Workers : CommitDebit(w)
  <2>1. PICK x \in Workers : CommitDebit(x)
    BY <1>3
  <2>2. Debiting(x) /\ balance' = balance - mem[x].amount /\ mem'[x] = Idle
    BY <2>1 DEF CommitDebit, Finish, IInv, TypeOK
  <2>3. ASSUME NEW w \in Workers, Debiting(w)' PROVE FALSE
    <3>1. w # x
      BY <2>2, <2>3 DEF Debiting, Idle
    <3>2. mem'[w] = mem[w] /\ Debiting(w)
      BY <2>1, <2>3, <3>1 DEF CommitDebit, Finish, IInv, TypeOK, Debiting
    <3>3. ~Partial(w) /\ ~Partial(x)
      BY <2>1, <3>1, <3>2 DEF CommitDebit, Unlocked
    <3>4. NeedsLock(w) /\ NeedsLock(x)
      BY <2>2, <3>2, <3>3 DEF NeedsLock, Debiting
    <3> QED BY <3>1, <3>4, OneLocks DEF IInv
  <2> QED BY <1>1, <1>2, <2>2, <2>3
<1>4. CASE balance' >= balance
  <2>0. balance' \in Int
    BY NextTypeOK DEF IInv, TypeOK, TablesOK
  <2>1. ASSUME NEW w \in Workers, Debiting(w)' PROVE balance' >= mem'[w].amount
    <3>1. CASE mem'[w] = mem[w]
      <4>1. balance >= mem[w].amount
        BY <1>1, <2>1, <3>1 DEF Debiting
      <4> QED BY <1>1, <1>2, <1>4, <2>0, <3>1, <4>1
    <3>2. CASE CheckDebit(w) /\ mem'[w] = [mem[w] EXCEPT !.step = "commit"] /\ UNCHANGED tables
      <4>1. mem'[w].amount = mem[w].amount /\ mem'[w] # Idle /\ balance' = balance
        BY <3>2 DEF IInv, TypeOK, WorkerStates, Idle, tables
      <4>2. ~(balance < mem[w].amount)
        BY <3>2, <4>1 DEF CheckDebit, Rollback, Finish, IInv, TypeOK
      <4> QED BY <1>1, <1>2, <4>1, <4>2
    <3> QED BY <2>1, <3>1, <3>2, WhoDebits
  <2> QED BY <1>1, <1>4, <2>0, <2>1
<1> QED BY <1>3, <1>4, WhoTakesMoney

\* Two wallet payments of one booking are never both completed: the check is made
\* under the lock that the payment keeps until it commits.
THEOREM WalletPaysOnceCorrect == Spec => []WalletPaysOnce
<1>1. Init => CheckedUnpaid /\ WalletPaysOnce
  BY DEF Init, CheckedUnpaid, At, Idle, WalletPaysOnce
<1>2. IInv /\ CheckedUnpaid /\ WalletPaysOnce /\ [Next]_vars => WalletPaysOnce'
  <2> SUFFICES ASSUME IInv, CheckedUnpaid, WalletPaysOnce, [Next]_vars, NEW t \in Txns, NEW u \in Txns,
                      Kind[t] = "wallet", txns'[t] = "completed",
                      Kind[u] = "wallet", txns'[u] = "completed", Related[t] = Related[u]
               PROVE  t = u
    BY DEF WalletPaysOnce
  <2>1. ASSUME NEW x \in Txns, NEW y \in Txns, Kind[x] = "wallet", Kind[y] = "wallet",
               Related[x] = Related[y], txns'[x] = "completed", txns[x] # "completed", txns[y] = "completed"
        PROVE  FALSE
    BY <2>1, OnlyPayCompletes DEF CheckedUnpaid
  <2>2. CASE txns[t] = "completed" /\ txns[u] = "completed"
    BY <2>2 DEF WalletPaysOnce
  <2>3. CASE txns[t] # "completed" /\ txns[u] # "completed"
    <3>1. PICK x \in Workers : At(x, "pay", "commit") /\ mem[x].txn = t /\ CommitDebit(x)
      BY <2>3, OnlyPayCompletes
    <3>2. txns' = [txns EXCEPT ![t] = "completed"]
      BY <3>1 DEF CommitDebit
    <3> QED BY <2>3, <3>2 DEF IInv, TypeOK, TablesOK
  <2> QED BY <2>1, <2>2, <2>3
<1> QED BY <1>1, <1>2, IInvCorrect, NextCheckedUnpaid, PTL DEF Spec

\* The wallet is never overdrawn by debits that lock it, nor by a partial charge
\* that meets no other debit.
THEOREM OverdrawnOnlyIfUnlockedCorrect == Spec => []OverdrawnOnlyIfUnlocked
<1>1. Init => Covered
  BY ConstantsAssumption DEF Init, Covered, Debiting, Idle
<1>2. IInv /\ Covered => OverdrawnOnlyIfUnlocked
  BY DEF Covered, OverdrawnOnlyIfUnlocked, IInv, TypeOK, TablesOK
<1> QED BY <1>1, <1>2, IInvCorrect, NextCovered, PTL DEF Spec

\* A terminal row that no two workers hold is left alone by every step.
LEMMA TerminalStays ==
  ASSUME IInv, [Next]_vars, NEW r \in Txns \ raced', txns[r] \in Terminal
  PROVE  txns'[r] = txns[r]
<1> USE ConstantsAssumption
<1> DEFINE Goal == txns'[r] = txns[r]
<1>0. TypeOK /\ MemShape /\ NewRows /\ CopiesPending /\ txns[r] \notin {"absent", "pending"}
  BY DEF IInv, Terminal
<1>1. ASSUME NEW v \in Workers, NEW t \in Txns, ReceiveCallback(v, t) PROVE Goal
  BY <1>0, <1>1 DEF ReceiveCallback, tables, TypeOK, TablesOK
<1>2. ASSUME NEW v \in Workers, LoadTransaction(v) PROVE Goal
  BY <1>0, <1>2 DEF LoadTransaction, Rollback, Finish, Goto, tables, TypeOK, TablesOK
<1>3. ASSUME NEW v \in Workers, CommitCallback(v) PROVE Goal
  <2>1. CASE UNCHANGED tables
    BY <2>1 DEF tables
  <2>2. CASE ~UNCHANGED tables
    <3>1. mem[v].txn \in Held(v) /\ raced \subseteq raced'
      BY <1>0, <1>3, <2>2 DEF CommitCallback, Rollback, Finish, tables, At, Held, RacedWith
    <3>2. mem[v].txn # r
      BY <1>0, <3>1 DEF CopiesPending
    <3> QED BY <1>0, <1>3, <2>2, <3>2 DEF CommitCallback, Rollback, Finish, tables, TypeOK, TablesOK
  <2> QED BY <2>1, <2>2
<1>4. ASSUME NEW v \in Workers, NEW t \in Txns, RequestWalletPay(v, t) PROVE Goal
  BY <1>0, <1>4 DEF RequestWalletPay, tables, TypeOK, TablesOK
<1>5. ASSUME NEW v \in Workers, CheckDebit(v) PROVE Goal
  BY <1>0, <1>5 DEF CheckDebit, Rollback, Finish, Goto, tables, TypeOK, TablesOK
<1>6. ASSUME NEW v \in Workers, CommitDebit(v) PROVE Goal
  <2>1. mem[v].txn # r
    BY <1>0, <1>6 DEF CommitDebit, At, Debiting, NewRows
  <2> QED BY <1>0, <1>6, <2>1 DEF CommitDebit, Finish, TypeOK, TablesOK
<1>7. ASSUME NEW v \in Workers, NEW t \in Txns, SessionCompleted(v, t) PROVE Goal
  BY <1>0, <1>7 DEF SessionCompleted, tables, TypeOK, TablesOK
<1>8. ASSUME NEW v \in Workers, ReadBalance(v) PROVE Goal
  BY <1>0, <1>8 DEF ReadBalance, tables, TypeOK, TablesOK
<1>9. ASSUME NEW v \in Workers, RecordArrears(v) PROVE Goal
  BY <1>0, <1>9 DEF RecordArrears, Finish, TypeOK, TablesOK
<1>10. ASSUME NEW v \in Workers, CreditSurplus(v) PROVE Goal
  <2>1. mem[v].txn # r
    BY <1>0, <1>10 DEF CreditSurplus, At, Debiting, NewRows
  <2> QED BY <1>0, <1>10, <2>1 DEF CreditSurplus, Finish, TypeOK, TablesOK
<1>11. ASSUME NEW v \in Workers, ListStuck(v) PROVE Goal
  BY <1>0, <1>11 DEF ListStuck, tables, TypeOK, TablesOK
<1>12. ASSUME NEW v \in Workers, NEW t \in Txns, SaveFailed(v, t) PROVE Goal
  <2>1. t \in Held(v) /\ raced \subseteq raced'
    BY <1>0, <1>12 DEF SaveFailed, At, Held, RacedWith, MemShape, MemFits
  <2>2. t # r
    BY <1>0, <2>1 DEF CopiesPending
  <2> QED BY <1>0, <1>12, <2>2 DEF SaveFailed, TypeOK, TablesOK
<1>13. ASSUME NEW v \in Workers, LockWallet(v) PROVE Goal
  BY <1>0, <1>13 DEF LockWallet, Goto, tables, TypeOK, TablesOK
<1>14. ASSUME NEW v \in Workers, Abort(v) PROVE Goal
  BY <1>0, <1>14 DEF Abort, Rollback, Finish, tables, TypeOK, TablesOK
<1>15. ASSUME NEW t \in Txns, CreatePayment(t) PROVE Goal
  BY <1>0, <1>15 DEF CreatePayment, TypeOK, TablesOK
<1>16. ASSUME NEW t \in Txns, GatewayAnswers(t) PROVE Goal
  BY <1>0, <1>16 DEF GatewayAnswers, tables, TypeOK, TablesOK
<1>17. ASSUME NEW t \in Txns, ReceiveRefund(t) PROVE Goal
  BY <1>0, <1>17 DEF ReceiveRefund, tables, TypeOK, TablesOK
<1>18. ASSUME NEW t \in Txns, CreditRefund(t) PROVE Goal
  BY <1>0, <1>18 DEF CreditRefund, TypeOK, TablesOK
<1>19. ASSUME NEW t \in Txns, NEW u \in Txns, RefundTransaction(t, u) PROVE Goal
  BY <1>0, <1>19 DEF RefundTransaction, TypeOK, TablesOK
<1>20. CASE UNCHANGED vars
  BY <1>20 DEF vars, tables
<1> QED
  BY <1>1, <1>2, <1>3, <1>4, <1>5, <1>6, <1>7, <1>8, <1>9, <1>10, <1>11, <1>12, <1>13, <1>14, <1>15, <1>16, <1>17, <1>18, <1>19, <1>20
     DEF Next, Callback, WalletPay, Settle, Reconcile

\* A completed, failed or cancelled transaction keeps its status for ever, unless
\* two workers held the row at once.
THEOREM TerminalIsFinalUnlessRacedCorrect == Spec => TerminalIsFinalUnlessRaced
<1>1. IInv /\ [Next]_vars => [\A t \in Txns \ raced' : txns[t] \in Terminal => txns'[t] = txns[t]]_vars
  BY TerminalStays
<1> QED BY <1>1, IInvCorrect, PTL DEF Spec, TerminalIsFinalUnlessRaced
=============================================================================
