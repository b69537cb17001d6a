-------------------------- MODULE Settlement_proofs --------------------------
(***************************************************************************)
(* Proofs about what is settled beside a session, for any number of them:  *)
(* its bill and the payment that closes it (SessionBilling), the debt of   *)
(* who could not pay (Arrears), who waits for the charger (VirtualQueue)   *)
(* and which charger and slots are suggested (SuggestCharger).  The loops  *)
(* of the heap and of the knapsack have invariants of their own, shown     *)
(* round by round.                                                         *)
(***************************************************************************)
EXTENDS MCSettlement, FiniteSetTheorems, FunctionTheorems, WellFoundedInduction, TLAPS
-----------------------------------------------------------------------------
(* How many.                                                               *)

LEMMA CountIsNat == ASSUME NEW S, IsFiniteSet(S) PROVE Cardinality(S) \in Nat
  BY FS_CardinalityType

\* A set that has nothing new has no more elements.
LEMMA CountLess ==
  ASSUME NEW S, NEW T, IsFiniteSet(S), T \subseteq S
  PROVE  IsFiniteSet(T) /\ Cardinality(T) <= Cardinality(S) /\ Cardinality(T) \in Nat
  BY FS_Subset, FS_CardinalityType

\* One that has one new element has at most one more.
LEMMA CountMore ==
  ASSUME NEW S, NEW T, NEW x, IsFiniteSet(S), T \subseteq S \cup {x}
  PROVE  IsFiniteSet(T) /\ Cardinality(T) <= Cardinality(S) + 1 /\ Cardinality(T) \in Nat
<1>1. Cardinality(S) \in Nat
  BY FS_CardinalityType
<1>2. IsFiniteSet(S \cup {x}) /\ Cardinality(S \cup {x}) \in {Cardinality(S), Cardinality(S) + 1}
  BY FS_AddElement
<1>3. IsFiniteSet(T) /\ Cardinality(T) <= Cardinality(S \cup {x}) /\ Cardinality(T) \in Nat
  BY <1>2, CountLess
<1> QED
  BY <1>1, <1>2, <1>3

\* One that has lost an element has one fewer.
LEMMA CountFewer ==
  ASSUME NEW S, NEW T, NEW x \in S, IsFiniteSet(S), T \subseteq S \ {x}
  PROVE  IsFiniteSet(T) /\ Cardinality(T) <= Cardinality(S) - 1 /\ Cardinality(T) \in Nat
<1>1. IsFiniteSet(S \ {x}) /\ Cardinality(S \ {x}) = Cardinality(S) - 1
  BY FS_RemoveElement
<1> QED
  BY <1>1, CountLess

-----------------------------------------------------------------------------
(* SessionBilling: what is announced, billed and paid.                     *)

NoticeRows == [at : {"none", "queued", "gone"}, kwh : 0 .. MaxMeter, idle : 0 .. MaxIdle]

BillerRows == [at : {"idle", "checked", "marked"}, stay : Stays \cup {NoStay}, n : Notices]

CloserRows == [at : {"idle", "checked", "read"}, stay : Stays \cup {NoStay}, of : {"none", "deposit", "bill"}]

ReaderRows == [stay : Stays \cup {NoStay}, meter : 0 .. MaxMeter]

StayTypes ==
  /\ stay \in [Stays -> {"active", "stopped", "interrupted", "completed"}]
  /\ meter \in [Stays -> 0 .. MaxMeter] /\ idle \in [Stays -> 0 .. MaxIdle]
  /\ notice \in [Stays -> [Notices -> NoticeRows]]
  /\ reader \in [Readers -> ReaderRows]
  /\ \A w \in Readers : reader[w].stay = NoStay => reader[w] = FreeReader
  /\ adjusted \cup raced \cup cutShort \cup byDeposit \subseteq Stays

BillerTypes ==
  /\ biller \in [Billers -> BillerRows]
  /\ \A w \in Billers :
       /\ biller[w].at = "idle" <=> biller[w].stay = NoStay
       /\ biller[w].at = "idle" => biller[w] = FreeBiller
  /\ bills \in [Stays -> Seq(Bills)]

CloserTypes ==
  /\ closer \in [Closers -> CloserRows]
  /\ \A w \in Closers :
       /\ closer[w].at = "idle" <=> closer[w].stay = NoStay
       /\ closer[w].at = "idle" => closer[w] = FreeCloser
       /\ closer[w].at # "idle" => closer[w].of \in {"deposit", "bill"}
  /\ receipts \in [Stays -> Nat] /\ deposit \in [Stays -> {"queued", "gone"}]

\* Those who may still bill a session, and those who have the payment of a bill.
Billing(s) == {w \in Billers : biller[w].stay = s}
Closing(s) == {w \in Closers : closer[w].stay = s /\ closer[w].of = "bill"}

UnmarkedIsUnbilled ==
  \A s \in Stays : <<s, 0>> \notin billKeys =>
    bills[s] = <<>> /\ \A w \in Billers : biller[w].stay = s => biller[w].at = "checked"

\* Bills made, and bills that may be: one, if no two notices were looked up at once.
BillsToCome ==
  \A s \in Stays :
    /\ Len(bills[s]) + Cardinality(Billing(s)) <= Cardinality(Billers)
    /\ s \notin raced => Len(bills[s]) + Cardinality(Billing(s)) <= 1
    /\ s \in Guests => bills[s] = <<>> /\ \A w \in Billers : biller[w].stay = s => biller[w].at = "checked"

\* Only what has ended is announced, looked up and billed.
AnnouncedHasEnded ==
  \A s \in Stays :
    \/ \E n \in Notices : notice[s][n].at # "none"
    \/ \E w \in Billers : biller[w].stay = s
    \/ bills[s] # <<>>
    => stay[s] # "active"

\* The payment of a bill waits until it is consumed, once for every bill.
PaymentWaits ==
  \A s \in Stays :
    /\ Cardinality(Closing(s)) <= receipts[s]
    /\ receipts[s] > 0 => bills[s] # <<>>
    /\ stay[s] = "stopped" /\ bills[s] # <<>> => receipts[s] > 0 \/ s \in cutShort \cup closeKeys
    /\ stay[s] = "completed" => bills[s] # <<>> \/ s \in byDeposit

BillingInv ==
  /\ StayTypes /\ BillerTypes /\ CloserTypes
  /\ UnmarkedIsUnbilled /\ BillsToCome /\ AnnouncedHasEnded /\ PaymentWaits

LEMMA WorkersAreFinite ==
  \A s : /\ IsFiniteSet(Billing(s)) /\ Cardinality(Billing(s)) \in Nat
         /\ IsFiniteSet(Closing(s)) /\ Cardinality(Closing(s)) \in Nat
         /\ Cardinality(Billing(s)) <= Cardinality(Billers) /\ Cardinality(Billers) \in Nat
  BY BillingAssumption, CountLess, CountIsNat DEF Billing, Closing

LEMMA FreeWorkersAreFree ==
  /\ FreeBiller \in BillerRows /\ FreeBiller.at = "idle" /\ FreeBiller.stay = NoStay
  /\ FreeCloser \in CloserRows /\ FreeCloser.at = "idle" /\ FreeCloser.stay = NoStay
  BY BillingAssumption DEF FreeBiller, FreeCloser, BillerRows, CloserRows, Notices

LEMMA BillingStarts == ASSUME BillingInit PROVE BillingInv
<1> USE BillingAssumption DEF BillingInit
<1>1. StayTypes
  BY DEF StayTypes, NoticeRows, ReaderRows, FreeReader, Unsent, Notices
<1>2. BillerTypes /\ CloserTypes
  BY FreeWorkersAreFree DEF BillerTypes, CloserTypes
<1>3. \A s \in Stays : Billing(s) = {} /\ Closing(s) = {}
  BY FreeWorkersAreFree DEF Billing, Closing
<1>4. \A s \in Stays : Cardinality(Billing(s)) = 0 /\ Cardinality(Closing(s)) = 0 /\ Len(bills[s]) = 0 /\ receipts[s] = 0
  BY <1>3, FS_EmptySet
<1>5. UnmarkedIsUnbilled /\ BillsToCome
  BY <1>4, WorkersAreFinite, FreeWorkersAreFree DEF UnmarkedIsUnbilled, BillsToCome
<1>6. AnnouncedHasEnded
  BY FreeWorkersAreFree DEF AnnouncedHasEnded, Unsent
<1>7. PaymentWaits
  BY <1>4 DEF PaymentWaits
<1> QED
  BY <1>1, <1>2, <1>5, <1>6, <1>7 DEF BillingInv

\* What happens to a session that no worker has a part in.
LEMMA SessionSide ==
  ASSUME BillingInv, StayTypes',
         UNCHANGED <<biller, bills, billKeys, receipts, deposit, closer, closeKeys, cutShort, byDeposit, raced>>,
         \A s \in Stays :
           \/ stay'[s] = stay[s]
           \/ stay[s] = "active" /\ stay'[s] = "stopped"
           \/ stay'[s] = "interrupted",
         \A s \in Stays, n \in Notices :
           notice'[s][n].at # "none" => notice[s][n].at # "none" \/ stay'[s] # "active"
  PROVE  BillingInv'
<1> USE DEF BillingInv
<1>1. \A s : Billing(s)' = Billing(s) /\ Closing(s)' = Closing(s)
  BY DEF Billing, Closing
<1>2. BillerTypes' /\ CloserTypes' /\ UnmarkedIsUnbilled'
  BY DEF BillerTypes, CloserTypes, UnmarkedIsUnbilled
<1>3. BillsToCome'
  BY <1>1 DEF BillsToCome
<1>4. AnnouncedHasEnded'
  BY DEF AnnouncedHasEnded
<1>5. PaymentWaits'
  BY <1>1 DEF PaymentWaits, AnnouncedHasEnded
<1> QED
  BY <1>2, <1>3, <1>4, <1>5

\* One notice says something else.
NoticeSays(s, n, row) == notice' = [notice EXCEPT ![s][n] = row]

LEMMA NoticeSaid ==
  ASSUME StayTypes, NEW s \in Stays, NEW n \in Notices, NEW row \in NoticeRows, NoticeSays(s, n, row)
  PROVE  /\ notice' \in [Stays -> [Notices -> NoticeRows]]
         /\ notice'[s][n] = row
         /\ \A t \in Stays, m \in Notices : (t # s \/ m # n) => notice'[t][m] = notice[t][m]
<1>1. notice[s] \in [Notices -> NoticeRows]
  BY DEF StayTypes
<1>2. [notice[s] EXCEPT ![n] = row] \in [Notices -> NoticeRows]
  BY <1>1
<1>3. notice' = [notice EXCEPT ![s] = [notice[s] EXCEPT ![n] = row]]
  BY DEF NoticeSays
<1>4. notice'[s] = [notice[s] EXCEPT ![n] = row] /\ \A t \in Stays : t # s => notice'[t] = notice[t]
  BY <1>3 DEF StayTypes
<1> QED
  BY <1>1, <1>2, <1>3, <1>4 DEF StayTypes

\* One notice is not delivered any more.
LEMMA NoticeGone ==
  ASSUME StayTypes, NEW s \in Stays, NEW n \in Notices,
         notice' = [notice EXCEPT ![s][n].at = "gone"]
  PROVE  /\ notice' \in [Stays -> [Notices -> NoticeRows]]
         /\ notice[s][n].at # "none" =>
              \A t \in Stays, m \in Notices : notice'[t][m].at # "none" => notice[t][m].at # "none"
         /\ \A t \in Stays, m \in Notices : t # s => notice'[t][m] = notice[t][m]
<1> DEFINE row == [notice[s][n] EXCEPT !.at = "gone"]
<1>0. notice[s][n] \in NoticeRows
  BY DEF StayTypes
<1>1. row \in NoticeRows
  BY <1>0 DEF NoticeRows
<1>2. NoticeSays(s, n, row)
  BY DEF NoticeSays
<1> HIDE DEF row
<1>3. /\ notice' \in [Stays -> [Notices -> NoticeRows]]
      /\ \A t \in Stays, m \in Notices : (t # s \/ m # n) => notice'[t][m] = notice[t][m]
  BY <1>1, <1>2, NoticeSaid
<1> QED
  BY <1>3

LEMMA SessionKeeps ==
  ASSUME BillingInv, NEW s \in Stays,
         \/ \E m \in 1 .. MaxMeter : Stop(s, m)
         \/ Interrupt(s) \/ AddIdleFee(s)
         \/ \E n \in Notices : ForceBill(s, n) \/ LoseNotice(s, n) \/ SkipNotice(s, n)
  PROVE  BillingInv'
<1> USE BillingAssumption DEF BillingInv
<1>1. ASSUME NEW m \in 1 .. MaxMeter, Stop(s, m) PROVE BillingInv'
  <2> DEFINE row == [at |-> "queued", kwh |-> m, idle |-> idle[s]]
  <2>0. idle[s] \in 0 .. MaxIdle /\ m \in 0 .. MaxMeter
    BY DEF StayTypes
  <2>1. 0 \in Notices /\ row \in NoticeRows /\ NoticeSays(s, 0, row)
    <3>1. 0 \in Notices
      BY DEF Notices
    <3>2. row \in NoticeRows
      BY <2>0 DEF NoticeRows
    <3>3. NoticeSays(s, 0, row)
      BY <1>1 DEF Stop, Say, NoticeSays
    <3> QED
      BY <3>1, <3>2, <3>3
  <2> HIDE DEF row
  <2>2. /\ notice' \in [Stays -> [Notices -> NoticeRows]]
        /\ \A t \in Stays, n \in Notices : (t # s \/ n # 0) => notice'[t][n] = notice[t][n]
    BY <2>1, NoticeSaid
  <2>3. StayTypes'
    <3>1. meter' \in [Stays -> 0 .. MaxMeter] /\ stay' \in [Stays -> {"active", "stopped", "interrupted", "completed"}]
      BY <1>1, <2>0 DEF Stop, StayTypes
    <3>2. UNCHANGED <<idle, reader, adjusted, raced, cutShort, byDeposit>>
      BY <1>1 DEF Stop
    <3> QED
      BY <2>2, <3>1, <3>2 DEF StayTypes
  <2>4. \A t \in Stays : stay'[t] = IF t = s THEN "stopped" ELSE stay[t]
    BY <1>1 DEF Stop, StayTypes
  <2> QED
    BY <1>1, <2>2, <2>3, <2>4, SessionSide DEF Stop
<1>2. ASSUME Interrupt(s) PROVE BillingInv'
  <2>1. StayTypes'
    BY <1>2 DEF Interrupt, StayTypes
  <2>2. \A t \in Stays : stay'[t] = IF t = s THEN "interrupted" ELSE stay[t]
    BY <1>2 DEF Interrupt, StayTypes
  <2> QED
    BY <1>2, <2>1, <2>2, SessionSide DEF Interrupt
<1>3. ASSUME AddIdleFee(s) PROVE BillingInv'
  <2>1. idle' \in [Stays -> 0 .. MaxIdle]
    BY <1>3 DEF AddIdleFee, StayTypes
  <2>2. StayTypes'
    BY <1>3, <2>1 DEF AddIdleFee, StayTypes
  <2> QED
    BY <1>3, <2>2, SessionSide DEF AddIdleFee
<1>4. ASSUME NEW n \in Notices, ForceBill(s, n) PROVE BillingInv'
  <2> DEFINE row == [at |-> "queued", kwh |-> meter[s], idle |-> idle[s]]
  <2>0. idle[s] \in 0 .. MaxIdle /\ meter[s] \in 0 .. MaxMeter
    BY DEF StayTypes
  <2>1. row \in NoticeRows /\ NoticeSays(s, n, row)
    BY <1>4, <2>0 DEF NoticeRows, ForceBill, Say, NoticeSays
  <2> HIDE DEF row
  <2>2. /\ notice' \in [Stays -> [Notices -> NoticeRows]]
        /\ \A t \in Stays, m \in Notices : (t # s \/ m # n) => notice'[t][m] = notice[t][m]
    BY <2>1, NoticeSaid
  <2>3. StayTypes'
    BY <1>4, <2>2 DEF ForceBill, StayTypes
  <2>4. stay[s] = "stopped" /\ stay' = stay
    BY <1>4 DEF ForceBill
  <2> QED
    BY <1>4, <2>2, <2>3, <2>4, SessionSide DEF ForceBill
<1>5. ASSUME NEW n \in Notices, LoseNotice(s, n) \/ SkipNotice(s, n) PROVE BillingInv'
  <2>1. notice[s][n].at = "queued" /\ notice' = [notice EXCEPT ![s][n].at = "gone"]
    BY <1>5 DEF LoseNotice, SkipNotice, IsWaiting
  <2>2. UNCHANGED <<stay, meter, idle, billKeys, biller, bills, receipts, deposit, closeKeys, closer, reader,
                    adjusted, raced, cutShort, byDeposit>>
    BY <1>5 DEF LoseNotice, SkipNotice
  <2>3. /\ notice' \in [Stays -> [Notices -> NoticeRows]]
        /\ \A t \in Stays, m \in Notices : notice'[t][m].at # "none" => notice[t][m].at # "none"
    BY <2>1, NoticeGone
  <2>4. StayTypes'
    BY <2>2, <2>3 DEF StayTypes
  <2> QED
    BY <2>2, <2>3, <2>4, SessionSide
<1> QED
  BY <1>1, <1>2, <1>3, <1>4, <1>5

LEMMA ReaderKeeps ==
  ASSUME BillingInv, NEW w \in Readers,
         RaiseMeter(w) \/ (\E s \in Stays, m \in 1 .. MaxMeter : ReadLate(w, s, m))
  PROVE  BillingInv'
<1> USE BillingAssumption DEF BillingInv
<1>1. ASSUME NEW s \in Stays, NEW m \in 1 .. MaxMeter, ReadLate(w, s, m) PROVE BillingInv'
  <2>1. [stay |-> s, meter |-> m] \in ReaderRows
    BY DEF ReaderRows
  <2>2. reader' \in [Readers -> ReaderRows] /\ \A v \in Readers : reader'[v].stay = NoStay => reader'[v] = FreeReader
    BY <1>1, <2>1 DEF ReadLate, StayTypes
  <2>3. StayTypes'
    BY <1>1, <2>2 DEF ReadLate, StayTypes
  <2> QED
    BY <1>1, <2>3, SessionSide DEF ReadLate
<1>2. ASSUME RaiseMeter(w) PROVE BillingInv'
  <2>1. PICK s \in Stays : s = reader[w].stay
    BY <1>2 DEF RaiseMeter, StayTypes, ReaderRows
  <2>2. reader[w].meter \in 0 .. MaxMeter
    BY DEF StayTypes, ReaderRows
  <2>3. meter' \in [Stays -> 0 .. MaxMeter]
    BY <1>2, <2>1, <2>2 DEF RaiseMeter, StayTypes
  <2>4. reader' \in [Readers -> ReaderRows] /\ \A v \in Readers : reader'[v].stay = NoStay => reader'[v] = FreeReader
    BY <1>2 DEF RaiseMeter, StayTypes, FreeReader, ReaderRows
  <2>5. StayTypes'
    BY <1>2, <2>1, <2>3, <2>4 DEF RaiseMeter, StayTypes
  <2> QED
    BY <1>2, <2>5, SessionSide DEF RaiseMeter
<1> QED
  BY <1>1, <1>2

LEMMA CheckNoticeKeeps ==
  ASSUME BillingInv, NEW s \in Stays, NEW n \in Notices, NEW w \in Billers, CheckNotice(w, s, n)
  PROVE  BillingInv'
<1> USE BillingAssumption DEF BillingInv
<1> DEFINE row == [at |-> "checked", stay |-> s, n |-> n]
<1>1. /\ biller[w] = FreeBiller /\ notice[s][n].at # "none" /\ <<s, 0>> \notin billKeys
      /\ biller' = [biller EXCEPT ![w] = row]
      /\ raced' = IF \E v \in Billers : biller[v].stay = s /\ biller[v].at = "checked" THEN raced \cup {s} ELSE raced
      /\ UNCHANGED <<stay, meter, idle, notice, billKeys, bills, receipts, deposit, closeKeys, closer, reader,
                     adjusted, cutShort, byDeposit>>
  BY DEF CheckNotice, IsWaiting, KeyOf
<1>2. biller'[w] = row /\ \A v \in Billers : v # w => biller'[v] = biller[v]
  BY <1>1 DEF BillerTypes
<1>3. bills[s] = <<>> /\ \A v \in Billers : biller[v].stay = s => biller[v].at = "checked"
  BY <1>1 DEF UnmarkedIsUnbilled
<1>4. StayTypes' /\ BillerTypes' /\ CloserTypes'
  <2>1. row \in BillerRows
    BY DEF BillerRows
  <2>2. biller' \in [Billers -> BillerRows]
    BY <1>1, <2>1 DEF BillerTypes
  <2>3. BillerTypes'
    BY <1>1, <1>2, <2>2 DEF BillerTypes
  <2> QED
    BY <1>1, <2>3 DEF StayTypes, CloserTypes
<1>5. \A t \in Stays : t # s => Billing(t)' = Billing(t)
  BY <1>1, <1>2, FreeWorkersAreFree DEF Billing
<1>6. UnmarkedIsUnbilled' /\ AnnouncedHasEnded'
  BY <1>1, <1>2, <1>3 DEF UnmarkedIsUnbilled, AnnouncedHasEnded
<1>7. BillsToCome'
  <2>1. /\ Cardinality(Billing(s)') \in Nat /\ Cardinality(Billing(s)') <= Cardinality(Billers)
        /\ Cardinality(Billers) \in Nat
    <3>1. Billing(s)' \subseteq Billers
      BY DEF Billing
    <3> QED
      BY <3>1, CountLess, CountIsNat
  <2>2. ASSUME s \notin raced' PROVE Cardinality(Billing(s)') <= 1
    <3>1. Billing(s) = {}
      BY <1>1, <1>3, <2>2 DEF Billing
    <3>2. Billing(s)' = {w}
      BY <1>2, <3>1 DEF Billing
    <3>3. Cardinality({w}) = 1
      BY FS_Singleton
    <3> QED
      BY <3>2, <3>3
  <2>3. Len(bills'[s]) = 0
    BY <1>1, <1>3
  <2>4. raced \subseteq raced' /\ \A t \in Stays : t # s => (t \in raced' <=> t \in raced)
    BY <1>1
  <2>5. \A v \in Billers : biller'[v].stay = s => biller'[v].at = "checked"
    BY <1>2, <1>3
  <2> SUFFICES ASSUME NEW t \in Stays
               PROVE  /\ Len(bills'[t]) + Cardinality(Billing(t)') <= Cardinality(Billers)
                      /\ t \notin raced' => Len(bills'[t]) + Cardinality(Billing(t)') <= 1
                      /\ t \in Guests => bills'[t] = <<>> /\ \A v \in Billers : biller'[v].stay = t => biller'[v].at = "checked"
    BY DEF BillsToCome
  <2>6. CASE t = s
    BY <1>1, <1>3, <2>1, <2>2, <2>3, <2>5, <2>6
  <2>7. CASE t # s
    BY <1>1, <1>2, <1>5, <2>4, <2>7 DEF BillsToCome
  <2> QED
    BY <2>6, <2>7
<1>8. PaymentWaits'
  <2>1. \A t : Closing(t)' = Closing(t)
    BY <1>1 DEF Closing
  <2> QED
    BY <1>1, <2>1 DEF PaymentWaits
<1> QED
  BY <1>4, <1>6, <1>7, <1>8

\* Whoever works at a notice works at a notice that was sent.
LEMMA BillerHasNotice ==
  ASSUME BillingInv, NEW w \in Billers, biller[w].at # "idle"
  PROVE  \E s \in Stays, n \in Notices : biller[w].stay = s /\ biller[w].n = n /\ stay[s] # "active"
  BY DEF BillingInv, BillerTypes, BillerRows, AnnouncedHasEnded

\* A biller that is done frees its place for one bill.
BillerFrees(w, s) ==
  /\ biller' \in [Billers -> BillerRows]
  /\ \A v \in Billers : biller'[v].at = "idle" <=> biller'[v].stay = NoStay
  /\ \A v \in Billers : biller'[v].at = "idle" => biller'[v] = FreeBiller
  /\ \A v \in Billers : biller'[v] = biller[v] \/ (v = w /\ biller'[v].stay = NoStay)
  /\ \A t \in Stays : t # s => Billing(t)' = Billing(t)
  /\ Cardinality(Billing(s)') = Cardinality(Billing(s)) - 1

LEMMA BillerDone ==
  ASSUME BillerTypes, NEW w \in Billers, NEW s \in Stays, biller[w].stay = s,
         biller' = [biller EXCEPT ![w] = FreeBiller]
  PROVE  BillerFrees(w, s)
<1> USE BillingAssumption
<1>1. biller'[w] = FreeBiller /\ \A v \in Billers : v # w => biller'[v] = biller[v]
  BY DEF BillerTypes
<1>2. biller' \in [Billers -> BillerRows]
  BY FreeWorkersAreFree DEF BillerTypes
<1>3. Billing(s)' = Billing(s) \ {w} /\ w \in Billing(s)
  BY <1>1, FreeWorkersAreFree DEF Billing
<1>4. \A t \in Stays : t # s => Billing(t)' = Billing(t)
  BY <1>1, FreeWorkersAreFree DEF Billing
<1>5. Cardinality(Billing(s)') = Cardinality(Billing(s)) - 1
  BY <1>3, WorkersAreFinite, FS_RemoveElement
<1> QED
  BY <1>1, <1>2, <1>4, <1>5, FreeWorkersAreFree DEF BillerTypes, BillerFrees

LEMMA MarkNoticeKeeps == ASSUME BillingInv, NEW w \in Billers, MarkNotice(w) PROVE BillingInv'
<1> USE BillingAssumption DEF BillingInv
<1>0. biller[w].at = "checked"
  BY DEF MarkNotice
<1>1. PICK s \in Stays, n \in Notices : biller[w].stay = s /\ biller[w].n = n /\ stay[s] # "active"
  BY <1>0, BillerHasNotice
<1>2. /\ billKeys' = billKeys \cup {<<s, 0>>}
      /\ UNCHANGED <<stay, meter, idle, bills, receipts, deposit, closeKeys, closer, reader, adjusted,
                     raced, cutShort, byDeposit>>
      /\ IF s \in Guests
         THEN /\ biller' = [biller EXCEPT ![w] = FreeBiller]
              /\ notice' = [notice EXCEPT ![s][n].at = "gone"]
         ELSE /\ biller' = [biller EXCEPT ![w] = [biller[w] EXCEPT !.at = "marked"]]
              /\ UNCHANGED notice
  BY <1>1 DEF MarkNotice, KeyOf
<1>3. CloserTypes' /\ PaymentWaits'
  <2>1. \A t : Closing(t)' = Closing(t)
    BY <1>2 DEF Closing
  <2> QED
    BY <1>2, <2>1 DEF CloserTypes, PaymentWaits
<1>4. CASE s \in Guests
  <2>1. biller' = [biller EXCEPT ![w] = FreeBiller] /\ notice' = [notice EXCEPT ![s][n].at = "gone"]
    BY <1>2, <1>4
  <2>2. BillerFrees(w, s)
    BY <1>1, <2>1, BillerDone
  <2> USE DEF BillerFrees
  <2>3. notice' \in [Stays -> [Notices -> NoticeRows]]
    BY <1>1, <2>1, NoticeGone
  <2>4. \A t \in Stays, m \in Notices : t # s => notice'[t][m] = notice[t][m]
    BY <1>1, <2>1, NoticeGone
  <2>5. StayTypes' /\ BillerTypes'
    BY <1>2, <2>2, <2>3 DEF StayTypes, BillerTypes
  <2>6. UnmarkedIsUnbilled'
    BY <1>2, <2>2 DEF UnmarkedIsUnbilled
  <2>7. AnnouncedHasEnded'
    BY <1>1, <1>2, <2>2, <2>4 DEF AnnouncedHasEnded
  <2>8. BillsToCome'
    <3> SUFFICES ASSUME NEW t \in Stays
                 PROVE  /\ Len(bills[t]) + Cardinality(Billing(t)') <= Cardinality(Billers)
                        /\ t \notin raced => Len(bills[t]) + Cardinality(Billing(t)') <= 1
                        /\ t \in Guests => bills[t] = <<>> /\ \A v \in Billers : biller'[v].stay = t => biller'[v].at = "checked"
      BY <1>2 DEF BillsToCome
    <3>1. Cardinality(Billing(t)') <= Cardinality(Billing(t)) /\ Cardinality(Billing(t)') \in Int
      BY <2>2, WorkersAreFinite
    <3>2. Len(bills[t]) \in Nat /\ Cardinality(Billing(t)) \in Nat /\ Cardinality(Billers) \in Nat
      BY WorkersAreFinite DEF BillerTypes
    <3>3. \A v \in Billers : biller'[v].stay = t => biller[v].stay = t /\ biller'[v] = biller[v]
      BY <2>2
    <3> QED
      BY <3>1, <3>2, <3>3 DEF BillsToCome
  <2> QED
    BY <1>3, <2>5, <2>6, <2>7, <2>8
<1>5. CASE s \notin Guests
  <2>1. biller' = [biller EXCEPT ![w] = [biller[w] EXCEPT !.at = "marked"]] /\ notice' = notice
    BY <1>2, <1>5
  <2>2. /\ biller'[w].at = "marked" /\ biller'[w].stay = s
        /\ \A v \in Billers : v # w => biller'[v] = biller[v]
    BY <1>1, <2>1 DEF BillerTypes, BillerRows
  <2>3. biller' \in [Billers -> BillerRows]
    <3>1. [biller[w] EXCEPT !.at = "marked"] \in BillerRows
      BY DEF BillerTypes, BillerRows
    <3> QED
      BY <2>1, <3>1 DEF BillerTypes
  <2>4. StayTypes' /\ BillerTypes'
    BY <1>2, <2>1, <2>2, <2>3 DEF StayTypes, BillerTypes
  <2>5. \A t : Billing(t)' = Billing(t)
    BY <1>1, <2>2 DEF Billing
  <2>6. UnmarkedIsUnbilled' /\ AnnouncedHasEnded'
    BY <1>1, <1>2, <2>1, <2>2 DEF UnmarkedIsUnbilled, AnnouncedHasEnded
  <2>7. BillsToCome'
    BY <1>2, <1>5, <2>2, <2>5 DEF BillsToCome
  <2> QED
    BY <1>3, <2>4, <2>6, <2>7
<1> QED
  BY <1>4, <1>5

LEMMA CommitBillKeeps == ASSUME BillingInv, NEW w \in Billers, CommitBill(w) PROVE BillingInv'
<1> USE BillingAssumption DEF BillingInv
<1>0. biller[w].at = "marked"
  BY DEF CommitBill
<1>1. PICK s \in Stays, n \in Notices : biller[w].stay = s /\ biller[w].n = n /\ stay[s] # "active"
  BY <1>0, BillerHasNotice
<1>2. /\ bills' = [bills EXCEPT ![s] = Append(@, Fee(notice[s][n]))]
      /\ receipts' = [receipts EXCEPT ![s] = @ + 1]
      /\ biller' = [biller EXCEPT ![w] = FreeBiller]
      /\ notice' \in {notice, [notice EXCEPT ![s][n].at = "gone"]}
      /\ UNCHANGED <<stay, meter, idle, billKeys, deposit, closeKeys, closer, reader, adjusted,
                     raced, cutShort, byDeposit>>
  BY <1>1 DEF CommitBill
<1>3. BillerFrees(w, s)
  <2>1. biller' = [biller EXCEPT ![w] = FreeBiller]
    BY <1>2
  <2> QED
    BY <1>1, <2>1, BillerDone
<1> USE DEF BillerFrees
<1>4. Fee(notice[s][n]) \in Bills
  BY DEF Fee, Bills, StayTypes, NoticeRows
<1>5. /\ bills' \in [Stays -> Seq(Bills)] /\ bills'[s] # <<>> /\ Len(bills'[s]) = Len(bills[s]) + 1
      /\ \A t \in Stays : t # s => bills'[t] = bills[t]
  <2>1. bills[s] \in Seq(Bills)
    BY DEF BillerTypes
  <2>2. /\ Append(bills[s], Fee(notice[s][n])) \in Seq(Bills) /\ Append(bills[s], Fee(notice[s][n])) # <<>>
        /\ Len(Append(bills[s], Fee(notice[s][n]))) = Len(bills[s]) + 1
    BY <1>4, <2>1
  <2> QED
    BY <1>2, <2>2 DEF BillerTypes
<1>6. notice' \in [Stays -> [Notices -> NoticeRows]] /\ \A t \in Stays, m \in Notices : t # s => notice'[t][m] = notice[t][m]
  <2>1. CASE notice' = notice
    BY <2>1 DEF StayTypes
  <2>2. CASE notice' = [notice EXCEPT ![s][n].at = "gone"]
    BY <2>2, NoticeGone
  <2> QED
    BY <1>2, <2>1, <2>2
<1>7. receipts' \in [Stays -> Nat] /\ receipts'[s] = receipts[s] + 1 /\ receipts[s] \in Nat
      /\ \A t \in Stays : t # s => receipts'[t] = receipts[t]
  BY <1>2 DEF CloserTypes
<1>8. StayTypes' /\ BillerTypes' /\ CloserTypes'
  BY <1>2, <1>3, <1>5, <1>6, <1>7 DEF StayTypes, BillerTypes, CloserTypes
<1>9. UnmarkedIsUnbilled'
  <2>1. <<s, 0>> \in billKeys
    BY <1>0, <1>1 DEF UnmarkedIsUnbilled
  <2> QED
    BY <1>2, <1>3, <1>5, <2>1 DEF UnmarkedIsUnbilled
<1>10. AnnouncedHasEnded'
  BY <1>1, <1>2, <1>3, <1>5, <1>6 DEF AnnouncedHasEnded
<1>11. BillsToCome'
  <2> SUFFICES ASSUME NEW t \in Stays
               PROVE  /\ Len(bills'[t]) + Cardinality(Billing(t)') <= Cardinality(Billers)
                      /\ t \notin raced => Len(bills'[t]) + Cardinality(Billing(t)') <= 1
                      /\ t \in Guests => bills'[t] = <<>> /\ \A v \in Billers : biller'[v].stay = t => biller'[v].at = "checked"
    BY <1>2 DEF BillsToCome
  <2>1. Len(bills'[t]) + Cardinality(Billing(t)') = Len(bills[t]) + Cardinality(Billing(t))
    <3>1. Len(bills[s]) \in Nat /\ Cardinality(Billing(s)) \in Nat
      BY WorkersAreFinite DEF BillerTypes
    <3>2. CASE t = s
      BY <1>3, <1>5, <3>1, <3>2
    <3>3. CASE t # s
      BY <1>3, <1>5, <3>3
    <3> QED
      BY <3>2, <3>3
  <2>2. s \notin Guests
    BY <1>0, <1>1 DEF BillsToCome
  <2>3. \A v \in Billers : biller'[v].stay = t => biller[v].stay = t /\ biller'[v] = biller[v]
    BY <1>3
  <2> QED
    BY <1>5, <2>1, <2>2, <2>3 DEF BillsToCome
<1>12. PaymentWaits'
  <2>1. \A t : Closing(t)' = Closing(t)
    BY <1>2 DEF Closing
  <2> QED
    BY <1>2, <1>5, <1>7, <2>1, WorkersAreFinite DEF PaymentWaits
<1> QED
  BY <1>8, <1>9, <1>10, <1>11, <1>12

LEMMA BillerDiesKeeps == ASSUME BillingInv, NEW w \in Billers, BillerDies(w) PROVE BillingInv'
<1> USE BillingAssumption DEF BillingInv
<1>0. biller[w].at # "idle"
  BY DEF BillerDies, BillerTypes
<1>1. PICK s \in Stays, n \in Notices : biller[w].stay = s /\ biller[w].n = n /\ stay[s] # "active"
  BY <1>0, BillerHasNotice
<1>2. /\ biller' = [biller EXCEPT ![w] = FreeBiller]
      /\ cutShort \subseteq cutShort' /\ cutShort' \subseteq cutShort \cup {s}
      /\ UNCHANGED <<stay, meter, idle, notice, billKeys, bills, receipts, deposit, closeKeys, closer, reader,
                     adjusted, raced, byDeposit>>
  BY <1>1 DEF BillerDies
<1>3. BillerFrees(w, s)
  <2>1. biller' = [biller EXCEPT ![w] = FreeBiller]
    BY <1>2
  <2> QED
    BY <1>1, <2>1, BillerDone
<1> USE DEF BillerFrees
<1>4. StayTypes' /\ BillerTypes' /\ CloserTypes'
  BY <1>2, <1>3 DEF StayTypes, BillerTypes, CloserTypes
<1>5. UnmarkedIsUnbilled' /\ AnnouncedHasEnded'
  BY <1>2, <1>3 DEF UnmarkedIsUnbilled, AnnouncedHasEnded
<1>6. BillsToCome'
  <2> SUFFICES ASSUME NEW t \in Stays
               PROVE  /\ Len(bills[t]) + Cardinality(Billing(t)') <= Cardinality(Billers)
                      /\ t \notin raced => Len(bills[t]) + Cardinality(Billing(t)') <= 1
                      /\ t \in Guests => bills[t] = <<>> /\ \A v \in Billers : biller'[v].stay = t => biller'[v].at = "checked"
    BY <1>2 DEF BillsToCome
  <2>1. Cardinality(Billing(t)') <= Cardinality(Billing(t)) /\ Cardinality(Billing(t)') \in Int
    BY <1>3, WorkersAreFinite
  <2>2. Len(bills[t]) \in Nat /\ Cardinality(Billing(t)) \in Nat /\ Cardinality(Billers) \in Nat
    BY WorkersAreFinite DEF BillerTypes
  <2>3. \A v \in Billers : biller'[v].stay = t => biller[v].stay = t /\ biller'[v] = biller[v]
    BY <1>3
  <2> QED
    BY <2>1, <2>2, <2>3 DEF BillsToCome
<1>7. PaymentWaits'
  <2>1. \A t : Closing(t)' = Closing(t)
    BY <1>2 DEF Closing
  <2> QED
    BY <1>2, <2>1 DEF PaymentWaits
<1> QED
  BY <1>4, <1>5, <1>6, <1>7

\* What session-service does with a payment leaves the bills, and what has ended, alone.
LEMMA PaymentSide ==
  ASSUME BillingInv, StayTypes', CloserTypes', PaymentWaits',
         UNCHANGED <<notice, billKeys, biller, bills, raced>>,
         \A s \in Stays : stay'[s] = "active" => stay[s] = "active"
  PROVE  BillingInv'
<1> USE DEF BillingInv
<1>1. \A s : Billing(s)' = Billing(s)
  BY DEF Billing
<1>2. BillerTypes' /\ UnmarkedIsUnbilled' /\ BillsToCome'
  BY <1>1 DEF BillerTypes, UnmarkedIsUnbilled, BillsToCome
<1>3. AnnouncedHasEnded'
  BY DEF AnnouncedHasEnded
<1> QED
  BY <1>2, <1>3

LEMMA SkipPaymentKeeps ==
  ASSUME BillingInv, NEW s \in Stays, NEW of \in {"deposit", "bill"}, SkipPayment(s, of)
  PROVE  BillingInv'
<1> USE BillingAssumption DEF BillingInv
<1>1. /\ s \in closeKeys
      /\ UNCHANGED <<stay, meter, idle, notice, billKeys, biller, bills, closeKeys, closer, reader, adjusted,
                     raced, cutShort, byDeposit>>
  BY DEF SkipPayment, IsRemembered
<1>2. StayTypes' /\ \A t : Closing(t)' = Closing(t)
  BY <1>1 DEF StayTypes, Closing
<1>3. CASE of = "deposit"
  <2>1. receipts' = receipts /\ deposit' \in [Stays -> {"queued", "gone"}]
    BY <1>3 DEF SkipPayment, Acknowledged, CloserTypes
  <2>2. CloserTypes' /\ PaymentWaits'
    BY <1>1, <1>2, <2>1 DEF CloserTypes, PaymentWaits
  <2> QED
    BY <1>1, <1>2, <2>2, PaymentSide
<1>4. CASE of = "bill"
  <2>1. receipts' = [receipts EXCEPT ![s] = @ - 1] /\ deposit' = deposit /\ receipts[s] > Cardinality(Closing(s))
    BY <1>4 DEF SkipPayment, Acknowledged, Arrived, Held, Closing
  <2>2. receipts[s] \in Nat /\ Cardinality(Closing(s)) \in Nat
    BY WorkersAreFinite DEF CloserTypes
  <2>3. /\ receipts' \in [Stays -> Nat] /\ receipts'[s] = receipts[s] - 1
        /\ \A t \in Stays : t # s => receipts'[t] = receipts[t]
    BY <2>1, <2>2 DEF CloserTypes
  <2>4. CloserTypes'
    BY <1>1, <2>1, <2>3 DEF CloserTypes
  <2>5. PaymentWaits'
    BY <1>1, <1>2, <2>1, <2>2, <2>3 DEF PaymentWaits
  <2> QED
    BY <1>1, <1>2, <2>4, <2>5, PaymentSide
<1> QED
  BY <1>3, <1>4

LEMMA CheckPaymentKeeps ==
  ASSUME BillingInv, NEW s \in Stays, NEW of \in {"deposit", "bill"}, NEW w \in Closers, CheckPayment(w, s, of)
  PROVE  BillingInv'
<1> USE BillingAssumption DEF BillingInv
<1> DEFINE row == [at |-> "checked", stay |-> s, of |-> of]
<1>1. /\ closer[w] = FreeCloser /\ closer' = [closer EXCEPT ![w] = row]
      /\ UNCHANGED <<stay, meter, idle, notice, billKeys, biller, bills, receipts, deposit, closeKeys, reader,
                     adjusted, raced, cutShort, byDeposit>>
  BY DEF CheckPayment
<1>2. closer'[w] = row /\ \A v \in Closers : v # w => closer'[v] = closer[v]
  BY <1>1 DEF CloserTypes
<1>3. StayTypes'
  BY <1>1 DEF StayTypes
<1>4. CloserTypes'
  <2>1. row \in CloserRows
    BY DEF CloserRows
  <2>2. closer' \in [Closers -> CloserRows]
    BY <1>1, <2>1 DEF CloserTypes
  <2> QED
    BY <1>1, <1>2, <2>2 DEF CloserTypes
<1>5. PaymentWaits'
  <2> SUFFICES ASSUME NEW t \in Stays PROVE Cardinality(Closing(t)') <= receipts[t]
    BY <1>1 DEF PaymentWaits
  <2>1. CASE t = s /\ of = "bill"
    <3>1. Closing(t)' \subseteq Closing(t) \cup {w}
      BY <1>2 DEF Closing
    <3>2. receipts[t] > Cardinality(Closing(t)) /\ receipts[t] \in Nat
      BY <2>1 DEF CheckPayment, Arrived, Held, Closing, CloserTypes
    <3>3. Cardinality(Closing(t)') <= Cardinality(Closing(t)) + 1 /\ Cardinality(Closing(t)') \in Nat
      BY <3>1, WorkersAreFinite, CountMore
    <3> QED
      BY <3>2, <3>3, WorkersAreFinite
  <2>2. CASE t # s \/ of # "bill"
    <3>1. Closing(t)' = Closing(t)
      BY <1>1, <1>2, <2>2, FreeWorkersAreFree DEF Closing
    <3> QED
      BY <3>1 DEF PaymentWaits
  <2> QED
    BY <2>1, <2>2
<1> QED
  BY <1>1, <1>3, <1>4, <1>5, PaymentSide

\* Whoever works at a payment works at the payment of a session.
LEMMA CloserHasPayment ==
  ASSUME BillingInv, NEW w \in Closers, closer[w].at # "idle"
  PROVE  \E s \in Stays, of \in {"deposit", "bill"} : closer[w].stay = s /\ closer[w].of = of
  BY DEF BillingInv, CloserTypes, CloserRows

\* A closer that is done, with its payment or without, has none of it any more.
CloserFrees(w, s, of) ==
  /\ closer' \in [Closers -> CloserRows]
  /\ \A v \in Closers :
       /\ closer'[v].at = "idle" <=> closer'[v].stay = NoStay
       /\ closer'[v].at = "idle" => closer'[v] = FreeCloser
       /\ closer'[v].at # "idle" => closer'[v].of \in {"deposit", "bill"}
  /\ \A t \in Stays : Cardinality(Closing(t)') <= Cardinality(Closing(t)) /\ Cardinality(Closing(t)') \in Nat
  /\ of = "bill" => Cardinality(Closing(s)') <= Cardinality(Closing(s)) - 1

LEMMA CloserDone ==
  ASSUME CloserTypes, NEW w \in Closers, NEW s \in Stays, NEW of \in {"deposit", "bill"},
         closer[w].stay = s, closer[w].of = of, closer' = [closer EXCEPT ![w] = FreeCloser]
  PROVE  CloserFrees(w, s, of)
<1> USE BillingAssumption
<1>1. closer'[w] = FreeCloser /\ \A v \in Closers : v # w => closer'[v] = closer[v]
  BY DEF CloserTypes
<1>2. closer' \in [Closers -> CloserRows]
  BY FreeWorkersAreFree DEF CloserTypes
<1>3. \A t \in Stays : Closing(t)' \subseteq Closing(t)
  BY <1>1, FreeWorkersAreFree DEF Closing
<1>4. \A t \in Stays : Cardinality(Closing(t)') <= Cardinality(Closing(t)) /\ Cardinality(Closing(t)') \in Nat
  BY <1>3, WorkersAreFinite, CountLess
<1>5. ASSUME of = "bill" PROVE Cardinality(Closing(s)') <= Cardinality(Closing(s)) - 1
  <2>1. w \in Closing(s) /\ Closing(s)' \subseteq Closing(s) \ {w}
    BY <1>1, <1>5, FreeWorkersAreFree DEF Closing
  <2> QED
    BY <2>1, WorkersAreFinite, CountFewer
<1>6. \A v \in Closers :
       /\ closer'[v].at = "idle" <=> closer'[v].stay = NoStay
       /\ closer'[v].at = "idle" => closer'[v] = FreeCloser
       /\ closer'[v].at # "idle" => closer'[v].of \in {"deposit", "bill"}
  BY <1>1, FreeWorkersAreFree DEF CloserTypes
<1> QED
  BY <1>2, <1>4, <1>5, <1>6 DEF CloserFrees

\* A payment acknowledged is one that waited, and those at work have theirs still.
PaymentTaken(s) ==
  /\ CloserTypes'
  /\ \A t \in Stays : Cardinality(Closing(t)') <= receipts'[t]
  /\ \A t \in Stays : t # s => receipts'[t] = receipts[t]
  /\ receipts'[s] > 0 => receipts[s] > 0

LEMMA PaymentAcknowledged ==
  ASSUME CloserTypes, PaymentWaits, NEW w \in Closers, NEW s \in Stays, NEW of \in {"deposit", "bill"},
         closer[w].stay = s, closer[w].of = of, closer' = [closer EXCEPT ![w] = FreeCloser],
         Acknowledged(s, of)
  PROVE  PaymentTaken(s) /\ (of = "bill" => receipts[s] > 0)
<1>1. CloserFrees(w, s, of)
  BY CloserDone
<1>2. receipts[s] \in Nat /\ Cardinality(Closing(s)) \in Nat /\ Cardinality(Closing(s)) <= receipts[s]
  BY WorkersAreFinite DEF CloserTypes, PaymentWaits
<1>3. CASE of = "deposit"
  <2>1. receipts' = receipts /\ deposit' \in [Stays -> {"queued", "gone"}]
    BY <1>3 DEF Acknowledged, CloserTypes
  <2>2. CloserTypes'
    BY <1>1, <2>1 DEF CloserTypes, CloserFrees
  <2>3. \A t \in Stays : Cardinality(Closing(t)') <= receipts'[t]
    BY <1>1, <2>1, WorkersAreFinite DEF CloserTypes, CloserFrees, PaymentWaits
  <2> QED
    BY <1>3, <2>1, <2>2, <2>3 DEF PaymentTaken
<1>4. CASE of = "bill"
  <2>1. receipts' = [receipts EXCEPT ![s] = @ - 1] /\ deposit' = deposit
    BY <1>4 DEF Acknowledged
  <2>2. Cardinality(Closing(s)') <= Cardinality(Closing(s)) - 1 /\ Cardinality(Closing(s)') \in Nat
    BY <1>1, <1>4 DEF CloserFrees
  <2>3. receipts[s] > 0
    BY <1>2, <2>2
  <2>4. /\ receipts' \in [Stays -> Nat] /\ receipts'[s] = receipts[s] - 1
        /\ \A t \in Stays : t # s => receipts'[t] = receipts[t]
    BY <1>2, <2>1, <2>3 DEF CloserTypes
  <2>5. CloserTypes'
    BY <1>1, <2>1, <2>4 DEF CloserTypes, CloserFrees
  <2>6. \A t \in Stays : Cardinality(Closing(t)') <= receipts'[t]
    <3> SUFFICES ASSUME NEW t \in Stays PROVE Cardinality(Closing(t)') <= receipts'[t]
      OBVIOUS
    <3>1. CASE t = s
      BY <1>2, <2>2, <2>4, <3>1
    <3>2. CASE t # s
      <4>1. receipts'[t] = receipts[t] /\ receipts[t] \in Nat /\ Cardinality(Closing(t)) <= receipts[t]
        BY <2>4, <3>2 DEF CloserTypes, PaymentWaits
      <4>2. Cardinality(Closing(t)') <= Cardinality(Closing(t)) /\ Cardinality(Closing(t)') \in Nat
        BY <1>1 DEF CloserFrees
      <4> QED
        BY <4>1, <4>2, WorkersAreFinite
    <3> QED
      BY <3>1, <3>2
  <2> QED
    BY <2>3, <2>4, <2>5, <2>6 DEF PaymentTaken
<1> QED
  BY <1>3, <1>4

LEMMA ReadSessionKeeps == ASSUME BillingInv, NEW w \in Closers, ReadSession(w) PROVE BillingInv'
<1> USE BillingAssumption DEF BillingInv
<1>0. closer[w].at = "checked"
  BY DEF ReadSession
<1>1. PICK s \in Stays, of \in {"deposit", "bill"} : closer[w].stay = s /\ closer[w].of = of
  BY <1>0, CloserHasPayment
<1>2. /\ closeKeys \subseteq closeKeys'
      /\ UNCHANGED <<stay, meter, idle, notice, billKeys, biller, bills, reader, adjusted, raced, cutShort, byDeposit>>
      /\ IF stay[s] = "stopped"
         THEN closer' = [closer EXCEPT ![w] = [closer[w] EXCEPT !.at = "read"]] /\ UNCHANGED <<receipts, deposit>>
         ELSE closer' = [closer EXCEPT ![w] = FreeCloser] /\ Acknowledged(s, of)
  BY <1>1 DEF ReadSession, IsPayable
<1>3. StayTypes'
  BY <1>2 DEF StayTypes
<1>4. CASE stay[s] = "stopped"
  <2>1. closer' = [closer EXCEPT ![w] = [closer[w] EXCEPT !.at = "read"]] /\ receipts' = receipts /\ deposit' = deposit
    BY <1>2, <1>4
  <2>2. /\ closer'[w].at = "read" /\ closer'[w].stay = s /\ closer'[w].of = of
        /\ \A v \in Closers : v # w => closer'[v] = closer[v]
    BY <1>1, <2>1 DEF CloserTypes, CloserRows
  <2>3. closer' \in [Closers -> CloserRows]
    <3>1. closer[w] \in CloserRows
      BY DEF CloserTypes
    <3>2. [closer[w] EXCEPT !.at = "read"] \in CloserRows
      BY <3>1 DEF CloserRows
    <3> QED
      BY <2>1, <3>2 DEF CloserTypes
  <2>4. CloserTypes'
    BY <2>1, <2>2, <2>3 DEF CloserTypes
  <2>5. \A t : Closing(t)' = Closing(t)
    BY <1>1, <2>2 DEF Closing
  <2>6. PaymentWaits'
    BY <1>2, <2>1, <2>5 DEF PaymentWaits
  <2> QED
    BY <1>2, <1>3, <2>4, <2>6, PaymentSide
<1>5. CASE stay[s] # "stopped"
  <2>1. PaymentTaken(s)
    <3>1. closer' = [closer EXCEPT ![w] = FreeCloser] /\ Acknowledged(s, of)
      BY <1>2, <1>5
    <3> QED
      BY <1>1, <3>1, PaymentAcknowledged
  <2>2. PaymentWaits'
    BY <1>2, <1>5, <2>1 DEF PaymentTaken, PaymentWaits
  <2>3. CloserTypes'
    BY <2>1 DEF PaymentTaken
  <2> QED
    BY <1>2, <1>3, <2>2, <2>3, PaymentSide
<1> QED
  BY <1>4, <1>5

LEMMA CloseSessionKeeps == ASSUME BillingInv, NEW w \in Closers, CloseSession(w) PROVE BillingInv'
<1> USE BillingAssumption DEF BillingInv
<1>0. closer[w].at = "read"
  BY DEF CloseSession
<1>1. PICK s \in Stays, of \in {"deposit", "bill"} : closer[w].stay = s /\ closer[w].of = of
  BY <1>0, CloserHasPayment
<1>2. /\ stay' = [stay EXCEPT ![s] = "completed"]
      /\ byDeposit' = IF of = "deposit" THEN byDeposit \cup {s} ELSE byDeposit
      /\ closer' = [closer EXCEPT ![w] = FreeCloser] /\ Acknowledged(s, of)
      /\ UNCHANGED <<meter, idle, notice, billKeys, biller, bills, closeKeys, reader, adjusted, raced, cutShort>>
  BY <1>1 DEF CloseSession
<1>3. PaymentTaken(s) /\ (of = "bill" => receipts[s] > 0)
  <2>1. closer' = [closer EXCEPT ![w] = FreeCloser] /\ Acknowledged(s, of)
    BY <1>2
  <2> QED
    BY <1>1, <2>1, PaymentAcknowledged
<1>4. stay'[s] = "completed" /\ \A t \in Stays : t # s => stay'[t] = stay[t]
  BY <1>2 DEF StayTypes
<1>5. StayTypes'
  BY <1>2, <1>4 DEF StayTypes
<1>6. PaymentWaits'
  <2>1. bills[s] # <<>> \/ s \in byDeposit'
    BY <1>2, <1>3 DEF PaymentWaits
  <2>2. byDeposit \subseteq byDeposit'
    BY <1>2
  <2> QED
    BY <1>2, <1>3, <1>4, <2>1, <2>2 DEF PaymentTaken, PaymentWaits
<1>7. CloserTypes'
  BY <1>3 DEF PaymentTaken
<1> QED
  BY <1>2, <1>4, <1>5, <1>6, <1>7, PaymentSide

LEMMA CloserDiesKeeps == ASSUME BillingInv, NEW w \in Closers, CloserDies(w) PROVE BillingInv'
<1> USE BillingAssumption DEF BillingInv
<1>0. closer[w].at # "idle"
  BY DEF CloserDies, CloserTypes
<1>1. PICK s \in Stays, of \in {"deposit", "bill"} : closer[w].stay = s /\ closer[w].of = of
  BY <1>0, CloserHasPayment
<1>2. /\ closer' = [closer EXCEPT ![w] = FreeCloser]
      /\ cutShort \subseteq cutShort' /\ cutShort' \subseteq cutShort \cup {s}
      /\ UNCHANGED <<stay, meter, idle, notice, billKeys, biller, bills, receipts, deposit, closeKeys, reader,
                     adjusted, raced, byDeposit>>
  BY <1>1 DEF CloserDies
<1>3. CloserFrees(w, s, of)
  <2>1. closer' = [closer EXCEPT ![w] = FreeCloser]
    BY <1>2
  <2> QED
    BY <1>1, <2>1, CloserDone
<1>4. StayTypes'
  BY <1>2 DEF StayTypes
<1>5. CloserTypes'
  BY <1>2, <1>3 DEF CloserTypes, CloserFrees
<1>6. PaymentWaits'
  <2>1. \A t \in Stays : Cardinality(Closing(t)') <= receipts[t]
    BY <1>3, WorkersAreFinite DEF CloserFrees, CloserTypes, PaymentWaits
  <2> QED
    BY <1>2, <2>1 DEF PaymentWaits
<1> QED
  BY <1>2, <1>4, <1>5, <1>6, PaymentSide

LEMMA BillingStep == ASSUME BillingInv, [BillingNext]_billing PROVE BillingInv'
<1>1. CASE UNCHANGED billing
  <2>1. UNCHANGED <<stay, meter, idle, notice, billKeys, biller, bills, receipts, deposit, closeKeys,
                    closer, reader, adjusted, raced, cutShort, byDeposit>>
    BY <1>1 DEF billing
  <2>2. StayTypes'
    BY <2>1 DEF BillingInv, StayTypes
  <2> QED
    BY <2>1, <2>2, SessionSide
<1>2. ASSUME NEW s \in Stays,
             \/ \E m \in 1 .. MaxMeter : Stop(s, m)
             \/ Interrupt(s) \/ AddIdleFee(s)
             \/ \E n \in Notices : ForceBill(s, n) \/ LoseNotice(s, n) \/ SkipNotice(s, n)
      PROVE BillingInv'
  BY <1>2, SessionKeeps
<1>3. ASSUME NEW s \in Stays, NEW n \in Notices, NEW w \in Billers, CheckNotice(w, s, n) PROVE BillingInv'
  BY <1>3, CheckNoticeKeeps
<1>4. ASSUME NEW s \in Stays, NEW of \in {"deposit", "bill"},
             SkipPayment(s, of) \/ \E w \in Closers : CheckPayment(w, s, of)
      PROVE BillingInv'
  BY <1>4, SkipPaymentKeeps, CheckPaymentKeeps
<1>5. ASSUME NEW w \in Billers, MarkNotice(w) \/ CommitBill(w) \/ BillerDies(w) PROVE BillingInv'
  BY <1>5, MarkNoticeKeeps, CommitBillKeeps, BillerDiesKeeps
<1>6. ASSUME NEW w \in Closers, ReadSession(w) \/ CloseSession(w) \/ CloserDies(w) PROVE BillingInv'
  BY <1>6, ReadSessionKeeps, CloseSessionKeeps, CloserDiesKeeps
<1>7. ASSUME NEW w \in Readers, RaiseMeter(w) \/ \E s \in Stays, m \in 1 .. MaxMeter : ReadLate(w, s, m)
      PROVE BillingInv'
  BY <1>7, ReaderKeeps
<1> QED
  BY <1>1, <1>2, <1>3, <1>4, <1>5, <1>6, <1>7 DEF BillingNext

LEMMA BillingTyped == ASSUME BillingInv PROVE BillingTypeOK /\ BilledOnceAndClosed
<1> USE DEF BillingInv
<1>1. BillingTypeOK
  <2>1. \A s \in Stays, n \in Notices : notice[s][n].at \in {"none", "queued", "gone"}
    BY DEF StayTypes, NoticeRows
  <2>2. \A w \in Billers : biller[w].at \in {"idle", "checked", "marked"}
    BY DEF BillerTypes, BillerRows
  <2>3. \A w \in Closers : closer[w].at \in {"idle", "checked", "read"}
    BY DEF CloserTypes, CloserRows
  <2>4. \A s \in Stays : bills[s] \in Seq(Bills)
    BY DEF BillerTypes
  <2>5. receipts \in [Stays -> Nat]
    BY DEF CloserTypes
  <2>6. /\ stay \in [Stays -> {"active", "stopped", "interrupted", "completed"}]
        /\ meter \in [Stays -> 0 .. MaxMeter] /\ idle \in [Stays -> 0 .. MaxIdle]
        /\ adjusted \cup raced \cup cutShort \cup byDeposit \subseteq Stays
    BY DEF StayTypes
  <2> QED
    BY <2>1, <2>2, <2>3, <2>4, <2>5, <2>6 DEF BillingTypeOK
<1>2. BilledOnce
  <2> SUFFICES ASSUME NEW s \in Stays
               PROVE Len(bills[s]) <= IF s \in Guests THEN 0 ELSE IF s \in raced THEN Cardinality(Billers) ELSE 1
    BY DEF BilledOnce
  <2>1. Len(bills[s]) \in Nat /\ (bills[s] = <<>> => Len(bills[s]) = 0)
    <3>1. bills[s] \in Seq(Bills)
      BY DEF BillerTypes
    <3> QED
      BY <3>1
  <2>2. Cardinality(Billing(s)) \in Nat /\ Cardinality(Billers) \in Nat
    BY WorkersAreFinite
  <2> QED
    BY <2>1, <2>2 DEF BillsToCome
<1>3. BilledIsClosed
  BY DEF PaymentWaits, BilledIsClosed, CloserTypes
<1> QED
  BY <1>1, <1>2, <1>3 DEF BilledOnceAndClosed

-----------------------------------------------------------------------------
(* Arrears: what a service knows of a debt while its messages are handled.  *)

ConsumerRows == [at : {"idle", "marked", "recorded", "read"}, msg : Messages \cup {NoMessage}, read : Nat]

MessageTypes ==
  /\ sentBy \subseteq Messages
  /\ arrived \in [Services -> SUBSET sentBy] /\ markedAt \in [Services -> SUBSET sentBy]
  /\ consumer \in [Services -> [Consumers -> ConsumerRows]]
  /\ \A v \in Services, w \in Consumers :
       /\ consumer[v][w].at = "idle" <=> consumer[v][w].msg = NoMessage
       /\ consumer[v][w].at = "idle" => consumer[v][w] = Resting
       /\ consumer[v][w].at = "read" => consumer[v][w].msg \in Debts
       /\ consumer[v][w].msg \in sentBy \cup {NoMessage}

DebtTypes ==
  /\ flag \in [Services -> BOOLEAN] /\ owed \in [Services -> Nat] /\ expected \in [Services -> Nat]
  /\ rowOf \in [Debts -> {"none", "outstanding", "cleared"}]
  /\ copy \in [held : BOOLEAN, flag : BOOLEAN, owed : Nat]
  /\ torn \subseteq Services

IsOpen == \E d \in Debts : rowOf[d] = "outstanding"

\* One message at a time, the amount that is known is the one expected, and one that was
\* read is still the amount.
KnowsAmount(v) ==
  /\ \A w \in Consumers, u \in Consumers : w \in Busy(v) /\ u \in Busy(v) => w = u
  /\ owed[v] = expected[v] /\ (flag[v] <=> owed[v] > 0)
  /\ \A w \in Consumers : consumer[v][w].at = "read" => consumer[v][w].read = owed[v]

\* The rows are a step ahead of the flag while a message is handled.
KnowsRows ==
  /\ (\A w \in Consumers : consumer[Iam][w].at \in {"idle", "marked"}) => (flag[Iam] <=> IsOpen)
  /\ \A w \in Consumers :
       /\ consumer[Iam][w].at \in {"recorded", "read"} /\ consumer[Iam][w].msg \in Debts
          => rowOf[consumer[Iam][w].msg] = "outstanding"
       /\ consumer[Iam][w].at = "recorded" /\ consumer[Iam][w].msg \in Topups => ~IsOpen

\* A copy of the user is one of a user nobody works at, and says what the row says.
CopyIsFresh == copy.held => Busy(Iam) = {} /\ copy.flag = flag[Iam] /\ copy.owed = owed[Iam]

DebtInv ==
  /\ MessageTypes /\ DebtTypes
  /\ \A v \in Services : v \notin torn => KnowsAmount(v)
  /\ Iam \notin torn => KnowsRows /\ CopyIsFresh

LEMMA RestingIsARow ==
  /\ Resting \in ConsumerRows /\ Resting.at = "idle" /\ Resting.msg = NoMessage /\ Resting.read = 0
  /\ \A m \in Debts : m # NoMessage /\ m \in Messages /\ m \notin Topups /\ AmountOf[m] \in Nat /\ AmountOf[m] > 0
  /\ \A m \in Topups : m # NoMessage /\ m \in Messages /\ m \notin Debts
  BY ArrearsAssumption DEF Resting, ConsumerRows, Messages

LEMMA ArrearsStarts == ASSUME ArrearsInit PROVE DebtInv
<1> USE ArrearsAssumption DEF ArrearsInit
<1>1. MessageTypes
  BY RestingIsARow DEF MessageTypes
<1>2. DebtTypes
  BY DEF DebtTypes, NoCopy
<1>3. \A v \in Services : Busy(v) = {}
  BY DEF Busy
<1>4. \A v \in Services : KnowsAmount(v)
  BY <1>3, RestingIsARow DEF KnowsAmount
<1>5. KnowsRows /\ CopyIsFresh
  BY RestingIsARow DEF KnowsRows, CopyIsFresh, NoCopy, IsOpen
<1> QED
  BY <1>1, <1>2, <1>4, <1>5 DEF DebtInv

\* What a step of one service leaves alone.
Apart(v) ==
  /\ torn \subseteq torn'
  /\ \A x \in Services :
       x # v => /\ \A u \in Consumers : consumer'[x][u] = consumer[x][u]
                /\ owed'[x] = owed[x] /\ flag'[x] = flag[x] /\ expected'[x] = expected[x]
  /\ v # Iam => rowOf' = rowOf /\ copy' = copy

\* It is enough to look at the service that makes the step.
LEMMA OthersKnow ==
  ASSUME DebtInv, NEW v \in Services, Apart(v), MessageTypes', DebtTypes',
         v \notin torn' => KnowsAmount(v)' /\ (v = Iam => KnowsRows' /\ CopyIsFresh')
  PROVE  DebtInv'
<1> USE ArrearsAssumption
<1>1. \A x \in Services : x # v => Busy(x)' = Busy(x)
  BY DEF Apart, Busy
<1>2. ASSUME NEW x \in Services, x # v, x \notin torn' PROVE KnowsAmount(x)'
  BY <1>1, <1>2 DEF DebtInv, Apart, KnowsAmount
<1>3. ASSUME v # Iam, Iam \notin torn' PROVE KnowsRows' /\ CopyIsFresh'
  <2>1. rowOf' = rowOf /\ copy' = copy /\ Iam \notin torn /\ \A u \in Consumers : consumer'[Iam][u] = consumer[Iam][u]
    BY <1>3 DEF Apart
  <2>2. flag'[Iam] = flag[Iam] /\ owed'[Iam] = owed[Iam] /\ Busy(Iam)' = Busy(Iam)
    BY <1>1, <1>3 DEF Apart
  <2>3. KnowsRows'
    BY <2>1, <2>2 DEF DebtInv, KnowsRows, IsOpen
  <2>4. CopyIsFresh'
    BY <2>1, <2>2 DEF DebtInv, CopyIsFresh
  <2> QED
    BY <2>3, <2>4
<1> QED
  BY <1>2, <1>3 DEF DebtInv

\* One consumer of one service is somewhere else.
ConsumerIs(v, w, row) ==
  /\ consumer' \in [Services -> [Consumers -> ConsumerRows]]
  /\ consumer'[v][w] = row
  /\ \A x \in Services, u \in Consumers : x # v \/ u # w => consumer'[x][u] = consumer[x][u]

LEMMA ConsumerGoes ==
  ASSUME MessageTypes, NEW v \in Services, NEW w \in Consumers, NEW row \in ConsumerRows,
         consumer' = [consumer EXCEPT ![v][w] = row]
  PROVE  ConsumerIs(v, w, row)
<1>1. consumer[v] \in [Consumers -> ConsumerRows]
  BY DEF MessageTypes
<1>2. [consumer[v] EXCEPT ![w] = row] \in [Consumers -> ConsumerRows]
  BY <1>1
<1>3. consumer' = [consumer EXCEPT ![v] = [consumer[v] EXCEPT ![w] = row]]
  OBVIOUS
<1>4. consumer'[v] = [consumer[v] EXCEPT ![w] = row] /\ \A x \in Services : x # v => consumer'[x] = consumer[x]
  BY <1>3 DEF MessageTypes
<1>5. consumer' \in [Services -> [Consumers -> ConsumerRows]]
  BY <1>2, <1>3 DEF MessageTypes
<1> QED
  BY <1>1, <1>4, <1>5 DEF ConsumerIs

LEMMA ConsumerWent ==
  ASSUME MessageTypes, NEW v \in Services, NEW w \in Consumers,
         NEW label \in {"recorded", "read"}, NEW n \in Nat, Goto(v, w, label, n)
  PROVE  ConsumerIs(v, w, [at |-> label, msg |-> consumer[v][w].msg, read |-> n])
<1> DEFINE row == [at |-> label, msg |-> consumer[v][w].msg, read |-> n]
<1>1. consumer[v][w] \in ConsumerRows
  BY DEF MessageTypes
<1>2. row \in ConsumerRows
  BY <1>1 DEF ConsumerRows
<1>3. consumer' = [consumer EXCEPT ![v][w] = row]
  BY DEF Goto
<1> HIDE DEF row
<1>4. ConsumerIs(v, w, row)
  BY <1>2, <1>3, ConsumerGoes
<1> QED
  BY <1>4 DEF row

\* A consumer at work has a message that was sent.
LEMMA MessageWorkedAt ==
  ASSUME MessageTypes, NEW v \in Services, NEW w \in Consumers, NEW m \in sentBy, m # NoMessage,
         NEW label \in {"marked", "recorded", "read"}, NEW n \in Nat, label = "read" => m \in Debts,
         ConsumerIs(v, w, [at |-> label, msg |-> m, read |-> n]),
         UNCHANGED <<sentBy, arrived>>, markedAt' \in [Services -> SUBSET sentBy]
  PROVE  MessageTypes'
<1> DEFINE row == [at |-> label, msg |-> m, read |-> n]
<1>1. row.at = label /\ row.msg = m
  OBVIOUS
<1>2. consumer'[v][w] = row /\ \A x \in Services, u \in Consumers : x # v \/ u # w => consumer'[x][u] = consumer[x][u]
  BY DEF ConsumerIs
<1> HIDE DEF row
<1>3. \A x \in Services, u \in Consumers :
       /\ consumer'[x][u].at = "idle" <=> consumer'[x][u].msg = NoMessage
       /\ consumer'[x][u].at = "idle" => consumer'[x][u] = Resting
       /\ consumer'[x][u].at = "read" => consumer'[x][u].msg \in Debts
       /\ consumer'[x][u].msg \in sentBy \cup {NoMessage}
  BY <1>1, <1>2 DEF MessageTypes
<1> QED
  BY <1>3 DEF MessageTypes, ConsumerIs

\* Whoever works at a message works alone, unless the service is torn.
LEMMA WorksAlone ==
  ASSUME DebtInv, NEW v \in Services, v \notin torn, NEW w \in Consumers, consumer[v][w].at # "idle"
  PROVE  \A u \in Consumers : u # w => consumer[v][u] = Resting
  BY RestingIsARow DEF DebtInv, KnowsAmount, Busy

LEMMA PublishKeeps == ASSUME DebtInv, NEW m \in Messages, Publish(m) PROVE DebtInv'
<1> USE DEF DebtInv
<1>1. UNCHANGED <<markedAt, consumer, flag, owed, rowOf, copy, expected, torn>> /\ sentBy' = sentBy \cup {m}
  BY DEF Publish
<1>2. arrived' \in [Services -> SUBSET sentBy']
  BY <1>1 DEF Publish, MessageTypes
<1>3. MessageTypes'
  BY <1>1, <1>2 DEF MessageTypes
<1>4. DebtTypes' /\ \A v \in Services : Busy(v)' = Busy(v)
  BY <1>1 DEF DebtTypes, Busy
<1>5. \A v \in Services : KnowsAmount(v) => KnowsAmount(v)'
  BY <1>1, <1>4 DEF KnowsAmount
<1>6. (KnowsRows => KnowsRows') /\ (CopyIsFresh => CopyIsFresh')
  BY <1>1, <1>4, ArrearsAssumption DEF KnowsRows, CopyIsFresh, IsOpen
<1> QED
  BY <1>1, <1>3, <1>4, <1>5, <1>6

LEMMA SkipMessageKeeps ==
  ASSUME DebtInv, NEW v \in Services, NEW m \in Messages, SkipMessage(v, m) PROVE DebtInv'
<1> USE DEF DebtInv
<1>1. UNCHANGED <<sentBy, markedAt, consumer, flag, owed, rowOf, copy, expected, torn>>
  BY DEF SkipMessage
<1>2. arrived' \in [Services -> SUBSET sentBy']
  BY <1>1 DEF SkipMessage, MessageTypes
<1>3. MessageTypes'
  BY <1>1, <1>2 DEF MessageTypes
<1>4. DebtTypes' /\ \A x \in Services : Busy(x)' = Busy(x)
  BY <1>1 DEF DebtTypes, Busy
<1>5. \A x \in Services : KnowsAmount(x) => KnowsAmount(x)'
  BY <1>1, <1>4 DEF KnowsAmount
<1>6. (KnowsRows => KnowsRows') /\ (CopyIsFresh => CopyIsFresh')
  BY <1>1, <1>4, ArrearsAssumption DEF KnowsRows, CopyIsFresh, IsOpen
<1> QED
  BY <1>1, <1>3, <1>4, <1>5, <1>6

LEMMA MarkMessageKeeps ==
  ASSUME DebtInv, NEW v \in Services, NEW m \in Messages, NEW w \in Consumers, MarkMessage(v, w, m)
  PROVE  DebtInv'
<1> USE DEF DebtInv
<1> DEFINE row == [at |-> "marked", msg |-> m, read |-> 0]
<1>1. /\ consumer[v][w] = Resting /\ m \in sentBy
      /\ consumer' = [consumer EXCEPT ![v][w] = row]
      /\ torn \subseteq torn' /\ torn' \subseteq torn \cup {v}
      /\ v \notin torn' => Busy(v) = {} /\ (v = Iam => ~copy.held)
      /\ UNCHANGED <<sentBy, arrived, flag, owed, rowOf, copy, expected>>
  BY DEF MarkMessage, Free, MessageTypes
<1>2. row \in ConsumerRows
  BY DEF ConsumerRows
<1>3. ConsumerIs(v, w, row)
  BY <1>1, <1>2, ConsumerGoes
<1>4. markedAt' \in [Services -> SUBSET sentBy]
  BY <1>1 DEF MarkMessage, MessageTypes
<1>5. MessageTypes'
  <2>1. m # NoMessage
    BY ArrearsAssumption
  <2> QED
    BY <1>1, <1>3, <1>4, <2>1, MessageWorkedAt
<1>6. DebtTypes'
  BY <1>1 DEF DebtTypes
<1>7. Apart(v)
  BY <1>1, <1>3 DEF Apart, ConsumerIs
<1>8. ASSUME v \notin torn' PROVE KnowsAmount(v)' /\ (v = Iam => KnowsRows' /\ CopyIsFresh')
  <2>1. v \notin torn /\ Busy(v) = {} /\ \A u \in Consumers : u # w => consumer'[v][u] = Resting
    BY <1>1, <1>3, <1>8 DEF Busy, ConsumerIs
  <2>2. \A u \in Consumers : consumer'[v][u].at = "idle" \/ (u = w /\ consumer'[v][u].at = "marked")
    BY <1>3, <2>1, RestingIsARow DEF ConsumerIs
  <2>3. \A u \in Consumers : consumer[v][u].at = "idle"
    BY <2>1, RestingIsARow DEF Busy
  <2>4. KnowsAmount(v)'
    BY <1>1, <2>1, <2>2 DEF KnowsAmount, Busy
  <2>5. ASSUME v = Iam PROVE KnowsRows' /\ CopyIsFresh'
    BY <1>1, <1>8, <2>1, <2>2, <2>3, <2>5 DEF KnowsRows, CopyIsFresh, IsOpen
  <2> QED
    BY <2>4, <2>5
<1> QED
  BY <1>5, <1>6, <1>7, <1>8, OthersKnow

\* A row of which a debt is recorded.
LEMMA RecordDebtKeeps ==
  ASSUME DebtInv, NEW v \in Services, NEW w \in Consumers, RecordDebt(v, w) PROVE DebtInv'
<1> USE DEF DebtInv
<1>1. PICK m \in Debts : m = consumer[v][w].msg
  BY DEF RecordDebt
<1>2. /\ consumer[v][w].at = "marked" /\ Goto(v, w, "recorded", 0)
      /\ UNCHANGED <<sentBy, arrived, markedAt, flag, owed, copy, expected, torn>>
      /\ rowOf' = IF v = Iam THEN [rowOf EXCEPT ![m] = "outstanding"] ELSE rowOf
  BY <1>1 DEF RecordDebt
<1>3. ConsumerIs(v, w, [at |-> "recorded", msg |-> m, read |-> 0])
  BY <1>1, <1>2, ConsumerWent
<1>4. m # NoMessage /\ m \in sentBy
  BY <1>1, RestingIsARow DEF MessageTypes
<1>5. MessageTypes'
  <2>1. UNCHANGED <<sentBy, arrived>> /\ markedAt' \in [Services -> SUBSET sentBy]
    BY <1>2 DEF MessageTypes
  <2> QED
    BY <1>3, <1>4, <2>1, MessageWorkedAt
<1>6. DebtTypes'
  BY <1>2 DEF DebtTypes
<1>7. Apart(v)
  BY <1>2, <1>3 DEF Apart, ConsumerIs
<1>8. ASSUME v \notin torn' PROVE KnowsAmount(v)' /\ (v = Iam => KnowsRows' /\ CopyIsFresh')
  <2>1. v \notin torn /\ \A u \in Consumers : u # w => consumer'[v][u] = Resting
    BY <1>2, <1>3, <1>8, WorksAlone DEF ConsumerIs
  <2>2. KnowsAmount(v)'
    BY <1>2, <1>3, <2>1, RestingIsARow DEF KnowsAmount, Busy, ConsumerIs
  <2>3. ASSUME v = Iam PROVE KnowsRows' /\ CopyIsFresh'
    <3>1. rowOf'[m] = "outstanding"
      BY <1>2, <2>3 DEF DebtTypes
    <3>2. KnowsRows'
      BY <1>3, <2>1, <2>3, <3>1, RestingIsARow DEF KnowsRows, ConsumerIs
    <3>3. w \in Busy(Iam)
      BY <1>2, <2>3, RestingIsARow DEF Busy
    <3>4. CopyIsFresh'
      BY <1>2, <2>1, <2>3, <3>3 DEF CopyIsFresh
    <3> QED
      BY <3>2, <3>4
  <2> QED
    BY <2>2, <2>3
<1> QED
  BY <1>5, <1>6, <1>7, <1>8, OthersKnow

LEMMA ReadOwedKeeps ==
  ASSUME DebtInv, NEW v \in Services, NEW w \in Consumers, ReadOwed(v, w) PROVE DebtInv'
<1> USE DEF DebtInv
<1>1. PICK m \in Debts, n \in Nat : m = consumer[v][w].msg /\ n = owed[v]
  BY DEF ReadOwed, DebtTypes
<1>2. /\ consumer[v][w].at = "recorded" /\ Goto(v, w, "read", n)
      /\ UNCHANGED <<sentBy, arrived, markedAt, flag, owed, rowOf, copy, expected, torn>>
  BY <1>1 DEF ReadOwed
<1>3. ConsumerIs(v, w, [at |-> "read", msg |-> m, read |-> n])
  BY <1>1, <1>2, ConsumerWent
<1>4. m # NoMessage /\ m \in sentBy
  BY <1>1, RestingIsARow DEF MessageTypes
<1>5. MessageTypes'
  <2>1. UNCHANGED <<sentBy, arrived>> /\ markedAt' \in [Services -> SUBSET sentBy]
    BY <1>2 DEF MessageTypes
  <2> QED
    BY <1>3, <1>4, <2>1, MessageWorkedAt
<1>6. DebtTypes'
  BY <1>2 DEF DebtTypes
<1>7. Apart(v)
  BY <1>2, <1>3 DEF Apart, ConsumerIs
<1>8. ASSUME v \notin torn' PROVE KnowsAmount(v)' /\ (v = Iam => KnowsRows' /\ CopyIsFresh')
  <2>1. v \notin torn /\ \A u \in Consumers : u # w => consumer'[v][u] = Resting
    BY <1>2, <1>3, <1>8, WorksAlone DEF ConsumerIs
  <2>2. KnowsAmount(v)'
    BY <1>1, <1>2, <1>3, <2>1, RestingIsARow DEF KnowsAmount, Busy, ConsumerIs
  <2>3. ASSUME v = Iam PROVE KnowsRows' /\ CopyIsFresh'
    <3>1. rowOf[m] = "outstanding"
      BY <1>1, <1>2, <2>1, <2>3 DEF KnowsRows
    <3>2. KnowsRows'
      BY <1>2, <1>3, <2>1, <2>3, <3>1, RestingIsARow DEF KnowsRows, ConsumerIs
    <3>3. w \in Busy(Iam)
      BY <1>2, <2>3, RestingIsARow DEF Busy
    <3>4. CopyIsFresh'
      BY <1>2, <2>1, <2>3, <3>3 DEF CopyIsFresh
    <3> QED
      BY <3>2, <3>4
  <2> QED
    BY <2>2, <2>3
<1> QED
  BY <1>5, <1>6, <1>7, <1>8, OthersKnow

\* A consumer that is done rests.
LEMMA ConsumerRests ==
  ASSUME MessageTypes, NEW v \in Services, NEW w \in Consumers, consumer' = [consumer EXCEPT ![v][w] = Resting],
         UNCHANGED <<sentBy, markedAt>>, arrived' \in [Services -> SUBSET sentBy]
  PROVE  ConsumerIs(v, w, Resting) /\ MessageTypes'
<1>1. ConsumerIs(v, w, Resting)
  BY RestingIsARow, ConsumerGoes
<1>2. consumer'[v][w] = Resting /\ \A x \in Services, u \in Consumers : x # v \/ u # w => consumer'[x][u] = consumer[x][u]
  BY <1>1 DEF ConsumerIs
<1>3. \A x \in Services, u \in Consumers :
       /\ consumer'[x][u].at = "idle" <=> consumer'[x][u].msg = NoMessage
       /\ consumer'[x][u].at = "idle" => consumer'[x][u] = Resting
       /\ consumer'[x][u].at = "read" => consumer'[x][u].msg \in Debts
       /\ consumer'[x][u].msg \in sentBy \cup {NoMessage}
  BY <1>2, RestingIsARow DEF MessageTypes
<1> QED
  BY <1>1, <1>3 DEF MessageTypes, ConsumerIs

\* When the one at work is done, nobody is at work.
LEMMA NobodyAtWork ==
  ASSUME DebtInv, NEW v \in Services, v \notin torn, NEW w \in Consumers, consumer[v][w].at # "idle",
         ConsumerIs(v, w, Resting)
  PROVE  Busy(v)' = {} /\ \A u \in Consumers : consumer'[v][u].at = "idle"
<1>1. \A u \in Consumers : u # w => consumer[v][u] = Resting
  BY WorksAlone
<1>2. \A u \in Consumers : consumer'[v][u] = Resting
  BY <1>1 DEF ConsumerIs
<1> QED
  BY <1>2, RestingIsARow DEF Busy

LEMMA AddDebtKeeps ==
  ASSUME DebtInv, NEW v \in Services, NEW w \in Consumers, AddDebt(v, w) PROVE DebtInv'
<1> USE DEF DebtInv
<1>1. consumer[v][w].at = "read"
  BY DEF AddDebt
<1>2. PICK m \in Debts, n \in Nat : m = consumer[v][w].msg /\ n = consumer[v][w].read
  BY <1>1 DEF MessageTypes, ConsumerRows
<1>3. /\ flag' = [flag EXCEPT ![v] = TRUE]
      /\ owed' = [owed EXCEPT ![v] = n + AmountOf[m]]
      /\ expected' = [expected EXCEPT ![v] = @ + AmountOf[m]]
      /\ consumer' = [consumer EXCEPT ![v][w] = Resting]
      /\ arrived' = [arrived EXCEPT ![v] = @ \ {m}]
      /\ UNCHANGED <<sentBy, markedAt, rowOf, copy, torn>>
  BY <1>2 DEF AddDebt, Sum, Done
<1>4. AmountOf[m] \in Nat /\ AmountOf[m] > 0
  BY RestingIsARow
<1>5. arrived' \in [Services -> SUBSET sentBy]
  BY <1>3 DEF MessageTypes
<1>6. ConsumerIs(v, w, Resting) /\ MessageTypes'
  BY <1>3, <1>5, ConsumerRests
<1>7. /\ flag' \in [Services -> BOOLEAN] /\ owed' \in [Services -> Nat] /\ expected' \in [Services -> Nat]
      /\ flag'[v] = TRUE /\ owed'[v] = n + AmountOf[m] /\ expected'[v] = expected[v] + AmountOf[m]
      /\ \A x \in Services : x # v => owed'[x] = owed[x] /\ flag'[x] = flag[x] /\ expected'[x] = expected[x]
  BY <1>3, <1>4 DEF DebtTypes
<1>8. DebtTypes'
  BY <1>3, <1>7 DEF DebtTypes
<1>9. Apart(v)
  BY <1>3, <1>6, <1>7 DEF Apart, ConsumerIs
<1>10. ASSUME v \notin torn' PROVE KnowsAmount(v)' /\ (v = Iam => KnowsRows' /\ CopyIsFresh')
  <2>1. v \notin torn /\ n = owed[v] /\ owed[v] = expected[v] /\ expected[v] \in Nat
    BY <1>1, <1>2, <1>3, <1>10 DEF KnowsAmount, DebtTypes
  <2>2. Busy(v)' = {} /\ \A u \in Consumers : consumer'[v][u].at = "idle"
    BY <1>1, <1>6, <2>1, NobodyAtWork
  <2>3. owed'[v] = expected'[v] /\ owed'[v] > 0
    BY <1>4, <1>7, <2>1
  <2>4. KnowsAmount(v)'
    BY <1>7, <2>2, <2>3 DEF KnowsAmount
  <2>5. ASSUME v = Iam PROVE KnowsRows' /\ CopyIsFresh'
    <3>1. IsOpen'
      BY <1>1, <1>2, <1>3, <2>1, <2>5 DEF KnowsRows, IsOpen
    <3>2. w \in Busy(Iam)
      BY <1>1, <2>5, RestingIsARow DEF Busy
    <3> QED
      BY <1>3, <1>7, <2>1, <2>2, <2>5, <3>1, <3>2 DEF KnowsRows, CopyIsFresh
  <2> QED
    BY <2>4, <2>5
<1> QED
  BY <1>6, <1>8, <1>9, <1>10, OthersKnow

LEMMA ClearRowsKeeps ==
  ASSUME DebtInv, NEW v \in Services, NEW w \in Consumers, ClearRows(v, w) PROVE DebtInv'
<1> USE DEF DebtInv
<1>1. PICK m \in Topups : m = consumer[v][w].msg
  BY DEF ClearRows
<1>2. /\ consumer[v][w].at = "marked" /\ Goto(v, w, "recorded", 0)
      /\ UNCHANGED <<sentBy, arrived, markedAt, flag, owed, copy, expected, torn>>
      /\ rowOf' = IF v = Iam THEN ClearedRows(rowOf) ELSE rowOf
  BY <1>1 DEF ClearRows
<1>3. ConsumerIs(v, w, [at |-> "recorded", msg |-> m, read |-> 0])
  BY <1>1, <1>2, ConsumerWent
<1>4. m # NoMessage /\ m \in sentBy
  BY <1>1, RestingIsARow DEF MessageTypes
<1>5. MessageTypes'
  <2>1. UNCHANGED <<sentBy, arrived>> /\ markedAt' \in [Services -> SUBSET sentBy]
    BY <1>2 DEF MessageTypes
  <2> QED
    BY <1>3, <1>4, <2>1, MessageWorkedAt
<1>6. DebtTypes'
  <2>1. rowOf' \in [Debts -> {"none", "outstanding", "cleared"}]
    BY <1>2 DEF DebtTypes, ClearedRows
  <2> QED
    BY <1>2, <2>1 DEF DebtTypes
<1>7. Apart(v)
  BY <1>2, <1>3 DEF Apart, ConsumerIs
<1>8. ASSUME v \notin torn' PROVE KnowsAmount(v)' /\ (v = Iam => KnowsRows' /\ CopyIsFresh')
  <2>1. v \notin torn /\ \A u \in Consumers : u # w => consumer'[v][u] = Resting
    BY <1>2, <1>3, <1>8, WorksAlone DEF ConsumerIs
  <2>2. KnowsAmount(v)'
    BY <1>2, <1>3, <2>1, RestingIsARow DEF KnowsAmount, Busy, ConsumerIs
  <2>3. ASSUME v = Iam PROVE KnowsRows' /\ CopyIsFresh'
    <3>1. ~IsOpen'
      BY <1>2, <2>3 DEF ClearedRows, IsOpen
    <3>2. KnowsRows'
      BY <1>3, <2>1, <2>3, <3>1, RestingIsARow DEF KnowsRows, ConsumerIs
    <3>3. w \in Busy(Iam)
      BY <1>2, <2>3, RestingIsARow DEF Busy
    <3>4. CopyIsFresh'
      BY <1>2, <2>1, <2>3, <3>3 DEF CopyIsFresh
    <3> QED
      BY <3>2, <3>4
  <2> QED
    BY <2>2, <2>3
<1> QED
  BY <1>5, <1>6, <1>7, <1>8, OthersKnow

LEMMA ResetFlagKeeps ==
  ASSUME DebtInv, NEW v \in Services, NEW w \in Consumers, ResetFlag(v, w) PROVE DebtInv'
<1> USE DEF DebtInv
<1>1. PICK m \in Topups : m = consumer[v][w].msg
  BY DEF ResetFlag
<1>2. /\ consumer[v][w].at = "recorded"
      /\ flag' = [flag EXCEPT ![v] = FALSE]
      /\ owed' = [owed EXCEPT ![v] = 0]
      /\ expected' = [expected EXCEPT ![v] = 0]
      /\ consumer' = [consumer EXCEPT ![v][w] = Resting]
      /\ arrived' = [arrived EXCEPT ![v] = @ \ {m}]
      /\ UNCHANGED <<sentBy, markedAt, rowOf, copy, torn>>
  BY <1>1 DEF ResetFlag, Done
<1>3. arrived' \in [Services -> SUBSET sentBy]
  BY <1>2 DEF MessageTypes
<1>4. ConsumerIs(v, w, Resting) /\ MessageTypes'
  BY <1>2, <1>3, ConsumerRests
<1>5. /\ flag' \in [Services -> BOOLEAN] /\ owed' \in [Services -> Nat] /\ expected' \in [Services -> Nat]
      /\ flag'[v] = FALSE /\ owed'[v] = 0 /\ expected'[v] = 0
      /\ \A x \in Services : x # v => owed'[x] = owed[x] /\ flag'[x] = flag[x] /\ expected'[x] = expected[x]
  BY <1>2 DEF DebtTypes
<1>6. DebtTypes'
  BY <1>2, <1>5 DEF DebtTypes
<1>7. Apart(v)
  BY <1>2, <1>4, <1>5 DEF Apart, ConsumerIs
<1>8. ASSUME v \notin torn' PROVE KnowsAmount(v)' /\ (v = Iam => KnowsRows' /\ CopyIsFresh')
  <2>1. v \notin torn
    BY <1>2, <1>8
  <2>2. Busy(v)' = {} /\ \A u \in Consumers : consumer'[v][u].at = "idle"
    BY <1>2, <1>4, <2>1, NobodyAtWork
  <2>3. KnowsAmount(v)'
    BY <1>5, <2>2 DEF KnowsAmount
  <2>4. ASSUME v = Iam PROVE KnowsRows' /\ CopyIsFresh'
    <3>1. ~IsOpen'
      BY <1>1, <1>2, <2>1, <2>4 DEF KnowsRows, IsOpen
    <3>2. w \in Busy(Iam)
      BY <1>2, <2>4, RestingIsARow DEF Busy
    <3> QED
      BY <1>2, <1>5, <2>1, <2>2, <2>4, <3>1, <3>2 DEF KnowsRows, CopyIsFresh
  <2> QED
    BY <2>3, <2>4
<1> QED
  BY <1>4, <1>6, <1>7, <1>8, OthersKnow

LEMMA ConsumerDiesKeeps ==
  ASSUME DebtInv, NEW v \in Services, NEW w \in Consumers, ConsumerDies(v, w) PROVE DebtInv'
<1> USE DEF DebtInv
<1>1. /\ consumer' = [consumer EXCEPT ![v][w] = Resting] /\ torn' = torn \cup {v}
      /\ UNCHANGED <<sentBy, arrived, markedAt, flag, owed, rowOf, copy, expected>>
  BY DEF ConsumerDies
<1>2. ConsumerIs(v, w, Resting) /\ MessageTypes'
  <2>1. arrived' \in [Services -> SUBSET sentBy]
    BY <1>1 DEF MessageTypes
  <2> QED
    BY <1>1, <2>1, ConsumerRests
<1>3. DebtTypes'
  BY <1>1 DEF DebtTypes
<1>4. Apart(v)
  BY <1>1, <1>2 DEF Apart, ConsumerIs
<1> QED
  BY <1>1, <1>2, <1>3, <1>4, OthersKnow

LEMMA UserKeeps == ASSUME DebtInv, ReadUser \/ WriteUser PROVE DebtInv'
<1> USE ArrearsAssumption DEF DebtInv
<1>1. /\ UNCHANGED <<sentBy, arrived, markedAt, consumer, rowOf, expected>>
      /\ torn \subseteq torn' /\ torn' \subseteq torn \cup {Iam}
  BY DEF ReadUser, WriteUser
<1>2. MessageTypes' /\ \A v \in Services : Busy(v)' = Busy(v)
  BY <1>1 DEF MessageTypes, Busy
<1>3. CASE ReadUser
  <2>1. /\ flag' = flag /\ owed' = owed
        /\ copy' = [held |-> TRUE, flag |-> flag[Iam], owed |-> owed[Iam]]
        /\ Iam \notin torn' => Busy(Iam) = {}
    BY <1>3 DEF ReadUser
  <2>2. copy' \in [held : BOOLEAN, flag : BOOLEAN, owed : Nat]
    BY <2>1 DEF DebtTypes
  <2>3. DebtTypes'
    BY <1>1, <2>1, <2>2 DEF DebtTypes
  <2>4. Apart(Iam)
    BY <1>1, <2>1 DEF Apart
  <2>5. ASSUME Iam \notin torn' PROVE KnowsAmount(Iam)' /\ KnowsRows' /\ CopyIsFresh'
    <3>1. KnowsAmount(Iam)' /\ KnowsRows'
      BY <1>1, <1>2, <2>1, <2>5 DEF KnowsAmount, KnowsRows, IsOpen
    <3>2. CopyIsFresh'
      BY <1>2, <2>1, <2>5 DEF CopyIsFresh
    <3> QED
      BY <3>1, <3>2
  <2> QED
    BY <1>2, <2>3, <2>4, <2>5, OthersKnow
<1>4. CASE WriteUser
  <2>1. /\ copy.held /\ copy' = NoCopy /\ torn' = torn
        /\ flag' = [flag EXCEPT ![Iam] = copy.flag] /\ owed' = [owed EXCEPT ![Iam] = copy.owed]
    BY <1>4 DEF WriteUser
  <2>2. copy.flag \in BOOLEAN /\ copy.owed \in Nat
    BY DEF DebtTypes
  <2>3. DebtTypes'
    <3>1. flag' \in [Services -> BOOLEAN]
      BY <2>1, <2>2 DEF DebtTypes
    <3>2. owed' \in [Services -> Nat]
      BY <2>1, <2>2 DEF DebtTypes
    <3>3. copy' \in [held : BOOLEAN, flag : BOOLEAN, owed : Nat]
      BY <2>1 DEF NoCopy
    <3> QED
      BY <1>1, <2>1, <3>1, <3>2, <3>3 DEF DebtTypes
  <2>4. Apart(Iam)
    BY <1>1, <2>1 DEF Apart, DebtTypes
  <2>5. ASSUME Iam \notin torn' PROVE KnowsAmount(Iam)' /\ KnowsRows' /\ CopyIsFresh'
    <3>1. flag'[Iam] = flag[Iam] /\ owed'[Iam] = owed[Iam]
      BY <2>1, <2>5 DEF CopyIsFresh, DebtTypes
    <3>2. KnowsAmount(Iam)' /\ KnowsRows'
      BY <1>1, <1>2, <2>1, <2>5, <3>1 DEF KnowsAmount, KnowsRows, IsOpen
    <3>3. CopyIsFresh'
      BY <2>1 DEF CopyIsFresh, NoCopy
    <3> QED
      BY <3>2, <3>3
  <2> QED
    BY <1>2, <2>3, <2>4, <2>5, OthersKnow
<1> QED
  BY <1>3, <1>4

LEMMA ArrearsStep == ASSUME DebtInv, [ArrearsNext]_arrears PROVE DebtInv'
<1>1. CASE UNCHANGED arrears
  <2>1. UNCHANGED <<sentBy, arrived, markedAt, consumer, flag, owed, rowOf, copy, expected, torn>>
    BY <1>1 DEF arrears
  <2>2. MessageTypes' /\ DebtTypes' /\ \A v \in Services : Busy(v)' = Busy(v)
    BY <2>1 DEF DebtInv, MessageTypes, DebtTypes, Busy
  <2>3. \A v \in Services : KnowsAmount(v) => KnowsAmount(v)'
    BY <2>1, <2>2 DEF KnowsAmount
  <2>4. (KnowsRows => KnowsRows') /\ (CopyIsFresh => CopyIsFresh')
    BY <2>1, <2>2, ArrearsAssumption DEF KnowsRows, CopyIsFresh, IsOpen
  <2> QED
    BY <2>1, <2>2, <2>3, <2>4 DEF DebtInv
<1>2. ASSUME NEW m \in Messages, Publish(m) PROVE DebtInv'
  BY <1>2, PublishKeeps
<1>3. ASSUME NEW v \in Services, NEW m \in Messages, SkipMessage(v, m) \/ \E w \in Consumers : MarkMessage(v, w, m)
      PROVE DebtInv'
  BY <1>3, SkipMessageKeeps, MarkMessageKeeps
<1>4. ASSUME NEW v \in Services, NEW w \in Consumers, RecordDebt(v, w) \/ ReadOwed(v, w) \/ AddDebt(v, w)
      PROVE DebtInv'
  BY <1>4, RecordDebtKeeps, ReadOwedKeeps, AddDebtKeeps
<1>5. ASSUME NEW v \in Services, NEW w \in Consumers, ClearRows(v, w) \/ ResetFlag(v, w) \/ ConsumerDies(v, w)
      PROVE DebtInv'
  BY <1>5, ClearRowsKeeps, ResetFlagKeeps, ConsumerDiesKeeps
<1>6. ASSUME ReadUser \/ WriteUser PROVE DebtInv'
  BY <1>6, UserKeeps
<1> QED
  BY <1>1, <1>2, <1>3, <1>4, <1>5, <1>6 DEF ArrearsNext

LEMMA ArrearsTyped == ASSUME DebtInv PROVE ArrearsTypeOK /\ DebtIsRemembered
<1> USE ArrearsAssumption DEF DebtInv
<1>1. ArrearsTypeOK
  BY DEF MessageTypes, DebtTypes, ArrearsTypeOK
<1>2. ASSUME NEW v \in Services \ torn, Busy(v) = {}
      PROVE  /\ owed[v] = expected[v] /\ (flag[v] <=> owed[v] > 0)
             /\ v = Iam => (flag[v] <=> \E d \in Debts : rowOf[d] = "outstanding")
  <2>1. \A u \in Consumers : consumer[v][u].at = "idle"
    BY <1>2, RestingIsARow DEF Busy
  <2> QED
    BY <1>2, <2>1 DEF KnowsAmount, KnowsRows, IsOpen
<1> QED
  BY <1>1, <1>2 DEF DebtIsRemembered

-----------------------------------------------------------------------------
(* Loops.                                                                  *)

\* A set of naturals has a least element.
LEMMA Least == ASSUME NEW S \in SUBSET Nat, S # {} PROVE \E n \in S : \A m \in S : n <= m
<1> DEFINE R == {p \in Nat \X Nat : p[1] < p[2]}
<1>1. \A x, y : <<x, y>> \in R <=> (x \in Nat /\ y \in Nat /\ x < y)
  OBVIOUS
<1>2. IsWellFoundedOn(R, Nat)
  <2>1. OpToRel(<, Nat) = R
    BY DEF OpToRel
  <2> QED
    BY <2>1, NatLessThanWellFounded, Zenon
<1> HIDE DEF R
<1>3. PICK n \in S : \A m \in S : <<m, n>> \notin R
  BY <1>2, WFMin
<1>4. ASSUME NEW m \in S PROVE n <= m
  <2>1. m \in Nat /\ n \in Nat
    OBVIOUS
  <2>2. ~(m < n)
    BY <1>1, <1>3, <2>1
  <2> QED
    BY <2>1, <2>2
<1> QED
  BY <1>4

\* What holds before the first round, and after each round if before it, holds always.
LEMMA EachRound ==
  ASSUME NEW N \in Nat, NEW S, 0 \in S, \A n \in 1 .. N : n - 1 \in S => n \in S
  PROVE  0 .. N \subseteq S
<1> SUFFICES ASSUME {n \in 0 .. N : n \notin S} # {} PROVE FALSE
  OBVIOUS
<1> DEFINE T == {n \in 0 .. N : n \notin S}
<1>1. PICK n \in T : \A m \in T : n <= m
  <2>1. T \in SUBSET Nat /\ T # {}
    OBVIOUS
  <2> HIDE DEF T
  <2> QED
    BY <2>1, Least
<1>2. n # 0 /\ n \in 1 .. N
  OBVIOUS
<1>3. n - 1 \notin T /\ n - 1 \in 0 .. N
  BY <1>1, <1>2
<1> QED
  BY <1>2, <1>3

\* The rounds of a loop that runs from 1 to N, what each makes of what it finds; and a run.
AreRounds(round, N, X) == round \in [1 .. N -> [X -> X]]
IsRun(run, N, X, s, round) ==
  run \in [0 .. N -> X] /\ run[0] = s /\ \A n \in 1 .. N : run[n] = round[n][run[n - 1]]

\* A loop of N rounds has a run, whatever its rounds do with what they find.
LEMMA LoopRuns ==
  ASSUME NEW N \in Nat, NEW X, NEW s \in X, NEW round, AreRounds(round, N, X)
  PROVE  \E run : IsRun(run, N, X, s, round)
<1> USE DEF AreRounds
<1> DEFINE Begun(m) == {run \in [0 .. m -> X] : run[0] = s /\ \A n \in 1 .. m : run[n] = round[n][run[n - 1]]}
           S == {m \in 0 .. N : Begun(m) # {}}
<1>1. 0 \in S
  <2>1. [n \in 0 .. 0 |-> s] \in Begun(0)
    OBVIOUS
  <2> QED
    BY <2>1
<1>2. ASSUME NEW m \in 1 .. N, m - 1 \in S PROVE m \in S
  <2>1. PICK run : run \in Begun(m - 1)
    BY <1>2
  <2> DEFINE more == [n \in 0 .. m |-> IF n = m THEN round[m][run[m - 1]] ELSE run[n]]
  <2>2. run[m - 1] \in X
    BY <2>1
  <2>3. round[m] \in [X -> X]
    OBVIOUS
  <2>4. round[m][run[m - 1]] \in X
    BY <2>2, <2>3
  <2>5. more \in [0 .. m -> X]
    <3>1. ASSUME NEW n \in 0 .. m PROVE more[n] \in X
      <4>1. CASE n = m
        BY <4>1, <2>4
      <4>2. CASE n # m
        <5>1. n \in 0 .. m - 1
          BY <4>2
        <5> QED
          BY <4>2, <5>1, <2>1
      <4> QED
        BY <4>1, <4>2
    <3> QED
      BY <3>1
  <2>6. more[0] = s
    BY <2>1
  <2>7. ASSUME NEW n \in 1 .. m PROVE more[n] = round[n][more[n - 1]]
    <3>1. CASE n = m
      BY <3>1
    <3>2. CASE n # m
      <4>1. n \in 1 .. m - 1 /\ n - 1 \in 0 .. m /\ n - 1 # m
        BY <3>2
      <4>2. more[n] = run[n] /\ more[n - 1] = run[n - 1]
        BY <4>1, <3>2
      <4>3. run[n] = round[n][run[n - 1]]
        BY <2>1, <4>1
      <4> QED
        BY <4>2, <4>3
    <3> QED
      BY <3>1, <3>2
  <2>8. more \in Begun(m)
    BY <2>5, <2>6, <2>7
  <2> HIDE DEF more, Begun
  <2>9. Begun(m) # {} /\ m \in 0 .. N
    BY <2>8
  <2> QED
    BY <2>9
<1>3. N \in S
  <2> HIDE DEF S
  <2>1. 0 .. N \subseteq S
    BY <1>1, <1>2, EachRound
  <2> QED
    BY <2>1
<1> QED
  BY <1>3 DEF IsRun

-----------------------------------------------------------------------------
(* Listings.                                                               *)

IsListing(list, n, S, R) ==
  /\ list \in [1 .. n -> S]
  /\ \A i, j \in 1 .. n : i < j => list[i] # list[j] /\ <<list[i], list[j]>> \in R
  /\ \A x \in S : \E i \in 1 .. n : list[i] = x

\* A member that all others may precede goes to the end.
LEMMA AtTheEnd ==
  ASSUME NEW S, NEW R, NEW n \in Nat \ {0}, NEW x \in S, NEW list, IsListing(list, n - 1, S \ {x}, R),
         \A y \in S \ {x} : <<y, x>> \in R
  PROVE  \E more : IsListing(more, n, S, R)
<1> DEFINE more == [i \in 1 .. n |-> IF i = n THEN x ELSE list[i]]
<1>1. ASSUME NEW i \in 1 .. n, i # n PROVE i \in 1 .. n - 1 /\ more[i] = list[i] /\ list[i] \in S \ {x}
  <2>1. i \in 1 .. n - 1
    BY <1>1
  <2> QED
    BY <2>1, <1>1 DEF IsListing
<1>2. more \in [1 .. n -> S] /\ n \in 1 .. n /\ more[n] = x
  BY <1>1
<1>3. ASSUME NEW i \in 1 .. n, NEW j \in 1 .. n, i < j
      PROVE  more[i] # more[j] /\ <<more[i], more[j]>> \in R
  <2>1. CASE j = n
    <3>1. i # n
      BY <2>1, <1>3
    <3>2. more[i] \in S \ {x} /\ more[j] = x
      BY <3>1, <2>1, <1>1, <1>2
    <3> QED
      BY <3>2
  <2>2. CASE j # n
    <3>1. i # n
      BY <2>2, <1>3
    <3>2. i \in 1 .. n - 1 /\ j \in 1 .. n - 1 /\ more[i] = list[i] /\ more[j] = list[j]
      BY <2>2, <3>1, <1>1
    <3> HIDE DEF more
    <3> QED
      BY <3>2, <1>3 DEF IsListing
  <2> QED
    BY <2>1, <2>2
<1>4. ASSUME NEW y \in S PROVE \E i \in 1 .. n : more[i] = y
  <2>1. CASE y = x
    BY <2>1, <1>2
  <2>2. CASE y # x
    <3>1. PICK i \in 1 .. n - 1 : list[i] = y
      BY <2>2 DEF IsListing
    <3>2. i \in 1 .. n /\ i # n
      BY <3>1
    <3> QED
      BY <3>1, <3>2
  <2> QED
    BY <2>1, <2>2
<1> HIDE DEF more
<1>5. IsListing(more, n, S, R)
  BY <1>2, <1>3, <1>4 DEF IsListing
<1> QED
  BY <1>5

\* A finite set has a listing for every total order.
LEMMA CanBeListed ==
  ASSUME NEW S, IsFiniteSet(S), NEW R,
         \A a, b \in S : <<a, b>> \in R \/ <<b, a>> \in R,
         \A a, b, c \in S : <<a, b>> \in R /\ <<b, c>> \in R => <<a, c>> \in R
  PROVE  \E list : IsListing(list, Cardinality(S), S, R)
<1> DEFINE N == Cardinality(S)
           Listable == {n \in 0 .. N : \A T \in SUBSET S : Cardinality(T) = n => \E list : IsListing(list, n, T, R)}
<1>1. N \in Nat
  BY FS_CardinalityType
<1>2. 0 \in Listable
  <2>1. ASSUME NEW T \in SUBSET S, Cardinality(T) = 0 PROVE \E list : IsListing(list, 0, T, R)
    <3>1. T = {}
      BY <2>1, FS_Subset, FS_EmptySet
    <3>2. IsListing([i \in 1 .. 0 |-> i], 0, T, R)
      BY <3>1 DEF IsListing
    <3> QED
      BY <3>2
  <2> QED
    BY <2>1, <1>1
<1>3. ASSUME NEW n \in 1 .. N, n - 1 \in Listable PROVE n \in Listable
  <2> SUFFICES ASSUME NEW T \in SUBSET S, Cardinality(T) = n
               PROVE  \E list : IsListing(list, n, T, R)
    OBVIOUS
  <2>1. IsFiniteSet(T) /\ T # {} /\ n \in Nat \ {0}
    <3>1. IsFiniteSet(T)
      BY FS_Subset
    <3>2. n # 0 /\ n \in Nat \ {0}
      BY <1>1
    <3> QED
      BY <3>1, <3>2, FS_EmptySet
  <2>2. PICK x : x \in T
    BY <2>1
  <2>3. ASSUME NEW y \in T PROVE T \ {y} \in SUBSET S /\ Cardinality(T \ {y}) = n - 1
    BY <2>1, <2>3, FS_RemoveElement
  <2>4. PICK list : IsListing(list, n - 1, T \ {x}, R)
    BY <2>2, <2>3, <1>3
  <2>5. CASE n = 1
    <3>1. \A y \in T \ {x} : FALSE
      BY <2>4, <2>5 DEF IsListing
    <3> QED
      BY <3>1, <2>4, <2>2, <2>1, AtTheEnd
  <2>6. CASE n # 1
    <3> DEFINE last == list[n - 1]
    <3>1. n - 1 \in 1 .. n - 1 /\ last \in T \ {x}
      BY <2>4, <2>6, <1>1 DEF IsListing
    <3>2. ASSUME NEW y \in T \ {x}, y # last PROVE <<y, last>> \in R
      <4>1. PICK i \in 1 .. n - 1 : list[i] = y
        BY <2>4 DEF IsListing
      <4>2. i < n - 1
        BY <4>1, <3>2, <3>1
      <4> QED
        BY <4>1, <4>2, <3>1, <2>4 DEF IsListing
    <3> HIDE DEF last
    <3>3. CASE <<last, x>> \in R
      <4>1. ASSUME NEW y \in T \ {x} PROVE <<y, x>> \in R
        <5>1. CASE y = last
          BY <5>1, <3>3
        <5>2. CASE y # last
          <6>1. <<y, last>> \in R
            BY <5>2, <3>2
          <6> QED
            BY <6>1, <3>3, <3>1, <2>2
        <5> QED
          BY <5>1, <5>2
      <4> QED
        BY <4>1, <2>4, <2>2, <2>1, AtTheEnd
    <3>4. CASE <<x, last>> \in R
      <4>1. \A y \in T \ {last} : <<y, last>> \in R
        BY <3>2, <3>4
      <4>2. PICK other : IsListing(other, n - 1, T \ {last}, R)
        BY <3>1, <2>3, <1>3
      <4> QED
        BY <4>1, <4>2, <3>1, <2>1, AtTheEnd
    <3> QED
      BY <3>3, <3>4, <3>1, <2>2
  <2> QED
    BY <2>5, <2>6
<1>4. N \in Listable
  <2> HIDE DEF Listable
  <2>1. 0 .. N \subseteq Listable
    BY <1>1, <1>2, <1>3, EachRound
  <2> QED
    BY <2>1, <1>1
<1> QED
  BY <1>4

\* What Listed gives is one.
LEMMA ListedIsListing ==
  ASSUME NEW S, IsFiniteSet(S), NEW R,
         \A a, b \in S : <<a, b>> \in R \/ <<b, a>> \in R,
         \A a, b, c \in S : <<a, b>> \in R /\ <<b, c>> \in R => <<a, c>> \in R
  PROVE  IsListing(Listed(S, R), Cardinality(S), S, R)
<1> DEFINE N == Cardinality(S)
           Fits(list) == \A i, j \in DOMAIN list : i < j => list[i] # list[j] /\ <<list[i], list[j]>> \in R
<1>1. N \in Nat
  BY FS_CardinalityType
<1>2. PICK some : IsListing(some, N, S, R)
  BY CanBeListed
<1>3. some \in [1 .. N -> S] /\ Fits(some)
  BY <1>2 DEF IsListing
<1>4. Listed(S, R) = CHOOSE list \in [1 .. N -> S] : Fits(list)
  BY DEF Listed
<1> HIDE DEF N, Fits
<1>5. Listed(S, R) \in [1 .. N -> S] /\ Fits(Listed(S, R))
  BY <1>3, <1>4
<1> DEFINE list == Listed(S, R)
<1> HIDE DEF list
<1>6. list \in [1 .. N -> S] /\ \A i, j \in 1 .. N : i < j => list[i] # list[j] /\ <<list[i], list[j]>> \in R
  BY <1>5 DEF list, Fits
<1>7. list \in Injection(1 .. N, S)
  <2>1. ASSUME NEW i \in 1 .. N, NEW j \in 1 .. N, list[i] = list[j] PROVE i = j
    <3>1. ~(i < j) /\ ~(j < i)
      BY <2>1, <1>6
    <3> QED
      BY <3>1, <1>1
  <2> QED
    BY <2>1, <1>6 DEF Injection, IsInjective
<1>8. Cardinality(1 .. N) = Cardinality(S)
  BY <1>1, FS_Interval DEF N
<1>9. list \in Surjection(1 .. N, S)
  BY <1>7, <1>8, FS_Injection
<1> QED
  BY <1>6, <1>9 DEF IsListing, Surjection, list, N

-----------------------------------------------------------------------------
(* SuggestCharger: what a plan costs.                                      *)

\* A charger as it is read.
ReadCharger ==
  [price : [Slots -> Nat \ {0}], booked : SUBSET (Int \X Int), session : Int \X Int, open : BOOLEAN, metric : Int]

IsSum(c, S, sum) ==
  /\ sum \in [0 .. Grid -> Nat]
  /\ sum[0] = 0
  /\ \A n \in 1 .. Grid : sum[n] = sum[n - 1] + (IF n - 1 \in S THEN c.price[n - 1] ELSE 0)

LEMMA PriceOfSlot ==
  ASSUME NEW c \in ReadCharger, NEW s \in Slots
  PROVE  c.price[s] \in Nat /\ c.price[s] > 0
BY DEF ReadCharger

\* The cost of a set of slots is the last of its sums.
LEMMA CostIsSum ==
  ASSUME NEW c \in ReadCharger, NEW S
  PROVE  \E sum : IsSum(c, S, sum) /\ CostOf(c, S) = sum[Grid]
<1> DEFINE Add(n) == IF n - 1 \in S THEN c.price[n - 1] ELSE 0
           round == [n \in 1 .. Grid |-> [x \in Nat |-> x + Add(n)]]
           Fits(f) == f = [n \in 0 .. Grid |-> IF n = 0 THEN 0 ELSE f[n - 1] + (IF n - 1 \in S THEN c.price[n - 1] ELSE 0)]
<1>1. ASSUME NEW n \in 1 .. Grid PROVE Add(n) \in Nat
  <2>1. n - 1 \in Slots
    BY SuggestAssumption DEF Slots
  <2> QED
    BY <2>1, PriceOfSlot
<1>2. round \in [1 .. Grid -> [Nat -> Nat]]
  BY <1>1
<1>3. PICK run : IsRun(run, Grid, Nat, 0, round)
  <2>1. Grid \in Nat /\ 0 \in Nat /\ AreRounds(round, Grid, Nat)
    BY <1>2, SuggestAssumption DEF AreRounds
  <2> HIDE DEF round
  <2> QED
    BY <2>1, LoopRuns
<1>4. ASSUME NEW n \in 1 .. Grid PROVE run[n] = run[n - 1] + Add(n)
  <2>1. n - 1 \in 0 .. Grid
    BY SuggestAssumption
  <2> QED
    BY <2>1, <1>3 DEF IsRun
<1>5. Fits(run)
  <2>1. ASSUME NEW n \in 0 .. Grid
        PROVE  run[n] = IF n = 0 THEN 0 ELSE run[n - 1] + (IF n - 1 \in S THEN c.price[n - 1] ELSE 0)
    <3>1. n # 0 => n \in 1 .. Grid
      BY SuggestAssumption
    <3> QED
      BY <3>1, <1>3, <1>4 DEF IsRun
  <2>2. run = [n \in 0 .. Grid |-> run[n]]
    BY <1>3 DEF IsRun
  <2> QED
    BY <2>1, <2>2
<1>6. CostOf(c, S) = (CHOOSE f : Fits(f))[Grid]
  BY DEF CostOf
<1> DEFINE sum == CHOOSE f : Fits(f)
<1>7. Fits(sum)
  <2> HIDE DEF Fits
  <2> QED
    BY <1>5
<1> HIDE DEF sum
<1>8. sum[0] = 0 /\ \A n \in 1 .. Grid : sum[n] = sum[n - 1] + Add(n)
  BY <1>7, SuggestAssumption
<1>9. ASSUME NEW n \in 0 .. Grid PROVE sum[n] \in Nat
  <2> DEFINE S0 == {m \in 0 .. Grid : sum[m] \in Nat}
  <2>1. 0 \in S0
    BY <1>8, SuggestAssumption
  <2>2. ASSUME NEW m \in 1 .. Grid, m - 1 \in S0 PROVE m \in S0
    <3>1. sum[m - 1] \in Nat /\ Add(m) \in Nat /\ sum[m] = sum[m - 1] + Add(m)
      BY <2>2, <1>1, <1>8
    <3> HIDE DEF Add
    <3> QED
      BY <3>1
  <2> HIDE DEF S0
  <2>3. 0 .. Grid \subseteq S0
    BY <2>1, <2>2, EachRound, SuggestAssumption
  <2> QED
    BY <2>3 DEF S0
<1>10. sum = [n \in 0 .. Grid |-> sum[n]]
  <2>1. sum = [n \in 0 .. Grid |-> IF n = 0 THEN 0 ELSE sum[n - 1] + (IF n - 1 \in S THEN c.price[n - 1] ELSE 0)]
    BY <1>7
  <2> QED
    BY <2>1
<1>11. IsSum(c, S, sum)
  BY <1>8, <1>9, <1>10 DEF IsSum
<1> QED
  BY <1>11, <1>6 DEF sum

\* No slots cost nothing.
LEMMA CostOfNone == ASSUME NEW c \in ReadCharger PROVE CostOf(c, {}) = 0
<1>1. PICK sum : IsSum(c, {}, sum) /\ CostOf(c, {}) = sum[Grid]
  BY CostIsSum
<1> DEFINE S == {n \in 0 .. Grid : sum[n] = 0}
<1>2. 0 \in S
  BY <1>1, SuggestAssumption DEF IsSum
<1>3. ASSUME NEW n \in 1 .. Grid, n - 1 \in S PROVE n \in S
  BY <1>1, <1>3 DEF IsSum
<1> HIDE DEF S
<1>4. 0 .. Grid \subseteq S
  BY <1>2, <1>3, EachRound, SuggestAssumption
<1>5. Grid \in 0 .. Grid
  BY SuggestAssumption
<1> QED
  BY <1>1, <1>4, <1>5 DEF S

\* Another slot costs its price.
LEMMA CostOfMore ==
  ASSUME NEW c \in ReadCharger, NEW S, NEW x \in Slots, x \notin S
  PROVE  /\ CostOf(c, S) \in Nat
         /\ CostOf(c, S \cup {x}) = CostOf(c, S) + c.price[x]
<1>1. PICK sum : IsSum(c, S, sum) /\ CostOf(c, S) = sum[Grid]
  BY CostIsSum
<1>2. PICK more : IsSum(c, S \cup {x}, more) /\ CostOf(c, S \cup {x}) = more[Grid]
  BY CostIsSum
<1>3. Grid \in Nat /\ Grid \in 0 .. Grid /\ x \in 0 .. Grid - 1 /\ x < Grid /\ c.price[x] \in Nat
  BY SuggestAssumption, PriceOfSlot DEF Slots
<1> DEFINE T == {n \in 0 .. Grid : more[n] = sum[n] + (IF x < n THEN c.price[x] ELSE 0)}
<1>4. 0 \in T
  <2>1. more[0] = 0 /\ sum[0] = 0 /\ ~(x < 0) /\ 0 \in 0 .. Grid
    BY <1>1, <1>2, <1>3 DEF IsSum
  <2> QED
    BY <2>1
<1>5. ASSUME NEW n \in 1 .. Grid, n - 1 \in T PROVE n \in T
  <2>1. n \in 0 .. Grid /\ n - 1 \in 0 .. Grid /\ sum[n - 1] \in Nat
    BY <1>1, <1>3 DEF IsSum
  <2>2. sum[n] = sum[n - 1] + (IF n - 1 \in S THEN c.price[n - 1] ELSE 0)
    BY <1>1 DEF IsSum
  <2>3. more[n] = more[n - 1] + (IF n - 1 \in S \cup {x} THEN c.price[n - 1] ELSE 0)
    BY <1>2 DEF IsSum
  <2>4. more[n - 1] = sum[n - 1] + (IF x < n - 1 THEN c.price[x] ELSE 0)
    BY <1>5
  <2>5. CASE n - 1 = x
    <3>1. ~(x < n - 1) /\ x < n
      BY <2>5, <1>3
    <3>2. sum[n] = sum[n - 1] /\ more[n] = more[n - 1] + c.price[x] /\ more[n - 1] = sum[n - 1]
      BY <3>1, <2>1, <2>2, <2>3, <2>4, <2>5
    <3> QED
      BY <3>1, <3>2, <2>1
  <2>6. CASE n - 1 # x
    <3>1. x < n - 1 <=> x < n
      BY <2>6, <1>3
    <3>2. n - 1 \in S \cup {x} <=> n - 1 \in S
      BY <2>6
    <3>3. n - 1 \in Slots /\ c.price[n - 1] \in Nat
      <4>1. n - 1 \in Slots
        BY <1>3 DEF Slots
      <4> QED
        BY <4>1, PriceOfSlot
    <3>4. more[n] = sum[n] + (IF x < n THEN c.price[x] ELSE 0)
      BY <3>1, <3>2, <3>3, <2>1, <2>2, <2>3, <2>4, <1>3
    <3> QED
      BY <3>4, <2>1
  <2> QED
    BY <2>5, <2>6
<1> HIDE DEF T
<1>6. 0 .. Grid \subseteq T
  BY <1>4, <1>5, EachRound, SuggestAssumption
<1>7. more[Grid] = sum[Grid] + c.price[x]
  BY <1>6, <1>3 DEF T
<1> QED
  BY <1>1, <1>2, <1>3, <1>7 DEF IsSum

-----------------------------------------------------------------------------
(* SuggestCharger: the knapsack.                                           *)

\* The table as its rows are defined, and the walk back through it.
IsTable(dp, c, items, n, w) ==
  /\ dp \in [0 .. n -> [0 .. w -> Nat]]
  /\ \A j \in 0 .. w : dp[0][j] = 0
  /\ \A i \in 1 .. n, j \in 0 .. w :
       LET p == c.price[items[i]]
       IN dp[i][j] = IF p <= j /\ dp[i - 1][j - p] + 1 > dp[i - 1][j] THEN dp[i - 1][j - p] + 1 ELSE dp[i - 1][j]

Steps == [left : Int, slots : SUBSET Slots]

IsWalk(back, dp, c, items, n, w) ==
  /\ back \in [0 .. n -> Steps]
  /\ back[0] = [left |-> w, slots |-> {}]
  /\ \A k \in 1 .. n :
       LET r == back[k - 1]
           i == n + 1 - k
       IN back[k] = IF dp[i][r.left] = dp[i - 1][r.left] THEN r
                    ELSE [left |-> r.left - c.price[items[i]], slots |-> r.slots \cup {items[i]}]

LEMMA TableFits ==
  ASSUME NEW c \in ReadCharger, NEW items \in Seq(Slots), NEW w \in Nat
  PROVE  IsTable(Table(c, items, w), c, items, Len(items), w)
<1> DEFINE n == Len(items)
           X == [0 .. w -> Nat]
           Price(i) == c.price[items[i]]
           Cell(i, above, j) == IF Price(i) <= j /\ above[j - Price(i)] + 1 > above[j] THEN above[j - Price(i)] + 1 ELSE above[j]
           Row(i, above) == [j \in 0 .. w |-> Cell(i, above, j)]
           none == [j \in 0 .. w |-> 0]
           round == [i \in 1 .. n |-> [above \in X |-> Row(i, above)]]
           Fits(f) == f = [i \in 0 .. n |-> IF i = 0 THEN none ELSE Row(i, f[i - 1])]
<1>1. n \in Nat /\ none \in X
  OBVIOUS
<1>2. ASSUME NEW i \in 1 .. n PROVE Price(i) \in Nat /\ Price(i) > 0
  <2>1. items[i] \in Slots
    OBVIOUS
  <2> QED
    BY <2>1, PriceOfSlot
<1>3. ASSUME NEW i \in 1 .. n, NEW above \in X PROVE Row(i, above) \in X
  <2>1. ASSUME NEW j \in 0 .. w PROVE Cell(i, above, j) \in Nat
    <3>1. above[j] \in Nat
      OBVIOUS
    <3>2. CASE Price(i) <= j
      <4>1. j - Price(i) \in 0 .. w
        BY <3>2, <1>2
      <4>2. above[j - Price(i)] \in Nat
        BY <4>1
      <4> HIDE DEF Price
      <4> QED
        BY <3>1, <4>2
    <3>3. CASE ~(Price(i) <= j)
      BY <3>1, <3>3
    <3> QED
      BY <3>2, <3>3
  <2> HIDE DEF Cell
  <2> QED
    BY <2>1
<1>4. PICK run : IsRun(run, n, X, none, round)
  <2>1. round \in [1 .. n -> [X -> X]]
    <3> HIDE DEF Row, X
    <3> QED
      BY <1>3
  <2>2. AreRounds(round, n, X)
    BY <2>1 DEF AreRounds
  <2> HIDE DEF round, n, X, none
  <2> QED
    BY <1>1, <2>2, LoopRuns
<1>5. Fits(run)
  <2>1. ASSUME NEW i \in 0 .. n PROVE run[i] = IF i = 0 THEN none ELSE Row(i, run[i - 1])
    <3>1. CASE i = 0
      BY <3>1, <1>4 DEF IsRun
    <3>2. CASE i # 0
      <4>1. i \in 1 .. n /\ i - 1 \in 0 .. n
        BY <3>2, <1>1
      <4>2. run[i] = round[i][run[i - 1]] /\ run[i - 1] \in X
        BY <4>1, <1>4 DEF IsRun
      <4>3. round[i][run[i - 1]] = Row(i, run[i - 1])
        <5> HIDE DEF Row, X, n
        <5> QED
          BY <4>1, <4>2
      <4> QED
        BY <4>2, <4>3, <3>2
    <3> QED
      BY <3>1, <3>2
  <2>2. run = [i \in 0 .. n |-> run[i]]
    BY <1>4 DEF IsRun
  <2> HIDE DEF none, Row, n
  <2> QED
    BY <2>1, <2>2
<1>6. Table(c, items, w) = CHOOSE f : Fits(f)
  BY DEF Table
<1> DEFINE dp == CHOOSE f : Fits(f)
<1>7. Fits(dp)
  <2> HIDE DEF Fits
  <2> QED
    BY <1>5
<1> HIDE DEF dp
<1>8. dp = [i \in 0 .. n |-> dp[i]] /\ dp[0] = none /\ \A i \in 1 .. n : dp[i] = Row(i, dp[i - 1])
  <2> HIDE DEF none, Row, n
  <2>1. dp = [i \in 0 .. n |-> IF i = 0 THEN none ELSE Row(i, dp[i - 1])]
    BY <1>7
  <2>2. \A i \in 0 .. n : dp[i] = IF i = 0 THEN none ELSE Row(i, dp[i - 1])
    BY <2>1
  <2>3. 0 \in 0 .. n /\ \A i \in 1 .. n : i \in 0 .. n /\ i # 0
    BY <1>1
  <2> QED
    BY <2>1, <2>2, <2>3
<1>9. ASSUME NEW i \in 0 .. n PROVE dp[i] \in X
  <2> DEFINE T == {m \in 0 .. n : dp[m] \in X}
  <2>1. 0 \in T
    BY <1>8, <1>1
  <2>2. ASSUME NEW m \in 1 .. n, m - 1 \in T PROVE m \in T
    <3>1. dp[m - 1] \in X /\ dp[m] = Row(m, dp[m - 1])
      BY <2>2, <1>8
    <3>2. Row(m, dp[m - 1]) \in X /\ m \in 0 .. n
      <4> HIDE DEF Row, X
      <4> QED
        BY <3>1, <1>3
    <3> QED
      BY <3>1, <3>2
  <2> HIDE DEF T
  <2>3. 0 .. n \subseteq T
    BY <2>1, <2>2, <1>1, EachRound
  <2> QED
    BY <2>3 DEF T
<1>10. dp \in [0 .. n -> [0 .. w -> Nat]]
  BY <1>8, <1>9
<1>11. ASSUME NEW j \in 0 .. w PROVE dp[0][j] = 0
  BY <1>8
<1>12. ASSUME NEW i \in 1 .. n, NEW j \in 0 .. w PROVE dp[i][j] = Cell(i, dp[i - 1], j)
  <2>1. dp[i] = Row(i, dp[i - 1])
    BY <1>8
  <2> HIDE DEF Cell
  <2> QED
    BY <2>1
<1>13. IsTable(dp, c, items, n, w)
  BY <1>10, <1>11, <1>12 DEF IsTable
<1> QED
  BY <1>13, <1>6 DEF dp

LEMMA WalkFits ==
  ASSUME NEW c \in ReadCharger, NEW items \in Seq(Slots), NEW w \in Nat
  PROVE  \E back : /\ IsWalk(back, Table(c, items, w), c, items, Len(items), w)
                   /\ Taken(c, items, w) = back[Len(items)].slots
<1> DEFINE n == Len(items)
           At(k) == n + 1 - k
           More(dp, k, r) == IF dp[At(k)][r.left] = dp[At(k) - 1][r.left] THEN r
                             ELSE [left |-> r.left - c.price[items[At(k)]], slots |-> r.slots \cup {items[At(k)]}]
           first == [left |-> w, slots |-> {}]
           Fits(dp, f) == f = [k \in 0 .. n |-> IF k = 0 THEN first ELSE More(dp, k, f[k - 1])]
<1>1. n \in Nat /\ first \in Steps
  BY DEF Steps
<1> DEFINE dp == Table(c, items, w)
           round == [k \in 1 .. n |-> [r \in Steps |-> More(dp, k, r)]]
<1>2. Taken(c, items, w) = (CHOOSE f : Fits(dp, f))[n].slots
  BY DEF Taken
<1> HIDE DEF dp
<1>3. ASSUME NEW k \in 1 .. n, NEW r \in Steps PROVE More(dp, k, r) \in Steps
  <2>1. At(k) \in 1 .. n
    OBVIOUS
  <2>2. items[At(k)] \in Slots
    BY <2>1
  <2>3. c.price[items[At(k)]] \in Nat
    BY <2>2, PriceOfSlot
  <2> HIDE DEF At
  <2> QED
    BY <2>2, <2>3 DEF Steps
<1>4. PICK run : IsRun(run, n, Steps, first, round)
  <2>1. round \in [1 .. n -> [Steps -> Steps]]
    <3> HIDE DEF More
    <3> QED
      BY <1>3
  <2>2. AreRounds(round, n, Steps)
    BY <2>1 DEF AreRounds
  <2> HIDE DEF round, n, first
  <2> QED
    BY <1>1, <2>2, LoopRuns
<1>5. Fits(dp, run)
  <2>1. ASSUME NEW k \in 0 .. n PROVE run[k] = IF k = 0 THEN first ELSE More(dp, k, run[k - 1])
    <3>1. CASE k = 0
      BY <3>1, <1>4 DEF IsRun
    <3>2. CASE k # 0
      <4>1. k \in 1 .. n /\ k - 1 \in 0 .. n
        BY <3>2, <1>1
      <4>2. run[k] = round[k][run[k - 1]] /\ run[k - 1] \in Steps
        BY <4>1, <1>4 DEF IsRun
      <4>3. round[k][run[k - 1]] = More(dp, k, run[k - 1])
        <5> HIDE DEF More, n
        <5> QED
          BY <4>1, <4>2
      <4> QED
        BY <4>2, <4>3, <3>2
    <3> QED
      BY <3>1, <3>2
  <2>2. run = [k \in 0 .. n |-> run[k]]
    BY <1>4 DEF IsRun
  <2> HIDE DEF first, More, n
  <2> QED
    BY <2>1, <2>2
<1> DEFINE back == CHOOSE f : Fits(dp, f)
<1>7. Fits(dp, back)
  <2> HIDE DEF Fits
  <2> QED
    BY <1>5
<1> HIDE DEF back
<1>8. back = [k \in 0 .. n |-> back[k]] /\ back[0] = first /\ \A k \in 1 .. n : back[k] = More(dp, k, back[k - 1])
  <2> HIDE DEF first, More, n
  <2>1. back = [k \in 0 .. n |-> IF k = 0 THEN first ELSE More(dp, k, back[k - 1])]
    BY <1>7
  <2>2. \A k \in 0 .. n : back[k] = IF k = 0 THEN first ELSE More(dp, k, back[k - 1])
    BY <2>1
  <2>3. 0 \in 0 .. n /\ \A k \in 1 .. n : k \in 0 .. n /\ k # 0
    BY <1>1
  <2> QED
    BY <2>1, <2>2, <2>3
<1>9. ASSUME NEW i \in 0 .. n PROVE back[i] \in Steps
  <2> DEFINE T == {m \in 0 .. n : back[m] \in Steps}
  <2>1. 0 \in T
    BY <1>8, <1>1
  <2>2. ASSUME NEW m \in 1 .. n, m - 1 \in T PROVE m \in T
    <3>1. back[m - 1] \in Steps /\ back[m] = More(dp, m, back[m - 1])
      BY <2>2, <1>8
    <3>2. More(dp, m, back[m - 1]) \in Steps /\ m \in 0 .. n
      <4> HIDE DEF More
      <4> QED
        BY <3>1, <1>3
    <3> QED
      BY <3>1, <3>2
  <2> HIDE DEF T
  <2>3. 0 .. n \subseteq T
    BY <2>1, <2>2, <1>1, EachRound
  <2> QED
    BY <2>3 DEF T
<1>10. back \in [0 .. n -> Steps]
  BY <1>8, <1>9
<1>11. ASSUME NEW k \in 1 .. n
       PROVE  back[k] = IF dp[n + 1 - k][back[k - 1].left] = dp[(n + 1 - k) - 1][back[k - 1].left] THEN back[k - 1]
                        ELSE [left |-> back[k - 1].left - c.price[items[n + 1 - k]],
                              slots |-> back[k - 1].slots \cup {items[n + 1 - k]}]
  BY <1>8
<1>12. IsWalk(back, dp, c, items, n, w)
  BY <1>8, <1>10, <1>11 DEF IsWalk
<1> QED
  BY <1>12, <1>2 DEF back, dp

\* The items up to the i-th, and from the one after it.
UpTo(items, i) == {items[k] : k \in 1 .. i}
After1(items, i) == {items[k] : k \in i + 1 .. Len(items)}

LEMMA SlotsAreFinite == \A S \in SUBSET Slots : IsFiniteSet(S) /\ Cardinality(S) \in Nat
<1>1. IsFiniteSet(Slots)
  BY FS_Interval, SuggestAssumption DEF Slots
<1> QED
  BY <1>1, FS_Subset, FS_CardinalityType

LEMMA CostIsNat == ASSUME NEW c \in ReadCharger, NEW S PROVE CostOf(c, S) \in Nat
<1>1. Grid \in 0 .. Grid
  BY SuggestAssumption
<1> QED
  BY <1>1, CostIsSum DEF IsSum

\* No choice among the first i items that can be paid with j has more than the table says.
LEMMA RowsAreBest ==
  ASSUME NEW c \in ReadCharger, NEW items \in Seq(Slots), NEW w \in Nat, NEW dp,
         IsTable(dp, c, items, Len(items), w)
  PROVE  \A i \in 0 .. Len(items) : \A j \in 0 .. w : \A S \in SUBSET UpTo(items, i) :
           CostOf(c, S) <= j => Cardinality(S) <= dp[i][j]
<1> DEFINE n == Len(items)
           Best(i) == \A j \in 0 .. w : \A S \in SUBSET UpTo(items, i) : CostOf(c, S) <= j => Cardinality(S) <= dp[i][j]
           T == {i \in 0 .. n : Best(i)}
<1>1. n \in Nat
  OBVIOUS
<1>2. 0 \in T
  <2>1. ASSUME NEW j \in 0 .. w, NEW S \in SUBSET UpTo(items, 0) PROVE Cardinality(S) <= dp[0][j]
    <3>1. S = {}
      BY DEF UpTo
    <3>2. Cardinality(S) = 0 /\ dp[0][j] = 0
      BY <3>1, FS_EmptySet DEF IsTable
    <3> QED
      BY <3>2
  <2> QED
    BY <2>1, <1>1
<1>3. ASSUME NEW i \in 1 .. n, i - 1 \in T PROVE i \in T
  <2> SUFFICES ASSUME NEW j \in 0 .. w, NEW S \in SUBSET UpTo(items, i), CostOf(c, S) <= j
               PROVE  Cardinality(S) <= dp[i][j]
    OBVIOUS
  <2> DEFINE x == items[i]
             p == c.price[x]
  <2>1. x \in Slots /\ i - 1 \in 0 .. n /\ i \in 0 .. n
    BY <1>1
  <2>2. p \in Nat /\ p > 0
    BY <2>1, PriceOfSlot
  <2>3. UpTo(items, i) = UpTo(items, i - 1) \cup {x}
    <3>1. \A k : k \in 1 .. i <=> k \in 1 .. i - 1 \/ k = i
      BY <1>1
    <3> QED
      BY <3>1 DEF UpTo
  <2>4. UpTo(items, i) \subseteq Slots
    BY <1>1 DEF UpTo
  <2>5. dp[i][j] = IF p <= j /\ dp[i - 1][j - p] + 1 > dp[i - 1][j] THEN dp[i - 1][j - p] + 1 ELSE dp[i - 1][j]
    BY DEF IsTable
  <2>6. dp[i - 1] \in [0 .. w -> Nat]
    BY <2>1 DEF IsTable
  <2>7. dp[i - 1][j] \in Nat
    BY <2>6
  <2>8. Best(i - 1)
    BY <1>3
  <2>9. CASE x \notin S
    <3>1. S \in SUBSET UpTo(items, i - 1)
      BY <2>9, <2>3
    <3>2. Cardinality(S) <= dp[i - 1][j]
      BY <3>1, <2>8
    <3>3. Cardinality(S) \in Nat
      BY <2>4, SlotsAreFinite
    <3>4. dp[i][j] >= dp[i - 1][j] /\ dp[i][j] \in Nat
      <4>1. CASE p <= j /\ dp[i - 1][j - p] + 1 > dp[i - 1][j]
        <5>1. j - p \in 0 .. w
          BY <4>1, <2>2
        <5>2. dp[i - 1][j - p] \in Nat
          BY <5>1, <2>6
        <5> HIDE DEF p
        <5> QED
          BY <4>1, <5>2, <2>5, <2>7
      <4>2. CASE ~(p <= j /\ dp[i - 1][j - p] + 1 > dp[i - 1][j])
        <5> HIDE DEF p
        <5> QED
          BY <4>2, <2>5, <2>7
      <4> QED
        BY <4>1, <4>2
    <3> QED
      BY <3>2, <3>3, <3>4, <2>7
  <2>10. CASE x \in S
    <3> DEFINE U == S \ {x}
    <3>1. U \in SUBSET UpTo(items, i - 1) /\ x \notin U /\ S = U \cup {x} /\ U \subseteq Slots
      BY <2>10, <2>3, <2>4
    <3>2. Cardinality(S) = Cardinality(U) + 1 /\ Cardinality(U) \in Nat
      BY <3>1, SlotsAreFinite, FS_AddElement
    <3>3. CostOf(c, S) = CostOf(c, U) + p /\ CostOf(c, U) \in Nat
      BY <3>1, <2>1, CostOfMore
    <3> HIDE DEF U, p
    <3>4. p <= j /\ j - p \in 0 .. w /\ CostOf(c, U) <= j - p
      BY <3>3, <2>2
    <3>5. Cardinality(U) <= dp[i - 1][j - p]
      BY <3>1, <3>4, <2>8
    <3>6. dp[i - 1][j - p] \in Nat
      BY <3>4, <2>6
    <3>7. dp[i][j] >= dp[i - 1][j - p] + 1
      BY <3>4, <3>6, <2>5, <2>7
    <3>8. dp[i][j] \in Nat
      BY <3>4, <3>6, <2>5, <2>7
    <3> QED
      BY <3>2, <3>5, <3>6, <3>7, <3>8
  <2> QED
    BY <2>9, <2>10
<1> HIDE DEF T
<1>4. 0 .. n \subseteq T
  BY <1>1, <1>2, <1>3, EachRound
<1> QED
  BY <1>4 DEF T

\* Nothing the walk took is the item it is at, what it took is paid from what was left,
\* and makes up for what the table says of the rest.
LEMMA WalkPays ==
  ASSUME NEW c \in ReadCharger, NEW items \in Seq(Slots), NEW w \in Nat, NEW dp, NEW back,
         \A i, j \in 1 .. Len(items) : i < j => items[i] # items[j],
         IsTable(dp, c, items, Len(items), w),
         IsWalk(back, dp, c, items, Len(items), w)
  PROVE  \A k \in 0 .. Len(items) :
           /\ back[k].left \in 0 .. w
           /\ back[k].slots \subseteq After1(items, Len(items) - k)
           /\ CostOf(c, back[k].slots) + back[k].left = w
           /\ Cardinality(back[k].slots) + dp[Len(items) - k][back[k].left] = dp[Len(items)][w]
<1> DEFINE n == Len(items)
           Paid(k) == /\ back[k].left \in 0 .. w
                      /\ back[k].slots \subseteq After1(items, n - k)
                      /\ CostOf(c, back[k].slots) + back[k].left = w
                      /\ Cardinality(back[k].slots) + dp[n - k][back[k].left] = dp[n][w]
           T == {k \in 0 .. n : Paid(k)}
<1>1. n \in Nat
  OBVIOUS
<1>2. ASSUME NEW i \in 0 .. n, NEW j \in 0 .. w PROVE dp[i][j] \in Nat
  BY DEF IsTable
<1>3. 0 \in T
  <2>1. back[0].left = w /\ back[0].slots = {}
    BY DEF IsWalk
  <2>2. CostOf(c, {}) = 0 /\ Cardinality({}) = 0
    BY CostOfNone, FS_EmptySet
  <2>3. dp[n][w] \in Nat
    BY <1>1, <1>2
  <2>4. n - 0 = n
    BY <1>1
  <2>5. back[0].left \in 0 .. w /\ back[0].slots \subseteq After1(items, n - 0)
    BY <2>1
  <2>6. CostOf(c, back[0].slots) + back[0].left = w
    BY <2>1, <2>2
  <2>7. Cardinality(back[0].slots) + dp[n - 0][back[0].left] = dp[n][w]
    <3> HIDE DEF n
    <3> QED
      BY <2>1, <2>2, <2>3, <2>4
  <2> QED
    BY <2>5, <2>6, <2>7, <1>1
<1>4. ASSUME NEW k \in 1 .. n, k - 1 \in T PROVE k \in T
  <2> DEFINE r == back[k - 1]
             i == n + 1 - k
             x == items[i]
             p == c.price[x]
  <2>1. Paid(k - 1) /\ k \in 0 .. n
    BY <1>4
  <2>2. i \in 1 .. n /\ i - 1 = n - k /\ i = n - (k - 1) /\ i \in 0 .. n /\ i - 1 \in 0 .. n
    BY <1>1
  <2>3. x \in Slots /\ p \in Nat /\ p > 0
    <3>1. x \in Slots
      BY <2>2
    <3> QED
      BY <3>1, PriceOfSlot
  <2>4. back[k] = IF dp[i][r.left] = dp[i - 1][r.left] THEN r
                  ELSE [left |-> r.left - p, slots |-> r.slots \cup {x}]
    BY DEF IsWalk
  <2>5. After1(items, n - k) = After1(items, n - (k - 1)) \cup {x}
    <3>1. \A m : m \in (n - k) + 1 .. n <=> m \in (n - (k - 1)) + 1 .. n \/ m = i
      BY <1>1
    <3> QED
      BY <3>1 DEF After1
  <2>6. x \notin After1(items, n - (k - 1))
    <3>1. \A m \in (n - (k - 1)) + 1 .. n : m \in 1 .. n /\ i < m
      BY <1>1
    <3> QED
      BY <3>1, <2>2 DEF After1
  <2>7. r.left \in 0 .. w /\ r.slots \subseteq After1(items, n - (k - 1)) /\ CostOf(c, r.slots) + r.left = w
        /\ Cardinality(r.slots) + dp[i][r.left] = dp[n][w]
    BY <2>1, <2>2
  <2>8. dp[i][r.left] = IF p <= r.left /\ dp[i - 1][r.left - p] + 1 > dp[i - 1][r.left]
                        THEN dp[i - 1][r.left - p] + 1 ELSE dp[i - 1][r.left]
    BY <2>2, <2>7 DEF IsTable
  <2>9. After1(items, n - (k - 1)) \subseteq Slots
    <3>1. \A m \in (n - (k - 1)) + 1 .. n : m \in 1 .. n
      BY <1>1
    <3> QED
      BY <3>1 DEF After1
  <2>10. CASE dp[i][r.left] = dp[i - 1][r.left]
    <3>1. back[k] = r
      BY <2>10, <2>4
    <3>2. Paid(k)
      BY <3>1, <2>2, <2>5, <2>7, <2>10
    <3> QED
      BY <3>2, <2>1
  <2>11. CASE dp[i][r.left] # dp[i - 1][r.left]
    <3>1. p <= r.left /\ dp[i][r.left] = dp[i - 1][r.left - p] + 1
      BY <2>11, <2>8
    <3>2. back[k].left = r.left - p /\ back[k].slots = r.slots \cup {x}
      BY <2>11, <2>4
    <3>3. x \notin r.slots /\ r.slots \subseteq Slots
      BY <2>6, <2>7, <2>9
    <3>4. CostOf(c, r.slots \cup {x}) = CostOf(c, r.slots) + p /\ CostOf(c, r.slots) \in Nat
      BY <3>3, <2>3, CostOfMore
    <3>5. Cardinality(r.slots \cup {x}) = Cardinality(r.slots) + 1 /\ Cardinality(r.slots) \in Nat
      BY <3>3, SlotsAreFinite, FS_AddElement
    <3> HIDE DEF p
    <3>6. r.left - p \in 0 .. w
      BY <3>1, <2>3, <2>7
    <3>7. dp[i - 1][r.left - p] \in Nat
      BY <3>6, <2>2, <1>2
    <3>8. CostOf(c, back[k].slots) + back[k].left = w
      BY <3>2, <3>4, <2>3, <2>7
    <3>9. Cardinality(back[k].slots) + dp[n - k][back[k].left] = dp[n][w]
      <4>1. dp[n - k][back[k].left] = dp[i - 1][r.left - p]
        BY <3>2, <2>2
      <4>2. Cardinality(back[k].slots) = Cardinality(r.slots) + 1
        BY <3>2, <3>5
      <4>3. Cardinality(r.slots) + dp[i][r.left] = dp[n][w]
        BY <2>7
      <4>4. \A a, b \in Nat : (a + 1) + b = a + (b + 1)
        OBVIOUS
      <4> HIDE DEF r, i, n
      <4>5. Cardinality(r.slots) + (dp[i - 1][r.left - p] + 1) = dp[n][w]
        BY <4>3, <3>1
      <4>6. (Cardinality(r.slots) + 1) + dp[i - 1][r.left - p] = dp[n][w]
        BY <4>4, <4>5, <3>5, <3>7
      <4> QED
        BY <4>1, <4>2, <4>6
    <3>10. back[k].slots \subseteq After1(items, n - k)
      BY <3>2, <2>5, <2>7
    <3> QED
      BY <3>2, <3>6, <3>8, <3>9, <3>10, <2>1
  <2> QED
    BY <2>10, <2>11
<1> HIDE DEF T
<1>5. 0 .. n \subseteq T
  BY <1>1, <1>3, <1>4, EachRound
<1> QED
  BY <1>5 DEF T

\* The walk takes a best choice.
LEMMA TakenIsBest ==
  ASSUME NEW c \in ReadCharger, NEW items \in Seq(Slots), NEW w \in Nat,
         \A i, j \in 1 .. Len(items) : i < j => items[i] # items[j]
  PROVE  LET F == {items[k] : k \in 1 .. Len(items)}
             S == Taken(c, items, w)
         IN /\ S \subseteq F /\ CostOf(c, S) <= w
            /\ \A T \in SUBSET F : CostOf(c, T) <= w => Cardinality(T) <= Cardinality(S)
<1> DEFINE n == Len(items)
           dp == Table(c, items, w)
           S == Taken(c, items, w)
<1>1. IsTable(dp, c, items, n, w)
  BY TableFits
<1>2. PICK back : IsWalk(back, dp, c, items, n, w) /\ S = back[n].slots
  BY WalkFits
<1> HIDE DEF dp, S
<1>3. n \in Nat /\ n \in 0 .. n /\ n - n = 0 /\ w \in 0 .. w
  OBVIOUS
<1>4. /\ back[n].left \in 0 .. w
      /\ S \subseteq After1(items, 0)
      /\ CostOf(c, S) + back[n].left = w
      /\ Cardinality(S) + dp[0][back[n].left] = dp[n][w]
  BY <1>1, <1>2, <1>3, WalkPays
<1>5. dp[0][back[n].left] = 0
  BY <1>1, <1>4 DEF IsTable
<1>6. S \subseteq {items[k] : k \in 1 .. n} /\ {items[k] : k \in 1 .. n} \subseteq Slots
  BY <1>4 DEF After1
<1>7. Cardinality(S) \in Nat
  BY <1>6, SlotsAreFinite
<1>8. Cardinality(S) = dp[n][w]
  BY <1>4, <1>5, <1>7
<1>9. CostOf(c, S) <= w
  BY <1>4, CostIsNat
<1>10. ASSUME NEW T \in SUBSET {items[k] : k \in 1 .. n}, CostOf(c, T) <= w
       PROVE  Cardinality(T) <= Cardinality(S)
  <2>1. T \in SUBSET UpTo(items, n)
    BY DEF UpTo
  <2> QED
    BY <2>1, <1>1, <1>3, <1>8, <1>10, RowsAreBest
<1> QED
  BY <1>6, <1>9, <1>10 DEF S

-----------------------------------------------------------------------------
(* SuggestCharger: the plans and the order of the answer.                  *)

FreeOf(c) == {slot \in Slots : IsFree(c, slot)}

LEMMA FreeSlotsListed ==
  ASSUME NEW c
  PROVE  /\ FreeSlots(c) \in Seq(Slots)
         /\ \A i, j \in 1 .. Len(FreeSlots(c)) : i < j => FreeSlots(c)[i] # FreeSlots(c)[j]
         /\ {FreeSlots(c)[k] : k \in 1 .. Len(FreeSlots(c))} = FreeOf(c)
<1> DEFINE R == {p \in Slots \X Slots : p[1] <= p[2]}
           n == Cardinality(FreeOf(c))
           items == FreeSlots(c)
<1>1. \A a, b \in Slots : <<a, b>> \in R <=> a <= b
  OBVIOUS
<1>2. FreeOf(c) \subseteq Slots /\ \A a \in Slots : a \in Int
  BY DEF FreeOf, Slots
<1>3. IsFiniteSet(FreeOf(c)) /\ n \in Nat
  BY <1>2, SlotsAreFinite
<1>4. items = Listed(FreeOf(c), R)
  BY DEF FreeSlots, FreeOf
<1> HIDE DEF R
<1>5. \A a, b \in FreeOf(c) : <<a, b>> \in R \/ <<b, a>> \in R
  <2>1. \A a, b \in Slots : a <= b \/ b <= a
    BY <1>2
  <2> QED
    BY <2>1, <1>1, <1>2
<1>6. \A a, b, d \in FreeOf(c) : <<a, b>> \in R /\ <<b, d>> \in R => <<a, d>> \in R
  BY <1>1, <1>2
<1>7. IsListing(items, n, FreeOf(c), R)
  BY <1>3, <1>4, <1>5, <1>6, ListedIsListing
<1> HIDE DEF items, n
<1>8. items \in [1 .. n -> FreeOf(c)]
  BY <1>7 DEF IsListing
<1>9. items \in Seq(Slots) /\ Len(items) = n
  BY <1>8, <1>2, <1>3
<1>10. \A i, j \in 1 .. n : i < j => items[i] # items[j]
  BY <1>7 DEF IsListing
<1>11. {items[k] : k \in 1 .. n} = FreeOf(c)
  BY <1>7 DEF IsListing
<1> QED
  BY <1>9, <1>10, <1>11 DEF items

\* The slots chosen are free and paid, and no other free slots that can be paid are more.
IsBestPlan(c, w, S) ==
  /\ S \subseteq FreeOf(c) /\ CostOf(c, S) <= w
  /\ \A T \in SUBSET FreeOf(c) : CostOf(c, T) <= w => Cardinality(T) <= Cardinality(S)

LEMMA PlanIsBest == ASSUME NEW c \in ReadCharger, NEW w \in Nat PROVE IsBestPlan(c, w, Plan(c, w))
BY FreeSlotsListed, TakenIsBest DEF IsBestPlan, Plan

LEMMA FreeAsStated ==
  ASSUME NEW c \in ReadCharger
  PROVE  FreeOf(c) = {s \in Slots : /\ \A b \in c.booked : s + 1 <= b[1] \/ b[2] <= s
                                    /\ c.session = <<0, 0>> \/ s + 1 <= c.session[1] \/ EndOf(c.session) <= s}
<1> SUFFICES ASSUME NEW s \in Slots
             PROVE  IsFree(c, s) <=> /\ \A b \in c.booked : s + 1 <= b[1] \/ b[2] <= s
                                     /\ c.session = <<0, 0>> \/ s + 1 <= c.session[1] \/ EndOf(c.session) <= s
  BY DEF FreeOf
<1>1. s \in Int
  BY DEF Slots
<1>2. ASSUME NEW b \in c.booked PROVE ~Overlaps(b[1], b[2], s) <=> s + 1 <= b[1] \/ b[2] <= s
  <2>1. b[1] \in Int /\ b[2] \in Int
    BY DEF ReadCharger
  <2> QED
    BY <2>1, <1>1 DEF Overlaps
<1>3. ~Overlaps(c.session[1], EndOf(c.session), s) <=> s + 1 <= c.session[1] \/ EndOf(c.session) <= s
  <2>1. c.session[1] \in Int /\ c.session[2] \in Int
    BY DEF ReadCharger
  <2>2. EndOf(c.session) \in Int
    BY <2>1 DEF EndOf
  <2> QED
    BY <2>1, <2>2, <1>1 DEF Overlaps
<1> QED
  BY <1>2, <1>3 DEF IsFree

\* A charger with a plan has a first free slot.
LEMMA FirstFreeIsSlot == ASSUME NEW c, FreeOf(c) # {} PROVE FirstFree(c) \in Int
<1>1. Len(FreeSlots(c)) >= 1 /\ FreeSlots(c) \in Seq(Slots)
  BY FreeSlotsListed
<1>2. FreeSlots(c)[1] \in Slots
  BY <1>1
<1> QED
  BY <1>2 DEF FirstFree, Slots

\* Of chargers that are all free now or all not, the list is by the wait and the metric.
ByWait(list, i, j) ==
  \/ FirstFree(list[i]) < FirstFree(list[j])
  \/ FirstFree(list[i]) = FirstFree(list[j]) /\ list[i].metric <= list[j].metric

LEMMA SortedByWait ==
  ASSUME NEW list, NEW K \in SUBSET Nat, IsFiniteSet(K),
         \A i \in K : FirstFree(list[i]) \in Int /\ list[i].metric \in Int,
         \A i, j \in K : IsAvailableNow(list[i]) = IsAvailableNow(list[j])
  PROVE  /\ Sorted(list, K) \in [1 .. Cardinality(K) -> K]
         /\ \A m, n \in 1 .. Cardinality(K) : m < n => ByWait(list, Sorted(list, K)[m], Sorted(list, K)[n])
<1> DEFINE F(i) == FirstFree(list[i])
           M(i) == list[i].metric
           Less(i, j) == F(i) < F(j) \/ (F(i) = F(j) /\ M(i) < M(j))
           Earlier(i, j) == Before(list[i], list[j]) \/ (~Before(list[j], list[i]) /\ i <= j)
           R == {p \in K \X K : Earlier(p[1], p[2])}
<1>1. ASSUME NEW i \in K, NEW j \in K PROVE Before(list[i], list[j]) <=> Less(i, j)
  <2>1. IsAvailableNow(list[i]) = IsAvailableNow(list[j])
    OBVIOUS
  <2>2. Before(list[i], list[j]) <=> IF F(i) - F(j) # 0 THEN F(i) - F(j) < 0 ELSE M(i) < M(j)
    BY <2>1 DEF Before
  <2>3. F(i) \in Int /\ F(j) \in Int
    OBVIOUS
  <2> HIDE DEF F, M
  <2> QED
    BY <2>2, <2>3
<1>2. ASSUME NEW i \in K, NEW j \in K PROVE <<i, j>> \in R <=> Less(i, j) \/ (~Less(j, i) /\ i <= j)
  <2>1. <<i, j>> \in R <=> Earlier(i, j)
    <3> HIDE DEF Earlier
    <3> QED
      OBVIOUS
  <2> QED
    BY <2>1, <1>1
<1>3. ASSUME NEW i \in K PROVE F(i) \in Int /\ M(i) \in Int /\ i \in Int
  <2>1. i \in Nat
    OBVIOUS
  <2> QED
    BY <2>1
<1>4. Sorted(list, K) = Listed(K, R)
  BY DEF Sorted
<1> HIDE DEF R, F, M
<1>5. \A i, j \in K : <<i, j>> \in R \/ <<j, i>> \in R
  <2> SUFFICES ASSUME NEW i \in K, NEW j \in K PROVE <<i, j>> \in R \/ <<j, i>> \in R
    OBVIOUS
  <2>1. i <= j \/ j <= i
    BY <1>3
  <2> QED
    BY <2>1, <1>2
<1>6. \A i, j, k \in K : <<i, j>> \in R /\ <<j, k>> \in R => <<i, k>> \in R
  <2> SUFFICES ASSUME NEW i \in K, NEW j \in K, NEW k \in K, <<i, j>> \in R, <<j, k>> \in R
               PROVE  <<i, k>> \in R
    OBVIOUS
  <2>1. Less(i, j) \/ (~Less(j, i) /\ i <= j)
    BY <1>2
  <2>2. Less(j, k) \/ (~Less(k, j) /\ j <= k)
    BY <1>2
  <2>3. Less(i, k) \/ (~Less(k, i) /\ i <= k)
    BY <2>1, <2>2, <1>3
  <2> QED
    BY <2>3, <1>2
<1>7. IsListing(Sorted(list, K), Cardinality(K), K, R)
  BY <1>4, <1>5, <1>6, ListedIsListing
<1>8. ASSUME NEW i \in K, NEW j \in K, <<i, j>> \in R PROVE ByWait(list, i, j)
  <2>1. Less(i, j) \/ ~Less(j, i)
    BY <1>2, <1>8
  <2>2. F(i) < F(j) \/ (F(i) = F(j) /\ M(i) <= M(j))
    BY <2>1, <1>3
  <2> QED
    BY <2>2 DEF ByWait, F, M
<1> QED
  BY <1>7, <1>8 DEF IsListing

-----------------------------------------------------------------------------
(* SuggestCharger: the invariant.                                          *)

Asked == [chargers : Seq(ReadCharger), budget : Nat]

\* What was planned is the best plan of each charger.
PlansAreBest ==
  plan # Nothing =>
    /\ plan \in [1 .. Len(asked.chargers) -> SUBSET Slots]
    /\ \A i \in 1 .. Len(asked.chargers) : IsBestPlan(asked.chargers[i], asked.budget, plan[i])

\* What is shown is among what was asked, in order, and all free now or none.
ShownInOrder ==
  /\ \A k \in DOMAIN shown : k \in Int /\ \E i \in 1 .. Len(asked.chargers) : shown[k] = asked.chargers[i]
  /\ \A j, k \in DOMAIN shown :
       j < k => /\ IsAvailableNow(shown[j]) = IsAvailableNow(shown[k])
                /\ \/ FirstFree(shown[j]) < FirstFree(shown[k])
                   \/ FirstFree(shown[j]) = FirstFree(shown[k]) /\ shown[j].metric <= shown[k].metric

SuggestInv == asked \in Asked /\ PlansAreBest /\ ShownInOrder

LEMMA ChargersAreRead == Chargers \subseteq ReadCharger
<1> SUFFICES ASSUME NEW c \in Chargers PROVE c \in ReadCharger
  OBVIOUS
<1>1. c.price \in [Slots -> Nat \ {0}]
  BY SuggestAssumption DEF Chargers
<1>2. c.booked \subseteq Int \X Int
  BY SuggestAssumption DEF Chargers
<1>3. c.session \in Int \X Int
  BY SuggestAssumption DEF Chargers
<1>4. c.open \in BOOLEAN /\ c.metric \in Int
  BY SuggestAssumption DEF Chargers
<1>5. c = [price |-> c.price, booked |-> c.booked, session |-> c.session, open |-> c.open, metric |-> c.metric]
  BY DEF Chargers
<1> QED
  BY <1>1, <1>2, <1>3, <1>4, <1>5 DEF ReadCharger

LEMMA SuggestStarts == ASSUME asked \in Asked, plan = Nothing, shown = Nothing PROVE SuggestInv
<1>1. DOMAIN shown = {}
  BY DEF Nothing
<1> QED
  BY <1>1 DEF SuggestInv, PlansAreBest, ShownInOrder

LEMMA ScoreKeeps == ASSUME SuggestInv, Score PROVE SuggestInv'
<1> DEFINE n == Len(asked.chargers)
<1>1. asked \in Asked /\ asked' = asked /\ shown' = shown /\ n \in Nat /\ DOMAIN asked.chargers = 1 .. n
  BY DEF SuggestInv, Score, Asked
<1>2. plan' = [i \in 1 .. n |-> Plan(asked.chargers[i], asked.budget)]
  BY <1>1 DEF Score
<1>3. ASSUME NEW i \in 1 .. n
      PROVE  /\ IsBestPlan(asked.chargers[i], asked.budget, plan'[i])
             /\ plan'[i] \in SUBSET Slots
  <2>1. asked.chargers[i] \in ReadCharger /\ asked.budget \in Nat
    BY <1>1 DEF Asked
  <2>2. plan'[i] = Plan(asked.chargers[i], asked.budget)
    BY <1>2
  <2>3. IsBestPlan(asked.chargers[i], asked.budget, plan'[i])
    BY <2>1, <2>2, PlanIsBest
  <2> QED
    BY <2>3 DEF IsBestPlan, FreeOf
<1>4. plan' \in [1 .. n -> SUBSET Slots]
  <2>1. plan' = [i \in 1 .. n |-> plan'[i]]
    BY <1>2
  <2> QED
    BY <2>1, <1>3
<1>5. PlansAreBest'
  BY <1>1, <1>3, <1>4 DEF PlansAreBest
<1>6. ShownInOrder'
  BY <1>1 DEF SuggestInv, ShownInOrder
<1> QED
  BY <1>1, <1>5, <1>6 DEF SuggestInv

LEMMA RankKeeps == ASSUME SuggestInv, Rank PROVE SuggestInv'
<1> DEFINE n == Len(asked.chargers)
           list == asked.chargers
           With == {i \in DOMAIN plan : plan[i] # {}}
           K == Candidates(list, With)
           order == Sorted(list, K)
           N == Cardinality(K)
<1>1. asked \in Asked /\ asked' = asked /\ plan' = plan /\ plan # Nothing /\ n \in Nat
  BY DEF SuggestInv, Rank, Asked
<1>2. plan \in [1 .. n -> SUBSET Slots] /\ \A i \in 1 .. n : IsBestPlan(list[i], asked.budget, plan[i])
  BY <1>1 DEF SuggestInv, PlansAreBest
<1>3. K \subseteq With /\ With \subseteq 1 .. n
  BY <1>2 DEF Candidates
<1>4. K \in SUBSET Nat /\ IsFiniteSet(K) /\ N \in Nat
  <2>1. IsFiniteSet(1 .. n)
    BY <1>1, FS_Interval
  <2> HIDE DEF K, With
  <2>2. K \subseteq 1 .. n
    BY <1>3
  <2> HIDE DEF n
  <2>3. 1 .. n \subseteq Nat
    BY <1>1
  <2>4. K \subseteq Nat
    BY <2>2, <2>3
  <2> QED
    BY <2>1, <2>2, <2>4, FS_Subset, FS_CardinalityType
<1>5. ASSUME NEW i \in K PROVE i \in 1 .. n /\ FirstFree(list[i]) \in Int /\ list[i].metric \in Int
  <2>1. i \in 1 .. n /\ plan[i] # {}
    BY <1>3
  <2>2. FreeOf(list[i]) # {}
    BY <2>1, <1>2 DEF IsBestPlan
  <2>3. list[i] \in ReadCharger
    BY <2>1, <1>1 DEF Asked
  <2> QED
    BY <2>1, <2>2, <2>3, FirstFreeIsSlot DEF ReadCharger
<1>6. ASSUME NEW i \in K, NEW j \in K PROVE IsAvailableNow(list[i]) = IsAvailableNow(list[j])
  <2> DEFINE now == {k \in With : IsAvailableNow(list[k])}
  <2>1. CASE now = {}
    <3>1. ~IsAvailableNow(list[i]) /\ ~IsAvailableNow(list[j])
      BY <2>1, <1>3
    <3> QED
      BY <3>1 DEF IsAvailableNow
  <2>2. CASE now # {}
    <3>1. K = now
      BY <2>2 DEF Candidates
    <3>2. IsAvailableNow(list[i]) /\ IsAvailableNow(list[j])
      BY <3>1
    <3> QED
      BY <3>2 DEF IsAvailableNow
  <2> QED
    BY <2>1, <2>2
<1> HIDE DEF K
<1>7. /\ order \in [1 .. N -> K]
      /\ \A j, k \in 1 .. N : j < k => ByWait(list, order[j], order[k])
  BY <1>4, <1>5, <1>6, SortedByWait
<1>8. shown' = [k \in DOMAIN order |-> list[order[k]]]
  BY DEF Rank, K
<1> HIDE DEF order
<1>9. shown' = [k \in 1 .. N |-> list[order[k]]]
  BY <1>7, <1>8
<1>10. ASSUME NEW k \in 1 .. N PROVE shown'[k] = list[order[k]] /\ order[k] \in K
  BY <1>7, <1>9
<1> HIDE DEF list, n
<1>11. \A k \in 1 .. N : k \in Int /\ \E i \in 1 .. n : shown'[k] = list[i]
  BY <1>5, <1>10
<1>12. ASSUME NEW j \in 1 .. N, NEW k \in 1 .. N, j < k
       PROVE  /\ IsAvailableNow(shown'[j]) = IsAvailableNow(shown'[k])
              /\ \/ FirstFree(shown'[j]) < FirstFree(shown'[k])
                 \/ FirstFree(shown'[j]) = FirstFree(shown'[k]) /\ shown'[j].metric <= shown'[k].metric
  <2>1. shown'[j] = list[order[j]] /\ shown'[k] = list[order[k]] /\ order[j] \in K /\ order[k] \in K
    BY <1>10
  <2>2. IsAvailableNow(list[order[j]]) = IsAvailableNow(list[order[k]])
    BY <2>1, <1>6
  <2>3. ByWait(list, order[j], order[k])
    BY <1>7, <1>12
  <2>4. IsAvailableNow(shown'[j]) = IsAvailableNow(shown'[k])
    BY <2>1, <2>2
  <2> QED
    BY <2>1, <2>3, <2>4 DEF ByWait
<1>13. DOMAIN shown' = 1 .. N
  BY <1>9
<1>14. ShownInOrder'
  BY <1>1, <1>11, <1>12, <1>13 DEF ShownInOrder, list, n
<1>15. PlansAreBest'
  BY <1>1 DEF SuggestInv, PlansAreBest
<1> QED
  BY <1>1, <1>14, <1>15 DEF SuggestInv

LEMMA SuggestStep == ASSUME SuggestInv, [SuggestNext]_suggestion PROVE SuggestInv'
<1>1. CASE SuggestNext
  BY <1>1, ScoreKeeps, RankKeeps DEF SuggestNext
<1>2. CASE UNCHANGED suggestion
  BY <1>2 DEF suggestion, SuggestInv, PlansAreBest, ShownInOrder
<1> QED
  BY <1>1, <1>2

LEMMA SuggestIsSound == ASSUME SuggestInv PROVE SuggestTypeOK /\ SuggestionIsBest
<1> DEFINE n == Len(asked.chargers)
<1>1. asked \in Asked /\ n \in Nat /\ DOMAIN asked.chargers = 1 .. n
  BY DEF SuggestInv, Asked
<1>2. ASSUME plan # Nothing PROVE \A i \in DOMAIN plan : plan[i] \subseteq Slots
  BY <1>2 DEF SuggestInv, PlansAreBest
<1>3. SuggestTypeOK
  BY <1>1, <1>2 DEF SuggestTypeOK, SuggestInv, ShownInOrder
<1>4. ASSUME plan # Nothing, NEW i \in DOMAIN plan
      PROVE  LET c == asked.chargers[i]
                 free == {s \in Slots : /\ \A b \in c.booked : s + 1 <= b[1] \/ b[2] <= s
                                        /\ c.session = <<0, 0>> \/ s + 1 <= c.session[1] \/ EndOf(c.session) <= s}
             IN /\ plan[i] \subseteq free /\ CostOf(c, plan[i]) <= asked.budget
                /\ \A S \in SUBSET free : CostOf(c, S) <= asked.budget => Cardinality(S) <= Cardinality(plan[i])
  <2>1. i \in 1 .. n /\ IsBestPlan(asked.chargers[i], asked.budget, plan[i])
    BY <1>4 DEF SuggestInv, PlansAreBest
  <2>2. asked.chargers[i] \in ReadCharger
    BY <2>1, <1>1 DEF Asked
  <2> QED
    BY <2>1, <2>2, FreeAsStated DEF IsBestPlan
<1>5. ASSUME NEW j \in DOMAIN shown, NEW k \in DOMAIN shown, j < k
      PROVE  /\ IsAvailableNow(shown[j]) <=> IsAvailableNow(shown[k])
             /\ \/ FirstFree(shown[j]) < FirstFree(shown[k])
                \/ FirstFree(shown[j]) = FirstFree(shown[k]) /\ shown[j].metric <= shown[k].metric
  BY <1>5 DEF SuggestInv, ShownInOrder
<1>6. SuggestionIsBest
  BY <1>4, <1>5 DEF SuggestionIsBest
<1> QED
  BY <1>3, <1>6

-----------------------------------------------------------------------------
(* VirtualQueue: places in a heap.                                         *)

Items == [entry : Entries, score : Int]

Heaps(m) == [1 .. m -> Items]

LEMMA HeapLength == ASSUME NEW m \in Nat, NEW h \in Heaps(m) PROVE Len(h) = m /\ DOMAIN h = 1 .. m /\ h \in Seq(Items)
  BY DEF Heaps

LEMMA IsHeaps == ASSUME NEW h \in Seq(Items) PROVE Len(h) \in Nat /\ h \in Heaps(Len(h))
  BY DEF Heaps

\* The parent of a place, and its children.
LEMMA ParentOf ==
  /\ \A i \in Nat : Parent(i) \in Nat /\ (i >= 2 => Parent(i) >= 1 /\ Parent(i) < i) /\ (i >= 1 => Parent(i) < i)
  /\ \A i, j \in Nat : Parent(j) = i <=> j = 2 * i \/ j = 2 * i + 1
  /\ Parent(1) = 0
  BY DEF Parent

\* Two places have changed their items.
LEMMA SwapIs ==
  ASSUME NEW m \in Nat, NEW h \in Heaps(m), NEW i \in 1 .. m, NEW j \in 1 .. m, i # j
  PROVE  /\ Swap(h, i, j) \in Heaps(m)
         /\ Swap(h, i, j)[i] = h[j] /\ Swap(h, i, j)[j] = h[i]
         /\ \A k \in 1 .. m : k # i /\ k # j => Swap(h, i, j)[k] = h[k]
<1>1. h[i] \in Items /\ h[j] \in Items /\ DOMAIN h = 1 .. m
  BY DEF Heaps
<1>2. Swap(h, i, j) \in [1 .. m -> Items]
  BY <1>1 DEF Swap, Heaps
<1> QED
  BY <1>1, <1>2 DEF Swap, Heaps

\* The entries of a heap, each in one place.
Of(h) == {h[k].entry : k \in DOMAIN h}
OneCopy(h) == \A i, j \in DOMAIN h : h[i].entry = h[j].entry => i = j

LEMMA SwapHolds ==
  ASSUME NEW m \in Nat, NEW h \in Heaps(m), NEW i \in 1 .. m, NEW j \in 1 .. m, i # j, OneCopy(h)
  PROVE  OneCopy(Swap(h, i, j)) /\ Of(Swap(h, i, j)) = Of(h)
<1> DEFINE g == Swap(h, i, j)
           From(k) == IF k = i THEN j ELSE IF k = j THEN i ELSE k
<1>1. g \in Heaps(m) /\ g[i] = h[j] /\ g[j] = h[i] /\ \A k \in 1 .. m : k # i /\ k # j => g[k] = h[k]
  BY SwapIs
<1>2. DOMAIN g = 1 .. m /\ DOMAIN h = 1 .. m
  BY <1>1 DEF Heaps
<1> HIDE DEF g
<1>3. \A k \in 1 .. m : From(k) \in 1 .. m /\ From(From(k)) = k /\ g[k] = h[From(k)]
  BY <1>1
<1> HIDE DEF From
<1>4. OneCopy(g)
  <2> SUFFICES ASSUME NEW a \in 1 .. m, NEW b \in 1 .. m, g[a].entry = g[b].entry PROVE a = b
    BY <1>2 DEF OneCopy
  <2>1. From(a) = From(b)
    BY <1>2, <1>3 DEF OneCopy
  <2> QED
    BY <2>1, <1>3
<1>5. Of(g) = Of(h)
  <2>1. ASSUME NEW k \in 1 .. m PROVE h[k].entry \in Of(g) /\ g[k].entry \in Of(h)
    BY <1>2, <1>3 DEF Of
  <2> QED
    BY <2>1, <1>2 DEF Of
<1> QED
  BY <1>4, <1>5 DEF g

\* The smallest of a place and its children.
Child(m, i, c) == c \in 1 .. m /\ Parent(c) = i

LEMMA SmallestIs ==
  ASSUME NEW m \in Nat, NEW h \in Heaps(m), NEW i \in 1 .. m
  PROVE  LET s == Smallest(h, i)
         IN /\ s = i \/ (Child(m, i, s) /\ s > i /\ h[s].score < h[i].score)
            /\ \A c : Child(m, i, c) => h[s].score <= h[c].score
<1> DEFINE l == 2 * i
           r == 2 * i + 1
           a == Smaller(h, i, l)
           s == Smallest(h, i)
<1>1. s = Smaller(h, a, r) /\ Len(h) = m
  BY HeapLength DEF Smallest
<1>2. \A k \in 1 .. m : h[k].score \in Int
  BY DEF Heaps, Items
<1>3. a = (IF l <= m /\ h[l].score < h[i].score THEN l ELSE i) /\ s = (IF r <= m /\ h[r].score < h[a].score THEN r ELSE a)
  BY <1>1 DEF Smaller
<1>4. l \in Nat /\ r \in Nat /\ l > i /\ r > i /\ (l <= m => l \in 1 .. m) /\ (r <= m => r \in 1 .. m)
  OBVIOUS
<1>5. \A c : Child(m, i, c) <=> (c = l \/ c = r) /\ c \in 1 .. m
  <2>1. \A c \in 1 .. m : Parent(c) = i <=> c = l \/ c = r
    BY ParentOf
  <2> QED
    BY <2>1 DEF Child
<1> HIDE DEF l, r, a, s
<1>6. s = i \/ (Child(m, i, s) /\ s > i /\ h[s].score < h[i].score)
  BY <1>2, <1>3, <1>4, <1>5
<1>7. s \in 1 .. m /\ (l <= m => h[s].score <= h[l].score) /\ (r <= m => h[s].score <= h[r].score)
  BY <1>2, <1>3, <1>4
<1>8. ASSUME NEW c, Child(m, i, c) PROVE h[s].score <= h[c].score
  <2>1. (c = l /\ l <= m) \/ (c = r /\ r <= m)
    BY <1>4, <1>5, <1>8
  <2> QED
    BY <2>1, <1>7
<1> QED
  BY <1>6, <1>8 DEF s

-----------------------------------------------------------------------------
(* VirtualQueue: the order of a heap.                                      *)

\* No item comes before its parent, from the parent lo on.
InOrder(h, m, lo) == \A j \in 1 .. m : Parent(j) >= lo => h[Parent(j)].score <= h[j].score

\* What is above a place may stay above what is below it.
Spans2(h, m, lo, p) ==
  Parent(p) >= lo => \A c \in 1 .. m : Parent(c) = p => h[Parent(p)].score <= h[c].score

\* The same but for the item at p, which may have to rise.
MayRise(h, m, lo, p) ==
  /\ \A j \in 1 .. m : Parent(j) >= lo /\ j # p => h[Parent(j)].score <= h[j].score
  /\ Spans2(h, m, lo, p)

\* The same when the item at p, which was put at i, may have to sink; where it was put it
\* may have to rise instead.
MaySink(h, m, lo, i, p) ==
  /\ i <= p
  /\ \A j \in 1 .. m : Parent(j) >= lo /\ Parent(j) # p /\ (j # i \/ p # i) => h[Parent(j)].score <= h[j].score
  /\ Spans2(h, m, lo, p)

\* A round of bubbleUp.
LEMMA RiseStep ==
  ASSUME NEW m \in Nat, NEW h \in Heaps(m), NEW p \in 1 .. m, p # 1, MayRise(h, m, 1, p),
         h[p].score < h[Parent(p)].score
  PROVE  MayRise(Swap(h, p, Parent(p)), m, 1, Parent(p))
<1> DEFINE q == Parent(p)
           g == Swap(h, p, q)
<1>1. q \in 1 .. m /\ q < p /\ p \in Nat /\ q \in Nat
  BY ParentOf
<1>2. g[p] = h[q] /\ g[q] = h[p] /\ \A k \in 1 .. m : k # p /\ k # q => g[k] = h[k]
  BY <1>1, SwapIs
<1>3. \A k \in 1 .. m : h[k].score \in Int
  BY DEF Heaps, Items
<1>4. \A j \in 1 .. m : Parent(j) \in Nat /\ Parent(j) < j /\ (Parent(j) >= 1 => Parent(j) \in 1 .. m)
  BY ParentOf
<1>5. h[p].score < h[q].score
  OBVIOUS
<1>6. \A j \in 1 .. m : Parent(j) >= 1 /\ j # p => h[Parent(j)].score <= h[j].score
  BY DEF MayRise
<1>7. \A c \in 1 .. m : Parent(c) = p => h[q].score <= h[c].score
  BY <1>1 DEF MayRise, Spans2
<1>8. Parent(p) = q
  OBVIOUS
<1> HIDE DEF q, g
<1>9. ASSUME NEW j \in 1 .. m, Parent(j) >= 1, j # q PROVE g[Parent(j)].score <= g[j].score
  <2>1. CASE j = p
    BY <2>1, <1>1, <1>2, <1>3, <1>5, <1>8
  <2>2. CASE j # p /\ Parent(j) = q
    BY <2>2, <1>1, <1>2, <1>3, <1>5, <1>6, <1>9
  <2>3. CASE j # p /\ Parent(j) = p
    BY <2>3, <1>2, <1>7, <1>9
  <2>4. CASE j # p /\ Parent(j) # p /\ Parent(j) # q
    <3>1. Parent(j) \in 1 .. m
      BY <1>4, <1>9
    <3>2. g[Parent(j)] = h[Parent(j)] /\ g[j] = h[j]
      BY <3>1, <2>4, <1>2, <1>9
    <3> QED
      BY <3>2, <2>4, <1>6, <1>9
  <2> QED
    BY <2>1, <2>2, <2>3, <2>4
<1>10. ASSUME Parent(q) >= 1, NEW c \in 1 .. m, Parent(c) = q PROVE g[Parent(q)].score <= g[c].score
  <2>1. Parent(q) \in 1 .. m /\ Parent(q) # q /\ Parent(q) # p /\ c # q
    BY <1>1, <1>4, <1>10
  <2>2. g[Parent(q)] = h[Parent(q)] /\ h[Parent(q)].score <= h[q].score
    BY <2>1, <1>1, <1>2, <1>6, <1>10
  <2>3. CASE c = p
    BY <2>2, <2>3, <1>2
  <2>4. CASE c # p
    <3>1. g[c] = h[c] /\ h[q].score <= h[c].score
      BY <2>1, <2>4, <1>1, <1>2, <1>6, <1>10
    <3> QED
      BY <3>1, <2>1, <2>2, <1>1, <1>3
  <2> QED
    BY <2>3, <2>4
<1>11. MayRise(g, m, 1, q)
  BY <1>9, <1>10 DEF MayRise, Spans2
<1> QED
  BY <1>11 DEF g, q

\* A round of sinkDown.
LEMMA SinkStep ==
  ASSUME NEW m \in Nat, NEW h \in Heaps(m), NEW lo \in Nat \ {0}, NEW i \in 1 .. m, lo <= i,
         NEW p \in 1 .. m, NEW s, MaySink(h, m, lo, i, p),
         Child(m, p, s), s > p, h[s].score < h[p].score, \A c : Child(m, p, c) => h[s].score <= h[c].score
  PROVE  MaySink(Swap(h, p, s), m, lo, i, s)
<1> DEFINE g == Swap(h, p, s)
<1>1. s \in 1 .. m /\ Parent(s) = p /\ s # p /\ i <= p /\ i < s /\ p \in Nat /\ s \in Nat /\ i \in Nat
  BY DEF Child, MaySink
<1>2. g[p] = h[s] /\ g[s] = h[p] /\ \A k \in 1 .. m : k # p /\ k # s => g[k] = h[k]
  <2>1. s \in 1 .. m /\ p # s
    BY <1>1
  <2> QED
    BY ONLY <2>1, m \in Nat, h \in Heaps(m), p \in 1 .. m, SwapIs DEF g
<1>3. \A k \in 1 .. m : h[k].score \in Int
  BY DEF Heaps, Items
<1>4. \A j \in 1 .. m : Parent(j) \in Nat /\ Parent(j) < j /\ (Parent(j) >= lo => Parent(j) \in 1 .. m)
  BY ParentOf
<1>5. \A j \in 1 .. m : Parent(j) >= lo /\ Parent(j) # p /\ (j # i \/ p # i) => h[Parent(j)].score <= h[j].score
  BY DEF MaySink
<1>6. Parent(p) >= lo => \A c \in 1 .. m : Parent(c) = p => h[Parent(p)].score <= h[c].score
  BY DEF MaySink, Spans2
<1>7. \A c \in 1 .. m : Parent(c) = p => h[s].score <= h[c].score
  BY DEF Child
<1> HIDE DEF g
<1>8. ASSUME NEW j \in 1 .. m, Parent(j) >= lo, Parent(j) # s PROVE g[Parent(j)].score <= g[j].score
  <2>1. CASE j = s
    BY <2>1, <1>1, <1>2, <1>3
  <2>2. CASE j # s /\ Parent(j) = p
    <3>1. j # p
      BY <2>2, <1>4
    <3> QED
      BY <3>1, <2>2, <1>2, <1>7, <1>8
  <2>3. CASE j = p
    <3>1. Parent(p) \in 1 .. m /\ Parent(p) # p /\ Parent(p) # s
      BY <2>3, <1>4, <1>8
    <3>2. g[Parent(p)] = h[Parent(p)]
      BY <3>1, <1>2
    <3> QED
      BY <3>2, <2>3, <1>1, <1>2, <1>6, <1>8
  <2>4. CASE j # s /\ j # p /\ Parent(j) # p
    <3>1. Parent(j) \in 1 .. m
      BY <1>4, <1>8
    <3>2. g[Parent(j)] = h[Parent(j)] /\ g[j] = h[j]
      BY <3>1, <2>4, <1>2, <1>8
    <3>3. j # i \/ p # i
      BY <2>4
    <3> QED
      BY <3>2, <3>3, <2>4, <1>5, <1>8
  <2> QED
    BY <2>1, <2>2, <2>3, <2>4
<1>9. ASSUME NEW c \in 1 .. m, Parent(c) = s PROVE g[Parent(s)].score <= g[c].score
  <2>1. c # s /\ c # p /\ c # i /\ Parent(c) >= lo /\ Parent(c) # p
    BY <1>1, <1>4, <1>9
  <2>2. g[c] = h[c]
    BY <2>1, <1>2
  <2>3. h[s].score <= h[c].score
    BY <2>1, <1>5, <1>9
  <2> QED
    BY <2>2, <2>3, <1>1, <1>2
<1>10. MaySink(g, m, lo, i, s)
  BY <1>1, <1>8, <1>9 DEF MaySink, Spans2
<1> QED
  BY <1>10 DEF g

\* Where the item stays, it may only have to rise, from where it was put.
LEMMA Sunk ==
  ASSUME NEW m \in Nat, NEW h \in Heaps(m), NEW lo \in Nat \ {0}, NEW i \in 1 .. m, lo <= i,
         NEW p \in 1 .. m, MaySink(h, m, lo, i, p),
         \A c : Child(m, p, c) => h[p].score <= h[c].score
  PROVE  MayRise(h, m, lo, i)
<1>1. \A k \in 1 .. m : h[k].score \in Int
  BY DEF Heaps, Items
<1>2. \A j \in 1 .. m : Parent(j) \in Nat /\ (Parent(j) >= lo => Parent(j) \in 1 .. m)
  BY ParentOf
<1>3. \A j \in 1 .. m : Parent(j) = p => h[Parent(j)].score <= h[j].score
  BY DEF Child
<1>4. \A j \in 1 .. m : Parent(j) >= lo /\ (j # i \/ p # i) => h[Parent(j)].score <= h[j].score
  BY <1>3 DEF MaySink
<1>5. Spans2(h, m, lo, i)
  <2>1. CASE p = i
    BY <2>1 DEF MaySink
  <2>2. CASE p # i
    <3> SUFFICES ASSUME Parent(i) >= lo, NEW c \in 1 .. m, Parent(c) = i
                 PROVE  h[Parent(i)].score <= h[c].score
      BY DEF Spans2
    <3>1. h[Parent(i)].score <= h[i].score /\ h[i].score <= h[c].score
      BY <2>2, <1>4
    <3> QED
      BY <3>1, <1>1, <1>2
  <2> QED
    BY <2>1, <2>2
<1> QED
  BY <1>4, <1>5 DEF MayRise

\* Where the item need not rise, all are in order.
LEMMA Risen ==
  ASSUME NEW m \in Nat, NEW h, NEW p \in 1 .. m, MayRise(h, m, 1, p),
         p = 1 \/ h[Parent(p)].score <= h[p].score
  PROVE  InOrder(h, m, 1)
<1>1. Parent(1) = 0
  BY ParentOf
<1>2. p = 1 => ~(Parent(p) >= 1)
  BY <1>1
<1> QED
  BY <1>2 DEF MayRise, InOrder

-----------------------------------------------------------------------------
(* VirtualQueue: the loops.                                                *)

Places(m) == [heap : Heaps(m), at : 1 .. m]

IsUp(up, h, i, m) == up[0] = [heap |-> h, at |-> i] /\ \A n \in 1 .. i : up[n] = Rise(up[n - 1])

IsDown(down, h, i, m) == down[0] = [heap |-> h, at |-> i] /\ \A n \in 1 .. m : down[n] = Sink(down[n - 1])

LEMMA RiseTyped == ASSUME NEW m \in Nat, NEW r \in Places(m) PROVE Rise(r) \in Places(m)
<1>1. r.heap \in Heaps(m) /\ r.at \in 1 .. m
  BY DEF Places
<1>2. CASE r.at = 1 \/ r.heap[Parent(r.at)].score <= r.heap[r.at].score
  BY <1>2 DEF Rise
<1>3. CASE ~(r.at = 1 \/ r.heap[Parent(r.at)].score <= r.heap[r.at].score)
  <2>1. Parent(r.at) \in 1 .. m /\ Parent(r.at) # r.at
    BY <1>1, <1>3, ParentOf
  <2>2. Swap(r.heap, r.at, Parent(r.at)) \in Heaps(m)
    BY <1>1, <2>1, SwapIs
  <2> QED
    BY <1>3, <2>1, <2>2 DEF Rise, Places
<1> QED
  BY <1>2, <1>3

LEMMA SinkTyped == ASSUME NEW m \in Nat, NEW r \in Places(m) PROVE Sink(r) \in Places(m)
<1> DEFINE s == Smallest(r.heap, r.at)
<1>1. r.heap \in Heaps(m) /\ r.at \in 1 .. m
  BY DEF Places
<1>2. CASE s = r.at
  BY <1>2 DEF Sink
<1>3. CASE s # r.at
  <2>1. s \in 1 .. m
    BY <1>1, <1>3, SmallestIs DEF Child
  <2>2. Swap(r.heap, r.at, s) \in Heaps(m)
    BY <1>1, <1>3, <2>1, SwapIs
  <2> HIDE DEF s
  <2>3. [heap |-> Swap(r.heap, r.at, s), at |-> s] \in Places(m)
    BY <2>1, <2>2 DEF Places
  <2> QED
    BY <1>3, <2>3 DEF Sink, s
<1> QED
  BY <1>2, <1>3

\* The loop of bubbleUp has a run.
LEMMA UpRuns ==
  ASSUME NEW m \in Nat, NEW h \in Heaps(m), NEW i \in 1 .. m
  PROVE  \E run : IsUp(run, h, i, m) /\ BubbleUp(h, i) = run[i].heap
<1> DEFINE first == [heap |-> h, at |-> i]
           X == Places(m)
           round == [n \in 1 .. i |-> [r \in X |-> Rise(r)]]
           Fits(f) == f = [n \in 0 .. i |-> IF n = 0 THEN first ELSE Rise(f[n - 1])]
<1>1. i \in Nat /\ first \in X
  BY DEF Places
<1>2. ASSUME NEW r \in X PROVE Rise(r) \in X
  BY RiseTyped
<1>3. BubbleUp(h, i) = (CHOOSE f : Fits(f))[i].heap
  BY HeapLength DEF BubbleUp
<1>4. PICK run : IsRun(run, i, X, first, round)
  <2>1. round \in [1 .. i -> [X -> X]]
    <3> HIDE DEF X
    <3> QED
      BY <1>2
  <2>2. AreRounds(round, i, X)
    BY <2>1 DEF AreRounds
  <2> HIDE DEF round, X, first
  <2> QED
    BY <1>1, <2>2, LoopRuns
<1>5. Fits(run)
  <2>1. ASSUME NEW n \in 0 .. i PROVE run[n] = IF n = 0 THEN first ELSE Rise(run[n - 1])
    <3>1. CASE n = 0
      BY <3>1, <1>4 DEF IsRun
    <3>2. CASE n # 0
      <4>1. n \in 1 .. i /\ n - 1 \in 0 .. i
        BY <3>2, <1>1
      <4>2. run[n] = round[n][run[n - 1]] /\ run[n - 1] \in X
        BY <4>1, <1>4 DEF IsRun
      <4>3. round[n][run[n - 1]] = Rise(run[n - 1])
        <5> HIDE DEF X
        <5> QED
          BY <4>1, <4>2
      <4> QED
        BY <4>2, <4>3, <3>2
    <3> QED
      BY <3>1, <3>2
  <2>2. run = [n \in 0 .. i |-> run[n]]
    BY <1>4 DEF IsRun
  <2> HIDE DEF first
  <2> QED
    BY <2>1, <2>2
<1> DEFINE fits == CHOOSE f : Fits(f)
<1>6. Fits(fits)
  <2> HIDE DEF Fits
  <2> QED
    BY <1>5
<1> HIDE DEF fits
<1>7. fits[0] = first /\ \A n \in 1 .. i : fits[n] = Rise(fits[n - 1])
  <2> HIDE DEF first
  <2>1. \A n \in 0 .. i : fits[n] = IF n = 0 THEN first ELSE Rise(fits[n - 1])
    BY <1>6
  <2>2. 0 \in 0 .. i /\ \A n \in 1 .. i : n \in 0 .. i /\ n # 0
    BY <1>1
  <2> QED
    BY <2>1, <2>2
<1>8. IsUp(fits, h, i, m)
  BY <1>7 DEF IsUp
<1> QED
  BY <1>3, <1>8 DEF fits

\* The loop of sinkDown has a run.
LEMMA DownRuns ==
  ASSUME NEW m \in Nat, NEW h \in Heaps(m), NEW i \in 1 .. m
  PROVE  \E run : IsDown(run, h, i, m) /\ SinkDown(h, i) = run[m].heap
<1> DEFINE first == [heap |-> h, at |-> i]
           X == Places(m)
           round == [n \in 1 .. m |-> [r \in X |-> Sink(r)]]
           Fits(f) == f = [n \in 0 .. m |-> IF n = 0 THEN first ELSE Sink(f[n - 1])]
<1>1. i \in Nat /\ first \in X
  BY DEF Places
<1>2. ASSUME NEW r \in X PROVE Sink(r) \in X
  BY SinkTyped
<1>3. SinkDown(h, i) = (CHOOSE f : Fits(f))[m].heap
  BY HeapLength DEF SinkDown
<1>4. PICK run : IsRun(run, m, X, first, round)
  <2>1. round \in [1 .. m -> [X -> X]]
    <3> HIDE DEF X
    <3> QED
      BY <1>2
  <2>2. AreRounds(round, m, X)
    BY <2>1 DEF AreRounds
  <2> HIDE DEF round, X, first
  <2> QED
    BY <1>1, <2>2, LoopRuns
<1>5. Fits(run)
  <2>1. ASSUME NEW n \in 0 .. m PROVE run[n] = IF n = 0 THEN first ELSE Sink(run[n - 1])
    <3>1. CASE n = 0
      BY <3>1, <1>4 DEF IsRun
    <3>2. CASE n # 0
      <4>1. n \in 1 .. m /\ n - 1 \in 0 .. m
        BY <3>2, <1>1
      <4>2. run[n] = round[n][run[n - 1]] /\ run[n - 1] \in X
        BY <4>1, <1>4 DEF IsRun
      <4>3. round[n][run[n - 1]] = Sink(run[n - 1])
        <5> HIDE DEF X
        <5> QED
          BY <4>1, <4>2
      <4> QED
        BY <4>2, <4>3, <3>2
    <3> QED
      BY <3>1, <3>2
  <2>2. run = [n \in 0 .. m |-> run[n]]
    BY <1>4 DEF IsRun
  <2> HIDE DEF first
  <2> QED
    BY <2>1, <2>2
<1> DEFINE fits == CHOOSE f : Fits(f)
<1>6. Fits(fits)
  <2> HIDE DEF Fits
  <2> QED
    BY <1>5
<1> HIDE DEF fits
<1>7. fits[0] = first /\ \A n \in 1 .. m : fits[n] = Sink(fits[n - 1])
  <2> HIDE DEF first
  <2>1. \A n \in 0 .. m : fits[n] = IF n = 0 THEN first ELSE Sink(fits[n - 1])
    BY <1>6
  <2>2. 0 \in 0 .. m /\ \A n \in 1 .. m : n \in 0 .. m /\ n # 0
    BY <1>1
  <2> QED
    BY <2>1, <2>2
<1>8. IsDown(fits, h, i, m)
  BY <1>7 DEF IsDown
<1> QED
  BY <1>3, <1>8 DEF fits

-----------------------------------------------------------------------------
(* VirtualQueue: what the loops make of a heap.                            *)

\* The same entries in as many places.
SameItems(g, h, m) == g \in Heaps(m) /\ OneCopy(g) /\ Of(g) = Of(h)

\* bubbleUp puts a heap in order where one item may have to rise.
LEMMA BubbleUpIs ==
  ASSUME NEW m \in Nat, NEW h \in Heaps(m), OneCopy(h), NEW i \in 1 .. m, MayRise(h, m, 1, i)
  PROVE  SameItems(BubbleUp(h, i), h, m) /\ InOrder(BubbleUp(h, i), m, 1)
<1>1. PICK up : IsUp(up, h, i, m) /\ BubbleUp(h, i) = up[i].heap
  BY UpRuns
<1> DEFINE g(n) == up[n].heap
           p(n) == up[n].at
           Settled(n) == p(n) = 1 \/ g(n)[Parent(p(n))].score <= g(n)[p(n)].score
           Good(n) == /\ up[n] \in Places(m) /\ SameItems(g(n), h, m) /\ MayRise(g(n), m, 1, p(n))
                      /\ p(n) + n <= i \/ Settled(n)
           T == {n \in 0 .. i : Good(n)}
<1>2. i \in Nat
  OBVIOUS
<1>3. 0 \in T
  <2>1. up[0] = [heap |-> h, at |-> i]
    BY <1>1 DEF IsUp
  <2>2. up[0] \in Places(m) /\ g(0) = h /\ p(0) = i
    BY <2>1 DEF Places
  <2>3. p(0) + 0 <= i
    BY <2>2
  <2>4. Good(0)
    BY <2>2, <2>3 DEF SameItems
  <2> QED
    BY <2>4, <1>2
<1>4. ASSUME NEW n \in 1 .. i, n - 1 \in T PROVE n \in T
  <2>1. Good(n - 1) /\ n \in 0 .. i
    BY <1>4
  <2>2. up[n] = Rise(up[n - 1])
    BY <1>1 DEF IsUp
  <2> DEFINE r == up[n - 1]
  <2>3. r \in Places(m) /\ r.heap \in Heaps(m) /\ r.at \in 1 .. m /\ SameItems(r.heap, h, m) /\ MayRise(r.heap, m, 1, r.at)
    BY <2>1 DEF Places
  <2>4. up[n] \in Places(m)
    BY <2>2, <2>3, RiseTyped
  <2>5. CASE Settled(n - 1)
    <3>1. up[n] = r
      BY <2>2, <2>5 DEF Rise
    <3>2. Settled(n)
      BY <3>1, <2>5
    <3>3. Good(n)
      BY <3>1, <3>2, <2>3
    <3> QED
      BY <3>3, <2>1
  <2>6. CASE ~Settled(n - 1)
    <3> DEFINE q == Parent(r.at)
               f == Swap(r.heap, r.at, q)
    <3>1. up[n] = [heap |-> f, at |-> q]
      BY <2>2, <2>6 DEF Rise
    <3>2. r.at # 1 /\ r.at + (n - 1) <= i
      BY <2>1, <2>6
    <3>3. q \in 1 .. m /\ q < r.at
      BY <3>2, <2>3, ParentOf
    <3>4. r.heap[r.at].score < r.heap[q].score
      <4>1. r.heap[r.at].score \in Int /\ r.heap[q].score \in Int
        BY <3>3, <2>3 DEF Heaps, Items
      <4>2. ~(r.heap[q].score <= r.heap[r.at].score)
        BY <2>6
      <4> QED
        BY <4>1, <4>2
    <3>5. MayRise(f, m, 1, q)
      BY <3>2, <3>4, <2>3, RiseStep
    <3>6. SameItems(f, h, m)
      <4>1. f \in Heaps(m)
        BY <3>3, <2>3, SwapIs
      <4>2. OneCopy(f) /\ Of(f) = Of(r.heap)
        BY <3>3, <2>3, SwapHolds DEF SameItems
      <4> QED
        BY <4>1, <4>2, <2>3 DEF SameItems
    <3>7. up[n].heap = f /\ up[n].at = q
      BY <3>1
    <3> HIDE DEF f, q, r
    <3>8. q + n <= i
      BY <3>2, <3>3, <2>3
    <3>9. Good(n)
      BY <3>5, <3>6, <3>7, <3>8, <2>4
    <3> QED
      BY <3>9, <2>1
  <2> QED
    BY <2>5, <2>6
<1>5. Good(i)
  <2> HIDE DEF T
  <2>1. 0 .. i \subseteq T
    BY <1>2, <1>3, <1>4, EachRound
  <2>2. i \in 0 .. i
    BY <1>2
  <2> QED
    BY <2>1, <2>2 DEF T
<1>6. p(i) \in 1 .. m /\ Settled(i)
  <2>1. p(i) \in 1 .. m
    BY <1>5 DEF Places
  <2>2. ~(p(i) + i <= i)
    BY <2>1
  <2> QED
    BY <2>1, <2>2, <1>5
<1>7. InOrder(g(i), m, 1)
  BY <1>5, <1>6, Risen
<1> QED
  BY <1>1, <1>5, <1>7

\* sinkDown leaves at most the item above where it began to rise.
LEMMA SinkDownIs ==
  ASSUME NEW m \in Nat, NEW h \in Heaps(m), OneCopy(h), NEW i \in 1 .. m,
         NEW lo \in Nat \ {0}, lo <= i, MaySink(h, m, lo, i, i)
  PROVE  SameItems(SinkDown(h, i), h, m) /\ MayRise(SinkDown(h, i), m, lo, i)
<1>1. PICK down : IsDown(down, h, i, m) /\ SinkDown(h, i) = down[m].heap
  BY DownRuns
<1> DEFINE g(n) == down[n].heap
           p(n) == down[n].at
           Settled(n) == Smallest(g(n), p(n)) = p(n)
           Good(n) == /\ down[n] \in Places(m) /\ SameItems(g(n), h, m) /\ MaySink(g(n), m, lo, i, p(n))
                      /\ n < p(n) \/ Settled(n)
           T == {n \in 0 .. m : Good(n)}
<1>2. i \in Nat
  OBVIOUS
<1>3. 0 \in T
  <2>1. down[0] = [heap |-> h, at |-> i]
    BY <1>1 DEF IsDown
  <2>2. down[0] \in Places(m) /\ g(0) = h /\ p(0) = i
    BY <2>1 DEF Places
  <2>3. 0 < p(0)
    BY <2>2
  <2>4. Good(0)
    BY <2>2, <2>3 DEF SameItems
  <2> QED
    BY <2>4, <1>2
<1>4. ASSUME NEW n \in 1 .. m, n - 1 \in T PROVE n \in T
  <2>1. Good(n - 1) /\ n \in 0 .. m
    BY <1>4
  <2>2. down[n] = Sink(down[n - 1])
    BY <1>1 DEF IsDown
  <2> DEFINE r == down[n - 1]
             s == Smallest(r.heap, r.at)
  <2>3. r \in Places(m) /\ r.heap \in Heaps(m) /\ r.at \in 1 .. m /\ SameItems(r.heap, h, m) /\ MaySink(r.heap, m, lo, i, r.at)
    BY <2>1 DEF Places
  <2>4. down[n] \in Places(m)
    BY <2>2, <2>3, SinkTyped
  <2>5. CASE s = r.at
    <3>1. down[n] = r
      BY <2>2, <2>5 DEF Sink
    <3>2. Settled(n)
      BY <3>1, <2>5
    <3>3. Good(n)
      BY <3>1, <3>2, <2>3
    <3> QED
      BY <3>3, <2>1
  <2>6. CASE s # r.at
    <3> DEFINE f == Swap(r.heap, r.at, s)
    <3>1. down[n] = [heap |-> f, at |-> s]
      BY <2>2, <2>6 DEF Sink
    <3>2. n - 1 < r.at
      BY <2>1, <2>6
    <3>3. /\ Child(m, r.at, s) /\ s > r.at /\ r.heap[s].score < r.heap[r.at].score
          /\ \A c : Child(m, r.at, c) => r.heap[s].score <= r.heap[c].score
      BY <2>3, <2>6, SmallestIs
    <3>4. s \in 1 .. m /\ s # r.at
      BY <3>3, <2>6 DEF Child
    <3>5. SameItems(f, h, m)
      <4>1. f \in Heaps(m)
        BY <3>4, <2>3, SwapIs
      <4>2. OneCopy(f) /\ Of(f) = Of(r.heap)
        BY <3>4, <2>3, SwapHolds DEF SameItems
      <4> QED
        BY <4>1, <4>2, <2>3 DEF SameItems
    <3>6. down[n].heap = f /\ down[n].at = s
      BY <3>1
    <3>7. MaySink(f, m, lo, i, s)
      <4> HIDE DEF s
      <4> QED
        BY <3>3, <2>3, SinkStep
    <3> HIDE DEF f, s, r
    <3>8. n < s
      BY <3>2, <3>3, <3>4, <2>3
    <3>9. Good(n)
      BY <3>5, <3>6, <3>7, <3>8, <2>4
    <3> QED
      BY <3>9, <2>1
  <2> QED
    BY <2>5, <2>6
<1>5. Good(m)
  <2> HIDE DEF T
  <2>1. 0 .. m \subseteq T
    BY <1>3, <1>4, EachRound
  <2>2. m \in 0 .. m
    OBVIOUS
  <2> QED
    BY <2>1, <2>2 DEF T
<1>6. p(m) \in 1 .. m /\ Settled(m) /\ g(m) \in Heaps(m)
  <2>1. p(m) \in 1 .. m /\ g(m) \in Heaps(m)
    BY <1>5 DEF Places
  <2>2. ~(m < p(m))
    BY <2>1
  <2> QED
    BY <2>1, <2>2, <1>5
<1>7. MayRise(g(m), m, lo, i)
  <2>1. \A c : Child(m, p(m), c) => g(m)[p(m)].score <= g(m)[c].score
    BY <1>6, SmallestIs
  <2>2. MaySink(g(m), m, lo, i, p(m))
    BY <1>5
  <2> HIDE DEF g, p
  <2> QED
    BY <2>1, <2>2, <1>6, Sunk
<1> QED
  BY <1>1, <1>5, <1>7

-----------------------------------------------------------------------------
(* VirtualQueue: what the operations make of a heap.                       *)

LEMMA SinkDownTyped ==
  ASSUME NEW m \in Nat, NEW h \in Heaps(m), NEW i \in 1 .. m PROVE SinkDown(h, i) \in Heaps(m)
<1>1. PICK down : IsDown(down, h, i, m) /\ SinkDown(h, i) = down[m].heap
  BY DownRuns
<1> DEFINE T == {n \in 0 .. m : down[n] \in Places(m)}
<1>2. 0 \in T
  BY <1>1 DEF IsDown, Places
<1>3. ASSUME NEW n \in 1 .. m, n - 1 \in T PROVE n \in T
  <2>1. down[n] = Sink(down[n - 1])
    BY <1>1 DEF IsDown
  <2>2. down[n] \in Places(m)
    BY <2>1, <1>3, SinkTyped
  <2> QED
    BY <2>2
<1> HIDE DEF T
<1>4. 0 .. m \subseteq T
  BY <1>2, <1>3, EachRound
<1>5. down[m] \in Places(m)
  BY <1>4 DEF T
<1> QED
  BY <1>1, <1>5 DEF Places

\* The loop of buildHeap.
IsBuilt(built, h, m) ==
  built[0] = h /\ \A n \in 1 .. m \div 2 : built[n] = SinkDown(built[n - 1], (m \div 2) + 1 - n)

LEMMA BuildRuns ==
  ASSUME NEW m \in Nat, NEW h \in Heaps(m)
  PROVE  \E built : IsBuilt(built, h, m) /\ BuildHeap(h) = built[m \div 2]
<1> DEFINE half == m \div 2
           X == Heaps(m)
           round == [n \in 1 .. half |-> [g \in X |-> SinkDown(g, half + 1 - n)]]
           Fits(f) == f = [n \in 0 .. half |-> IF n = 0 THEN h ELSE SinkDown(f[n - 1], half + 1 - n)]
<1>1. half \in Nat /\ half <= m
  OBVIOUS
<1>2. BuildHeap(h) = (CHOOSE f : Fits(f))[half]
  BY HeapLength DEF BuildHeap
<1> HIDE DEF half
<1>3. ASSUME NEW n \in 1 .. half, NEW g \in X PROVE SinkDown(g, half + 1 - n) \in X
  <2>1. half + 1 - n \in 1 .. m
    BY <1>1
  <2> QED
    BY <2>1, SinkDownTyped
<1>4. PICK run : IsRun(run, half, X, h, round)
  <2>1. round \in [1 .. half -> [X -> X]]
    <3> HIDE DEF X
    <3> QED
      BY <1>3
  <2>2. AreRounds(round, half, X)
    BY <2>1 DEF AreRounds
  <2> HIDE DEF round
  <2> QED
    BY <1>1, <2>2, LoopRuns
<1>5. Fits(run)
  <2>1. ASSUME NEW n \in 0 .. half PROVE run[n] = IF n = 0 THEN h ELSE SinkDown(run[n - 1], half + 1 - n)
    <3>1. CASE n = 0
      BY <3>1, <1>4 DEF IsRun
    <3>2. CASE n # 0
      <4>1. n \in 1 .. half /\ n - 1 \in 0 .. half
        BY <3>2, <1>1
      <4>2. run[n] = round[n][run[n - 1]] /\ run[n - 1] \in X
        BY <4>1, <1>4 DEF IsRun
      <4>3. round[n][run[n - 1]] = SinkDown(run[n - 1], half + 1 - n)
        <5> HIDE DEF X
        <5> QED
          BY <4>1, <4>2
      <4> QED
        BY <4>2, <4>3, <3>2
    <3> QED
      BY <3>1, <3>2
  <2>2. run = [n \in 0 .. half |-> run[n]]
    BY <1>4 DEF IsRun
  <2> QED
    BY <2>1, <2>2
<1> DEFINE fits == CHOOSE f : Fits(f)
<1>6. Fits(fits)
  <2> HIDE DEF Fits
  <2> QED
    BY <1>5
<1> HIDE DEF fits
<1>7. fits[0] = h /\ \A n \in 1 .. half : fits[n] = SinkDown(fits[n - 1], half + 1 - n)
  <2>1. \A n \in 0 .. half : fits[n] = IF n = 0 THEN h ELSE SinkDown(fits[n - 1], half + 1 - n)
    BY <1>6
  <2>2. 0 \in 0 .. half /\ \A n \in 1 .. half : n \in 0 .. half /\ n # 0
    BY <1>1
  <2> QED
    BY <2>1, <2>2
<1>8. IsBuilt(fits, h, m)
  BY <1>7 DEF IsBuilt, half
<1> QED
  BY <1>2, <1>8 DEF fits, half

\* buildHeap makes a heap of any list.
LEMMA BuildHeapIs ==
  ASSUME NEW m \in Nat, NEW h \in Heaps(m), OneCopy(h)
  PROVE  SameItems(BuildHeap(h), h, m) /\ InOrder(BuildHeap(h), m, 1)
<1> DEFINE half == m \div 2
<1>1. half \in Nat /\ half <= m /\ \A j \in 1 .. m : Parent(j) <= half /\ Parent(j) \in Nat /\ Parent(j) < j
  BY DEF Parent
<1>2. PICK built : IsBuilt(built, h, m) /\ BuildHeap(h) = built[half]
  BY BuildRuns
<1>3. built[0] = h /\ \A n \in 1 .. half : built[n] = SinkDown(built[n - 1], half + 1 - n)
  BY <1>2 DEF IsBuilt
<1> HIDE DEF half
<1> DEFINE Good(n) == SameItems(built[n], h, m) /\ InOrder(built[n], m, half + 1 - n)
           T == {n \in 0 .. half : Good(n)}
<1>4. 0 \in T
  <2>1. ASSUME NEW j \in 1 .. m PROVE ~(Parent(j) >= half + 1 - 0)
    BY <1>1
  <2>2. InOrder(built[0], m, half + 1 - 0)
    BY <2>1 DEF InOrder
  <2>3. SameItems(built[0], h, m)
    BY <1>3 DEF SameItems
  <2> QED
    BY <2>2, <2>3, <1>1
<1>5. ASSUME NEW n \in 1 .. half, n - 1 \in T PROVE n \in T
  <2> DEFINE i == half + 1 - n
             g == built[n - 1]
             f == SinkDown(g, i)
  <2>1. i \in 1 .. m /\ i \in Nat \ {0} /\ half + 1 - (n - 1) = i + 1 /\ n \in 0 .. half
    BY <1>1
  <2>2. SameItems(g, h, m) /\ InOrder(g, m, i + 1)
    BY <1>5, <2>1
  <2>3. built[n] = f
    BY <1>3
  <2> HIDE DEF f, g, i
  <2>4. MaySink(g, m, i, i, i)
    <3>1. ASSUME NEW j \in 1 .. m, Parent(j) >= i, Parent(j) # i PROVE g[Parent(j)].score <= g[j].score
      <4>1. Parent(j) >= i + 1
        BY <3>1, <2>1, <1>1
      <4> QED
        BY <4>1, <2>2 DEF InOrder
    <3>2. ~(Parent(i) >= i)
      BY <2>1, <1>1
    <3> QED
      BY <3>1, <3>2, <2>1 DEF MaySink, Spans2
  <2>5. SameItems(f, g, m) /\ MayRise(f, m, i, i)
    <3>1. g \in Heaps(m) /\ OneCopy(g) /\ i <= i
      BY <2>1, <2>2 DEF SameItems
    <3> QED
      BY <3>1, <2>1, <2>4, SinkDownIs DEF f
  <2>6. SameItems(f, h, m)
    BY <2>2, <2>5 DEF SameItems
  <2>7. InOrder(f, m, i)
    <3>1. ~(Parent(i) >= i)
      BY <2>1, <1>1
    <3> QED
      BY <3>1, <2>5 DEF MayRise, InOrder
  <2> QED
    BY <2>1, <2>3, <2>6, <2>7 DEF i
<1> HIDE DEF T
<1>6. 0 .. half \subseteq T
  BY <1>1, <1>4, <1>5, EachRound
<1>7. Good(half)
  BY <1>1, <1>6 DEF T
<1>8. half + 1 - half = 1
  BY <1>1
<1> QED
  BY <1>2, <1>7, <1>8

-----------------------------------------------------------------------------
(* VirtualQueue: heaps that are put in, taken from and loaded.             *)

IsHeap(h) == h \in Seq(Items) /\ OneCopy(h) /\ InOrder(h, Len(h), 1)

LEMMA SameIsHeap ==
  ASSUME NEW m \in Nat, NEW g, NEW h, SameItems(g, h, m), InOrder(g, m, 1)
  PROVE  IsHeap(g) /\ Of(g) = Of(h)
<1>1. g \in Heaps(m)
  BY DEF SameItems
<1>2. Len(g) = m /\ g \in Seq(Items)
  BY <1>1, HeapLength
<1> QED
  BY <1>2 DEF SameItems, IsHeap

LEMMA NoneIsHeap == IsHeap(<<>>) /\ Of(<<>>) = {}
  BY DEF IsHeap, Of, OneCopy, InOrder

LEMMA OfHeap == ASSUME NEW h, IsHeap(h) PROVE Of(h) \subseteq Entries
<1>1. h \in Seq(Items)
  BY DEF IsHeap
<1>2. \A k \in DOMAIN h : h[k] \in Items
  BY <1>1
<1> QED
  BY <1>2 DEF Of, Items

\* enqueue: one more entry.
LEMMA EnqueueIs ==
  ASSUME NEW h, IsHeap(h), NEW e \in Entries, e \notin Of(h)
  PROVE  IsHeap(Enqueue(h, e)) /\ Of(Enqueue(h, e)) = Of(h) \cup {e}
<1> DEFINE m == Len(h)
           new == [entry |-> e, score |-> ScoreOf[e]]
           g == Append(h, new)
<1>1. h \in Seq(Items) /\ m \in Nat /\ h \in Heaps(m) /\ DOMAIN h = 1 .. m
  BY DEF IsHeap, Heaps
<1>2. new \in Items /\ new.entry = e
  BY QueueAssumption DEF Items
<1> HIDE DEF new
<1>3. /\ g \in Seq(Items) /\ Len(g) = m + 1 /\ g[m + 1] = new
      /\ \A k \in 1 .. m : g[k] = h[k]
  BY <1>1, <1>2
<1>4. g \in Heaps(m + 1) /\ DOMAIN g = 1 .. m + 1
  <2> HIDE DEF g, m
  <2>1. g \in Heaps(m + 1) /\ m + 1 \in Nat
    BY <1>1, <1>3, IsHeaps
  <2> QED
    BY <2>1, HeapLength
<1> HIDE DEF g
<1>5. \A k \in 1 .. m + 1 : k \in 1 .. m \/ k = m + 1
  BY <1>1
<1>6. OneCopy(g)
  <2> SUFFICES ASSUME NEW a \in 1 .. m + 1, NEW b \in 1 .. m + 1, g[a].entry = g[b].entry PROVE a = b
    BY <1>4 DEF OneCopy
  <2>1. \A k \in 1 .. m : g[k].entry # e
    BY <1>1, <1>3 DEF Of
  <2>2. CASE a \in 1 .. m /\ b \in 1 .. m
    <3>1. h[a].entry = h[b].entry
      BY <2>2, <1>3
    <3> QED
      BY <3>1, <2>2, <1>1 DEF IsHeap, OneCopy
  <2>3. CASE a = m + 1
    BY <2>1, <2>3, <1>2, <1>3, <1>5
  <2>4. CASE b = m + 1
    BY <2>1, <2>4, <1>2, <1>3, <1>5
  <2> QED
    BY <2>2, <2>3, <2>4, <1>5
<1>7. Of(g) = Of(h) \cup {e}
  <2>1. ASSUME NEW k \in 1 .. m + 1 PROVE g[k].entry \in Of(h) \cup {e}
    <3>1. CASE k \in 1 .. m
      BY <3>1, <1>1, <1>3 DEF Of
    <3>2. CASE k = m + 1
      BY <3>2, <1>2, <1>3
    <3> QED
      BY <3>1, <3>2, <1>5
  <2>2. ASSUME NEW k \in 1 .. m PROVE h[k].entry \in Of(g)
    <3>1. k \in DOMAIN g /\ g[k] = h[k]
      BY <1>1, <1>3, <1>4
    <3> QED
      BY <3>1 DEF Of
  <2>3. e \in Of(g)
    <3>1. m + 1 \in DOMAIN g /\ g[m + 1].entry = e
      BY <1>1, <1>2, <1>3, <1>4
    <3> QED
      BY <3>1 DEF Of
  <2> QED
    BY <2>1, <2>2, <2>3, <1>1, <1>4 DEF Of
<1>8. MayRise(g, m + 1, 1, m + 1)
  <2>1. ASSUME NEW j \in 1 .. m + 1, Parent(j) >= 1, j # m + 1 PROVE g[Parent(j)].score <= g[j].score
    <3>1. j \in 1 .. m /\ Parent(j) \in 1 .. m
      BY <2>1, <1>1, ParentOf
    <3>2. h[Parent(j)].score <= h[j].score
      BY <3>1, <2>1 DEF IsHeap, InOrder
    <3> QED
      BY <3>1, <3>2, <1>3
  <2>2. ASSUME NEW c \in 1 .. m + 1 PROVE Parent(c) # m + 1
    <3>1. Parent(c) < c
      BY ParentOf
    <3> QED
      BY <3>1, <1>1
  <2> QED
    BY <2>1, <2>2 DEF MayRise, Spans2
<1>9. Enqueue(h, e) = BubbleUp(g, m + 1)
  BY <1>3 DEF Enqueue, g, new
<1>10. SameItems(BubbleUp(g, m + 1), g, m + 1) /\ InOrder(BubbleUp(g, m + 1), m + 1, 1)
  <2>1. m + 1 \in Nat /\ m + 1 \in 1 .. m + 1
    BY <1>1
  <2> HIDE DEF m
  <2> QED
    BY <2>1, <1>4, <1>6, <1>8, BubbleUpIs
<1>11. m + 1 \in Nat
  BY <1>1
<1> HIDE DEF m
<1> QED
  BY <1>7, <1>9, <1>10, <1>11, SameIsHeap

\* One entry fewer, wherever it was.
LEMMA TakeAtIs ==
  ASSUME NEW h, IsHeap(h), NEW i \in DOMAIN h
  PROVE  IsHeap(TakeAt(h, i)) /\ Of(TakeAt(h, i)) = Of(h) \ {h[i].entry}
<1> DEFINE m == Len(h)
           n == m - 1
           rest == SubSeq(h, 1, n)
           put == [rest EXCEPT ![i] = h[m]]
<1>1. h \in Seq(Items) /\ m \in Nat /\ h \in Heaps(m) /\ DOMAIN h = 1 .. m /\ i \in 1 .. m /\ n \in Nat /\ n <= m
  <2>1. h \in Seq(Items) /\ m \in Nat /\ h \in Heaps(m) /\ DOMAIN h = 1 .. m
    BY DEF IsHeap, Heaps
  <2> QED
    BY <2>1
<1>2. rest \in Seq(Items) /\ Len(rest) = n /\ \A k \in 1 .. n : rest[k] = h[k]
  BY <1>1
<1>3. rest \in Heaps(n) /\ DOMAIN rest = 1 .. n
  <2> HIDE DEF rest, n
  <2>1. rest \in Heaps(n)
    BY <1>2, IsHeaps
  <2> QED
    BY <2>1, <1>1, HeapLength
<1>4. \A k \in 1 .. m : h[k] \in Items /\ h[k].score \in Int
  BY <1>1 DEF Heaps, Items
<1>5. \A a, b \in 1 .. m : h[a].entry = h[b].entry => a = b
  BY <1>1 DEF IsHeap, OneCopy
<1>6. \A j \in 1 .. m : Parent(j) >= 1 => h[Parent(j)].score <= h[j].score
  BY DEF IsHeap, InOrder
<1>7. \A j \in 1 .. m : Parent(j) \in Nat /\ Parent(j) < j
  BY ParentOf
<1>8. TakeAt(h, i) = IF i > n THEN rest ELSE BubbleUp(SinkDown(put, i), i)
  BY <1>2 DEF TakeAt
<1> HIDE DEF rest
<1>9. CASE i > n
  <2>1. i = m /\ \A k : k \in 1 .. n <=> k \in 1 .. m /\ k # i
    BY <1>1, <1>9
  <2> HIDE DEF n, m
  <2>2. OneCopy(rest)
    BY <2>1, <1>2, <1>3, <1>5 DEF OneCopy
  <2>3. Of(rest) = Of(h) \ {h[i].entry}
    BY <2>1, <1>1, <1>2, <1>3, <1>5 DEF Of
  <2>4. InOrder(rest, n, 1)
    <3> SUFFICES ASSUME NEW j \in 1 .. n, Parent(j) >= 1 PROVE rest[Parent(j)].score <= rest[j].score
      BY DEF InOrder
    <3>1. j \in 1 .. m /\ Parent(j) \in 1 .. n
      BY <1>1, <1>7
    <3> QED
      BY <3>1, <1>2, <1>6
  <2> QED
    BY <2>2, <2>3, <2>4, <1>2, <1>8, <1>9 DEF IsHeap
<1>10. CASE ~(i > n)
  <2>1. i \in 1 .. n /\ m \in 1 .. m /\ m \notin 1 .. n /\ \A k : k \in 1 .. m <=> k \in 1 .. n \/ k = m
    BY <1>1, <1>10
  <2> DEFINE From(k) == IF k = i THEN m ELSE k
  <2> HIDE DEF n, m
  <2>2. put \in Heaps(n) /\ DOMAIN put = 1 .. n
    BY <2>1, <1>3, <1>4 DEF Heaps
  <2>3. put[i] = h[m] /\ \A k \in 1 .. n : k # i => put[k] = h[k]
    BY <2>1, <1>2, <1>3
  <2> HIDE DEF put
  <2>4. \A k \in 1 .. n : From(k) \in 1 .. m /\ From(k) # i /\ put[k] = h[From(k)]
    BY <2>1, <2>3
  <2>5. \A a, b \in 1 .. n : From(a) = From(b) => a = b
    BY <2>1
  <2>6. \A k \in 1 .. m : k # i => \E a \in 1 .. n : From(a) = k
    <3> SUFFICES ASSUME NEW k \in 1 .. m, k # i PROVE \E a \in 1 .. n : From(a) = k
      OBVIOUS
    <3>1. CASE k = m
      BY <3>1, <2>1
    <3>2. CASE k # m
      <4>1. k \in 1 .. n /\ From(k) = k
        BY <3>2, <2>1
      <4> QED
        BY <4>1
    <3> QED
      BY <3>1, <3>2
  <2> HIDE DEF From
  <2>7. OneCopy(put)
    <3> SUFFICES ASSUME NEW a \in 1 .. n, NEW b \in 1 .. n, put[a].entry = put[b].entry PROVE a = b
      BY <2>2 DEF OneCopy
    <3> QED
      BY <2>4, <2>5, <1>5
  <2>8. Of(put) = Of(h) \ {h[i].entry}
    <3>1. ASSUME NEW k \in 1 .. n PROVE put[k].entry \in Of(h) \ {h[i].entry}
      <4>1. From(k) \in 1 .. m /\ From(k) # i /\ put[k].entry = h[From(k)].entry
        BY <2>4
      <4>2. h[From(k)].entry # h[i].entry
        BY <4>1, <1>1, <1>5
      <4> QED
        BY <4>1, <4>2, <1>1 DEF Of
    <3>2. ASSUME NEW k \in 1 .. m, h[k].entry # h[i].entry PROVE h[k].entry \in Of(put)
      <4>1. PICK a \in 1 .. n : From(a) = k
        BY <3>2, <2>6
      <4>2. put[a].entry = h[k].entry
        BY <4>1, <2>4
      <4> QED
        BY <4>1, <4>2, <2>2 DEF Of
    <3> QED
      BY <3>1, <3>2, <2>2, <1>1 DEF Of
  <2>9. MaySink(put, n, 1, i, i)
    <3>1. ASSUME NEW j \in 1 .. n, Parent(j) >= 1, Parent(j) # i, j # i PROVE put[Parent(j)].score <= put[j].score
      <4>1. Parent(j) \in 1 .. n /\ j \in 1 .. m
        BY <3>1, <2>1, <1>1, <1>7 DEF n
      <4>2. put[Parent(j)] = h[Parent(j)] /\ put[j] = h[j]
        BY <4>1, <3>1, <2>3
      <4> QED
        BY <4>1, <4>2, <3>1, <1>6
    <3>2. ASSUME Parent(i) >= 1, NEW c \in 1 .. n, Parent(c) = i PROVE put[Parent(i)].score <= put[c].score
      <4>1. i \in 1 .. m /\ c \in 1 .. m /\ c # i /\ Parent(i) # i /\ Parent(i) \in 1 .. n /\ Parent(i) \in 1 .. m /\ Parent(c) >= 1
        BY <3>2, <2>1, <1>1, <1>7 DEF n
      <4>2. put[Parent(i)] = h[Parent(i)] /\ put[c] = h[c]
        BY <4>1, <2>3
      <4>3. h[Parent(i)].score <= h[i].score /\ h[i].score <= h[c].score
        BY <4>1, <3>2, <1>6
      <4>4. h[Parent(i)].score \in Int /\ h[i].score \in Int /\ h[c].score \in Int
        BY <4>1, <1>4
      <4> QED
        BY <4>2, <4>3, <4>4
    <3>3. i <= i
      BY <2>1, <1>1
    <3> QED
      BY <3>1, <3>2, <3>3 DEF MaySink, Spans2
  <2> DEFINE sunk == SinkDown(put, i)
             g == BubbleUp(sunk, i)
  <2>10. SameItems(sunk, put, n) /\ MayRise(sunk, n, 1, i)
    <3>1. 1 \in Nat \ {0} /\ 1 <= i
      BY <2>1, <1>1
    <3> QED
      BY <3>1, <2>1, <2>2, <2>7, <2>9, <1>1, SinkDownIs
  <2> HIDE DEF sunk
  <2>11. SameItems(g, sunk, n) /\ InOrder(g, n, 1)
    <3>1. sunk \in Heaps(n) /\ OneCopy(sunk)
      BY <2>10 DEF SameItems
    <3> QED
      BY <3>1, <2>1, <2>10, <1>1, BubbleUpIs
  <2>12. IsHeap(g) /\ Of(g) = Of(sunk)
    BY <2>11, <1>1, SameIsHeap
  <2> HIDE DEF g
  <2>13. Of(sunk) = Of(put)
    BY <2>10 DEF SameItems
  <2> QED
    BY <2>8, <2>12, <2>13, <1>8, <1>10 DEF g, sunk
<1> QED
  BY <1>9, <1>10

LEMMA LowestIs == ASSUME NEW S \in SUBSET Nat, S # {} PROVE Lowest(S) \in S
<1>1. \E i \in S : \A j \in S : i <= j
  BY Least
<1> QED
  BY <1>1 DEF Lowest

\* removeEntry: all but the entry.
LEMMA RemoveEntryIs ==
  ASSUME NEW h, IsHeap(h), NEW e
  PROVE  IsHeap(RemoveEntry(h, e)) /\ Of(RemoveEntry(h, e)) = Of(h) \ {e}
<1> DEFINE S == {i \in DOMAIN h : h[i].entry = e}
<1>1. RemoveEntry(h, e) = IF S = {} THEN h ELSE TakeAt(h, Lowest(S))
  BY DEF RemoveEntry
<1>2. CASE S = {}
  BY <1>1, <1>2 DEF Of
<1>3. CASE S # {}
  <2>1. S \in SUBSET Nat
    BY DEF IsHeap
  <2>2. Lowest(S) \in S
    <3> HIDE DEF S
    <3> QED
      BY <2>1, <1>3, LowestIs
  <2>3. Lowest(S) \in DOMAIN h /\ h[Lowest(S)].entry = e
    BY <2>2
  <2> HIDE DEF S
  <2> QED
    BY <2>3, <1>1, <1>3, TakeAtIs
<1> QED
  BY <1>2, <1>3

\* findIndex: a place of the heap.
LEMMA FirstForIs ==
  ASSUME NEW h, IsHeap(h), NEW c, FirstFor(h, c) > 0
  PROVE  FirstFor(h, c) \in DOMAIN h
<1> DEFINE S == {i \in DOMAIN h : PostOf[h[i].entry] = c}
<1>1. FirstFor(h, c) = IF S = {} THEN 0 ELSE Lowest(S)
  BY DEF FirstFor
<1>2. S # {} /\ S \in SUBSET Nat
  BY <1>1 DEF IsHeap
<1>3. Lowest(S) \in S
  <2> HIDE DEF S
  <2> QED
    BY <1>2, LowestIs
<1> QED
  BY <1>1, <1>2, <1>3

-----------------------------------------------------------------------------
(* VirtualQueue: the rows in the order of the table.                       *)

LEMMA OrderedIs ==
  ASSUME NEW S \in SUBSET Entries
  PROVE  /\ IsFiniteSet(S) /\ Cardinality(S) \in Nat
         /\ Ordered(S) \in [1 .. Cardinality(S) -> S]
         /\ \A i, j \in 1 .. Cardinality(S) : i < j => Ordered(S)[i] # Ordered(S)[j]
         /\ \A x \in S : \E i \in 1 .. Cardinality(S) : Ordered(S)[i] = x
<1> DEFINE R == {p \in Entries \X Entries : RankOf[p[1]] <= RankOf[p[2]]}
<1>1. \A a, b \in S : <<a, b>> \in R <=> RankOf[a] <= RankOf[b]
  OBVIOUS
<1>2. \A a \in S : RankOf[a] \in Int
  BY QueueAssumption
<1>3. Ordered(S) = Listed(S, R)
  BY DEF Ordered
<1> HIDE DEF R
<1>4. IsFiniteSet(S) /\ Cardinality(S) \in Nat
  BY QueueAssumption, FS_Subset, FS_CardinalityType
<1>5. \A a, b \in S : <<a, b>> \in R \/ <<b, a>> \in R
  <2> SUFFICES ASSUME NEW a \in S, NEW b \in S PROVE <<a, b>> \in R \/ <<b, a>> \in R
    OBVIOUS
  <2>1. RankOf[a] <= RankOf[b] \/ RankOf[b] <= RankOf[a]
    BY <1>2
  <2> QED
    BY <2>1, <1>1
<1>6. \A a, b, c \in S : <<a, b>> \in R /\ <<b, c>> \in R => <<a, c>> \in R
  BY <1>1, <1>2
<1>7. IsListing(Ordered(S), Cardinality(S), S, R)
  BY <1>3, <1>4, <1>5, <1>6, ListedIsListing
<1> QED
  BY <1>4, <1>7 DEF IsListing

\* The first of them is one of them.
LEMMA HeadOfLine == ASSUME NEW S \in SUBSET Entries, S # {} PROVE Ordered(S)[1] \in S
<1>1. Cardinality(S) # 0
  BY OrderedIs, FS_EmptySet
<1>2. 1 \in 1 .. Cardinality(S)
  BY <1>1, OrderedIs
<1> QED
  BY <1>2, OrderedIs

\* What is loaded are the waiting rows, each once.
LEMMA LoadedIs ==
  /\ Cardinality(Waiting) \in Nat /\ Loaded \in Heaps(Cardinality(Waiting))
  /\ OneCopy(Loaded) /\ Of(Loaded) = Waiting
<1> DEFINE N == Cardinality(Waiting)
           list == Ordered(Waiting)
<1>1. Waiting \in SUBSET Entries
  BY DEF Waiting
<1>2. /\ N \in Nat /\ list \in [1 .. N -> Waiting]
      /\ \A i, j \in 1 .. N : i < j => list[i] # list[j]
      /\ \A x \in Waiting : \E i \in 1 .. N : list[i] = x
  BY <1>1, OrderedIs
<1>3. Loaded = [i \in DOMAIN list |-> [entry |-> list[i], score |-> RankOf[list[i]]]]
  BY DEF Loaded, Scored
<1> HIDE DEF list, N
<1>4. Loaded = [i \in 1 .. N |-> [entry |-> list[i], score |-> RankOf[list[i]]]]
  BY <1>2, <1>3
<1>5. ASSUME NEW i \in 1 .. N PROVE list[i] \in Entries /\ RankOf[list[i]] \in Int
  <2>1. list[i] \in Entries
    BY <1>1, <1>2
  <2> QED
    BY <2>1, QueueAssumption
<1>6. Loaded \in Heaps(N)
  BY <1>4, <1>5 DEF Heaps, Items
<1>7. DOMAIN Loaded = 1 .. N /\ \A i \in 1 .. N : Loaded[i].entry = list[i]
  BY <1>4
<1>8. OneCopy(Loaded)
  <2> SUFFICES ASSUME NEW i \in 1 .. N, NEW j \in 1 .. N, list[i] = list[j] PROVE i = j
    BY <1>7 DEF OneCopy
  <2>1. i \in Int /\ j \in Int /\ ~(i < j) /\ ~(j < i)
    BY <1>2
  <2> QED
    BY <2>1
<1>9. Of(Loaded) = Waiting
  BY <1>2, <1>7 DEF Of
<1> QED
  BY <1>2, <1>6, <1>8, <1>9 DEF N

LEMMA LoadedIsHeap == IsHeap(BuildHeap(Loaded)) /\ Of(BuildHeap(Loaded)) = Waiting
<1> DEFINE N == Cardinality(Waiting)
<1>1. N \in Nat /\ Loaded \in Heaps(N) /\ OneCopy(Loaded) /\ Of(Loaded) = Waiting
  BY LoadedIs
<1> HIDE DEF N
<1>2. SameItems(BuildHeap(Loaded), Loaded, N) /\ InOrder(BuildHeap(Loaded), N, 1)
  BY <1>1, BuildHeapIs
<1> QED
  BY <1>1, <1>2, SameIsHeap

-----------------------------------------------------------------------------
(* VirtualQueue: the invariant.                                            *)

QueueTypes ==
  /\ entry \in [Entries -> {"none", "void", "waiting", "notified", "cancelled", "expired"}]
  /\ heap = [d \in Doors |-> heap[d]] /\ \A d \in Doors : IsHeap(heap[d])
  /\ serving \in Entries \cup {NoEntry}
  /\ autoBooked \in [Entries -> Nat] /\ ready \in [Entries -> Nat]
  /\ notifier \in [Notifiers -> Entries \cup {NoEntry}]
  /\ leaving \subseteq Entries /\ overread \subseteq Entries /\ settled \subseteq Entries
  /\ starts \in Nat

\* This process may still book the entry.
MayBeBooked(e) == entry[e] = "none" \/ serving = e \/ e \in Of(heap["queue"])

\* An entry that a heap or a worker has came in once, and the worker's is not in the heap.
CameIn ==
  /\ \A d \in Doors : \A e \in Of(heap[d]) : entry[e] # "none"
  /\ serving # NoEntry => entry[serving] # "none" /\ serving \notin Of(heap["queue"])

\* An entry that may be booked was booked by earlier processes only, and none that no
\* longer waited when this one started may be.
BookedByEach ==
  /\ \A e \in Entries : autoBooked[e] <= starts /\ (MayBeBooked(e) => autoBooked[e] < starts)
  /\ \A e \in settled : ~MayBeBooked(e)
  /\ stray = {}

\* The row a run goes by still waits, and no other run goes by it, unless overread; and a
\* user who was told does not wait.
ToldByOne ==
  /\ \A w \in Notifiers : notifier[w] # NoEntry =>
       entry[notifier[w]] # "none" /\ (entry[notifier[w]] = "waiting" \/ notifier[w] \in overread)
  /\ \A v, w \in Notifiers : v # w /\ notifier[v] = notifier[w] /\ notifier[v] # NoEntry => notifier[v] \in overread
  /\ \A e \in Entries : ready[e] > 0 => entry[e] \notin {"none", "waiting"}
  /\ \A e \in Entries : ready[e] > 1 => e \in overread

QueueInv == QueueTypes /\ CameIn /\ BookedByEach /\ ToldByOne


\* One heap has changed.
LEMMA OneHeap ==
  ASSUME NEW d \in Doors, NEW g, heap = [b \in Doors |-> heap[b]], heap' = [heap EXCEPT ![d] = g]
  PROVE  heap'[d] = g /\ (\A b \in Doors : b # d => heap'[b] = heap[b]) /\ heap' = [b \in Doors |-> heap'[b]]
  OBVIOUS

LEMMA QueueStarts == ASSUME QueueInit PROVE QueueInv
<1>1. \A d \in Doors : heap[d] = <<>> /\ IsHeap(heap[d]) /\ Of(heap[d]) = {}
  BY NoneIsHeap DEF QueueInit
<1>2. QueueTypes
  BY <1>1 DEF QueueInit, QueueTypes
<1>3. CameIn
  BY <1>1 DEF QueueInit, CameIn
<1>4. BookedByEach
  BY DEF QueueInit, BookedByEach
<1>5. ToldByOne
  BY DEF QueueInit, ToldByOne
<1> QED
  BY <1>2, <1>3, <1>4, <1>5 DEF QueueInv

LEMMA JoinKeeps == ASSUME QueueInv, NEW d \in Doors, NEW e \in Entries, Join(d, e) PROVE QueueInv'
<1> USE DEF QueueInv
<1>1. PICK s \in {"waiting", "void"} : entry' = [entry EXCEPT ![e] = s]
  BY DEF Join
<1>2. entry[e] = "none" /\ entry'[e] = s /\ entry' \in [Entries -> {"none", "void", "waiting", "notified", "cancelled", "expired"}]
      /\ \A x \in Entries : x # e => entry'[x] = entry[x]
  BY <1>1 DEF Join, QueueTypes
<1>3. heap' = [heap EXCEPT ![d] = Enqueue(heap[d], e)]
      /\ UNCHANGED <<serving, autoBooked, notifier, ready, leaving, starts, overread, settled, stray>>
  BY DEF Join
<1>4. IsHeap(heap[d]) /\ e \notin Of(heap[d])
  BY <1>2 DEF QueueTypes, CameIn
<1>5. IsHeap(Enqueue(heap[d], e)) /\ Of(Enqueue(heap[d], e)) = Of(heap[d]) \cup {e}
  BY <1>4, EnqueueIs
<1>6. heap'[d] = Enqueue(heap[d], e) /\ (\A b \in Doors : b # d => heap'[b] = heap[b]) /\ heap' = [b \in Doors |-> heap'[b]]
  BY <1>3, OneHeap DEF QueueTypes
<1>7. \A b \in Doors : IsHeap(heap'[b]) /\ Of(heap[b]) \subseteq Of(heap'[b]) /\ Of(heap'[b]) \subseteq Of(heap[b]) \cup {e}
  BY <1>5, <1>6 DEF QueueTypes
<1>8. QueueTypes'
  BY <1>2, <1>3, <1>6, <1>7 DEF QueueTypes
<1>9. serving # e /\ \A b \in Doors : Of(heap'[b]) \subseteq Entries
  BY <1>2, <1>7, OfHeap, QueueAssumption DEF CameIn
<1>10. CameIn'
  <2>1. ASSUME NEW b \in Doors, NEW x \in Of(heap'[b]) PROVE entry'[x] # "none"
    <3>1. x \in Entries /\ (x = e \/ x \in Of(heap[b]))
      BY <2>1, <1>7, <1>9
    <3> QED
      BY <3>1, <1>2 DEF CameIn
  <2>2. ASSUME serving # NoEntry PROVE entry'[serving] # "none" /\ serving \notin Of(heap'["queue"])
    <3>1. serving \in Entries /\ entry[serving] # "none" /\ serving \notin Of(heap["queue"])
      BY <2>2 DEF CameIn, QueueTypes
    <3> QED
      BY <3>1, <1>2, <1>7, <1>9 DEF Doors
  <2> QED
    BY <2>1, <2>2, <1>3 DEF CameIn
<1>11. \A x \in Entries : MayBeBooked(x)' => MayBeBooked(x)
  <2> SUFFICES ASSUME NEW x \in Entries, MayBeBooked(x)' PROVE MayBeBooked(x)
    OBVIOUS
  <2>1. CASE x = e
    BY <2>1, <1>2 DEF MayBeBooked
  <2>2. CASE x # e
    BY <2>2, <1>2, <1>3, <1>7 DEF MayBeBooked, Doors
  <2> QED
    BY <2>1, <2>2
<1>12. BookedByEach'
  <2>1. settled \subseteq Entries
    BY DEF QueueTypes
  <2> QED
    BY <2>1, <1>3, <1>11 DEF BookedByEach
<1>13. ToldByOne'
  <2>1. ASSUME NEW w \in Notifiers, notifier[w] # NoEntry
        PROVE  entry'[notifier[w]] # "none" /\ (entry'[notifier[w]] = "waiting" \/ notifier[w] \in overread)
    <3>1. notifier[w] \in Entries /\ notifier[w] # e
      BY <2>1, <1>2 DEF QueueTypes, ToldByOne
    <3> QED
      BY <3>1, <2>1, <1>2 DEF ToldByOne
  <2>2. ASSUME NEW x \in Entries, ready[x] > 0 PROVE entry'[x] \notin {"none", "waiting"}
    <3>1. entry[x] \notin {"none", "waiting"}
      BY <2>2 DEF ToldByOne
    <3>2. x # e
      BY <3>1, <1>2
    <3> QED
      BY <3>1, <3>2, <1>2
  <2> QED
    BY <2>1, <2>2, <1>3 DEF ToldByOne
<1> QED
  BY <1>8, <1>10, <1>12, <1>13

LEMMA LeaveKeeps == ASSUME QueueInv, NEW e \in Entries, Leave(e) PROVE QueueInv'
<1> USE DEF QueueInv
<1>1. UNCHANGED <<heap, serving, autoBooked, notifier, ready, starts, settled, stray>>
      /\ leaving' = leaving \cup {e}
  BY DEF Leave
<1>2. entry' \in [Entries -> {"none", "void", "waiting", "notified", "cancelled", "expired"}]
      /\ \A x \in Entries : \/ entry'[x] = entry[x]
                            \/ x = e /\ entry[x] = "waiting" /\ entry'[x] = "cancelled"
  BY DEF Leave, QueueTypes
<1>3. \A x \in Entries : entry'[x] = "none" <=> entry[x] = "none"
  BY <1>2
<1>4. overread \subseteq overread' /\ overread' \subseteq Entries /\ \A w \in Notifiers : notifier[w] = e => e \in overread'
  BY DEF Leave, QueueTypes
<1>5. QueueTypes'
  BY <1>1, <1>2, <1>4 DEF QueueTypes
<1>6. \A d \in Doors : Of(heap[d]) \subseteq Entries
  BY OfHeap DEF QueueTypes
<1>7. CameIn'
  BY <1>1, <1>3, <1>6 DEF CameIn, QueueTypes
<1>8. \A x \in Entries : MayBeBooked(x)' <=> MayBeBooked(x)
  BY <1>1, <1>3 DEF MayBeBooked
<1>9. BookedByEach'
  <2>1. settled \subseteq Entries
    BY DEF QueueTypes
  <2> QED
    BY <2>1, <1>1, <1>8 DEF BookedByEach
<1>10. ToldByOne'
  <2>1. ASSUME NEW w \in Notifiers, notifier[w] # NoEntry
        PROVE  entry'[notifier[w]] # "none" /\ (entry'[notifier[w]] = "waiting" \/ notifier[w] \in overread')
    <3>1. notifier[w] \in Entries
      BY <2>1 DEF QueueTypes
    <3>2. entry[notifier[w]] # "none" /\ (entry[notifier[w]] = "waiting" \/ notifier[w] \in overread)
      BY <2>1 DEF ToldByOne
    <3> QED
      BY <3>1, <3>2, <1>2, <1>3, <1>4
  <2>2. ASSUME NEW x \in Entries, ready[x] > 0 PROVE entry'[x] \notin {"none", "waiting"}
    BY <2>2, <1>2 DEF ToldByOne
  <2>3. \A v, w \in Notifiers : v # w /\ notifier[v] = notifier[w] /\ notifier[v] # NoEntry => notifier[v] \in overread'
    BY <1>4 DEF ToldByOne
  <2>4. \A x \in Entries : ready[x] > 1 => x \in overread'
    BY <1>4 DEF ToldByOne
  <2> QED
    BY <2>1, <2>2, <2>3, <2>4, <1>1 DEF ToldByOne
<1> QED
  BY <1>5, <1>7, <1>9, <1>10

\* Where only heaps lost entries, what held holds.
LEMMA FewerInHeaps ==
  ASSUME QueueInv, heap' = [b \in Doors |-> heap'[b]],
         \A b \in Doors : IsHeap(heap'[b]) /\ Of(heap'[b]) \subseteq Of(heap[b]),
         UNCHANGED <<entry, serving, autoBooked, notifier, ready, starts, overread, settled, stray>>,
         leaving' \subseteq Entries
  PROVE  QueueInv'
<1> USE DEF QueueInv
<1>1. QueueTypes'
  BY DEF QueueTypes
<1>2. CameIn'
  BY DEF CameIn, Doors
<1>3. \A x \in Entries : MayBeBooked(x)' => MayBeBooked(x)
  BY DEF MayBeBooked, Doors
<1>4. BookedByEach'
  <2>1. settled \subseteq Entries
    BY DEF QueueTypes
  <2> QED
    BY <2>1, <1>3 DEF BookedByEach
<1>5. ToldByOne'
  BY DEF ToldByOne
<1> QED
  BY <1>1, <1>2, <1>4, <1>5

LEMMA LeaveHeapKeeps == ASSUME QueueInv, NEW d \in Doors, NEW e \in Entries, LeaveHeap(d, e) PROVE QueueInv'
<1>1. heap' = [heap EXCEPT ![d] = RemoveEntry(heap[d], e)] /\ leaving' = leaving \ {e}
      /\ UNCHANGED <<entry, serving, autoBooked, notifier, ready, starts, overread, settled, stray>>
  BY DEF LeaveHeap
<1>2. heap'[d] = RemoveEntry(heap[d], e) /\ (\A b \in Doors : b # d => heap'[b] = heap[b]) /\ heap' = [b \in Doors |-> heap'[b]]
  BY <1>1, OneHeap DEF QueueTypes, QueueInv
<1>3. \A b \in Doors : IsHeap(heap[b])
  BY DEF QueueTypes, QueueInv
<1>4. IsHeap(RemoveEntry(heap[d], e)) /\ Of(RemoveEntry(heap[d], e)) = Of(heap[d]) \ {e}
  BY <1>3, RemoveEntryIs
<1>5. \A b \in Doors : IsHeap(heap'[b]) /\ Of(heap'[b]) \subseteq Of(heap[b])
  BY <1>2, <1>3, <1>4
<1>6. leaving' \subseteq Entries
  BY <1>1 DEF QueueTypes, QueueInv
<1> QED
  BY <1>1, <1>2, <1>5, <1>6, FewerInHeaps


LEMMA DequeueKeeps == ASSUME QueueInv, NEW c \in Posts, Dequeue(c) PROVE QueueInv'
<1> USE DEF QueueInv
<1> DEFINE h == heap["queue"]
           i == FirstFor(h, c)
           e == h[i].entry
<1>1. /\ serving = NoEntry /\ i > 0 /\ serving' = e
      /\ heap' = [heap EXCEPT !["queue"] = TakeAt(h, i)]
      /\ UNCHANGED <<entry, autoBooked, notifier, ready, leaving, starts, overread, settled, stray>>
  BY DEF Dequeue
<1>2. \A b \in Doors : IsHeap(heap[b])
  BY DEF QueueTypes
<1>3. IsHeap(h) /\ i \in DOMAIN h
  BY <1>1, <1>2, FirstForIs DEF Doors
<1>4. IsHeap(TakeAt(h, i)) /\ Of(TakeAt(h, i)) = Of(h) \ {e}
  <2> HIDE DEF h, i
  <2> QED
    BY <1>3, TakeAtIs
<1>5. e \in Of(h) /\ e \in Entries
  <2>1. e \in Of(h)
    BY <1>3 DEF Of
  <2> QED
    BY <2>1, <1>3, OfHeap
<1>6. heap'["queue"] = TakeAt(h, i) /\ (\A b \in Doors : b # "queue" => heap'[b] = heap[b]) /\ heap' = [b \in Doors |-> heap'[b]]
  <2>1. "queue" \in Doors /\ heap = [b \in Doors |-> heap[b]]
    BY DEF Doors, QueueTypes
  <2> HIDE DEF h, i
  <2> QED
    BY <1>1, <2>1, OneHeap
<1> HIDE DEF i, e
<1>7. Of(heap'["queue"]) = Of(heap["queue"]) \ {e}
  BY <1>4, <1>6
<1> HIDE DEF h
<1>8. \A b \in Doors : IsHeap(heap'[b]) /\ Of(heap'[b]) \subseteq Of(heap[b])
  <2>1. IsHeap(heap'["queue"])
    BY <1>4, <1>6
  <2> QED
    BY <2>1, <1>2, <1>6, <1>7
<1>9. QueueTypes'
  BY <1>1, <1>5, <1>6, <1>8 DEF QueueTypes
<1>10. e \in Of(heap["queue"]) /\ entry[e] # "none" /\ e # NoEntry
  BY <1>5, QueueAssumption DEF h, CameIn, Doors
<1>11. CameIn'
  <2>1. ASSUME NEW b \in Doors, NEW x \in Of(heap'[b]) PROVE entry'[x] # "none"
    BY <1>1, <1>8 DEF CameIn
  <2>2. entry'[serving'] # "none" /\ serving' \notin Of(heap'["queue"])
    BY <1>1, <1>7, <1>10
  <2> QED
    BY <2>1, <2>2 DEF CameIn
<1>12. \A x \in Entries : MayBeBooked(x)' => MayBeBooked(x)
  BY <1>1, <1>7, <1>10 DEF MayBeBooked
<1>13. BookedByEach'
  <2>1. settled \subseteq Entries
    BY DEF QueueTypes
  <2> QED
    BY <2>1, <1>1, <1>12 DEF BookedByEach
<1>14. ToldByOne'
  BY <1>1 DEF ToldByOne
<1> QED
  BY <1>9, <1>11, <1>13, <1>14

LEMMA BookKeeps == ASSUME QueueInv, Book PROVE QueueInv'
<1> USE DEF QueueInv
<1> DEFINE e == serving
<1>1. /\ e # NoEntry /\ autoBooked' = [autoBooked EXCEPT ![e] = autoBooked[e] + 1]
      /\ heap' = [heap EXCEPT !["queue"] = heap["queue"]]
      /\ serving' = NoEntry /\ stray' = stray \cup ({e} \cap settled)
      /\ UNCHANGED <<entry, notifier, ready, leaving, starts, overread, settled>>
  BY DEF Book, AfterBooking
<1>2. heap' = heap
  BY <1>1 DEF QueueTypes
<1>3. e \in Entries /\ entry[e] # "none" /\ e \notin Of(heap["queue"])
  BY <1>1 DEF QueueTypes, CameIn
<1>4. MayBeBooked(e) /\ autoBooked[e] < starts /\ e \notin settled
  BY <1>3 DEF MayBeBooked, BookedByEach
<1>5. autoBooked \in [Entries -> Nat] /\ starts \in Nat
  BY DEF QueueTypes
<1> HIDE DEF e
<1>6. autoBooked' \in [Entries -> Nat] /\ autoBooked'[e] = autoBooked[e] + 1
      /\ \A x \in Entries : x # e => autoBooked'[x] = autoBooked[x]
  BY <1>1, <1>3, <1>5
<1>7. QueueTypes'
  BY <1>1, <1>2, <1>6 DEF QueueTypes
<1>8. CameIn'
  BY <1>1, <1>2 DEF CameIn
<1>9. \A x \in Entries : MayBeBooked(x)' => MayBeBooked(x) /\ x # e
  BY <1>1, <1>2, <1>3, QueueAssumption DEF MayBeBooked
<1>10. BookedByEach'
  <2>1. ASSUME NEW x \in Entries PROVE autoBooked'[x] <= starts /\ (MayBeBooked(x)' => autoBooked'[x] < starts)
    <3>1. CASE x = e
      <4>1. autoBooked[e] \in Nat
        BY <1>3, <1>5
      <4>2. autoBooked'[e] <= starts
        BY <4>1, <1>4, <1>5, <1>6
      <4> QED
        BY <3>1, <4>2, <1>9
    <3>2. CASE x # e
      BY <3>2, <1>6, <1>9 DEF BookedByEach
    <3> QED
      BY <3>1, <3>2
  <2>2. settled \subseteq Entries /\ stray' = {}
    BY <1>1, <1>4 DEF QueueTypes, BookedByEach
  <2>3. ASSUME NEW x \in settled PROVE ~MayBeBooked(x)'
    BY <2>2, <1>9 DEF BookedByEach
  <2> QED
    BY <2>1, <2>2, <2>3, <1>1 DEF BookedByEach
<1>11. ToldByOne'
  BY <1>1 DEF ToldByOne
<1> QED
  BY <1>7, <1>8, <1>10, <1>11

LEMMA BookingFailsKeeps == ASSUME QueueInv, BookingFails PROVE QueueInv'
<1> USE DEF QueueInv
<1> DEFINE e == serving
           h == heap["queue"]
<1>1. /\ e # NoEntry /\ heap' = [heap EXCEPT !["queue"] = Enqueue(h, e)] /\ serving' = NoEntry
      /\ UNCHANGED <<entry, autoBooked, notifier, ready, leaving, starts, overread, settled, stray>>
  BY DEF BookingFails
<1>2. \A b \in Doors : IsHeap(heap[b])
  BY DEF QueueTypes
<1>3. e \in Entries /\ entry[e] # "none" /\ e \notin Of(h)
  BY <1>1 DEF QueueTypes, CameIn
<1>4. IsHeap(Enqueue(h, e)) /\ Of(Enqueue(h, e)) = Of(h) \cup {e}
  BY <1>2, <1>3, EnqueueIs DEF Doors
<1>5. heap'["queue"] = Enqueue(h, e) /\ (\A b \in Doors : b # "queue" => heap'[b] = heap[b]) /\ heap' = [b \in Doors |-> heap'[b]]
  <2>1. "queue" \in Doors /\ heap = [b \in Doors |-> heap[b]]
    BY DEF Doors, QueueTypes
  <2> HIDE DEF h, e
  <2> QED
    BY <1>1, <2>1, OneHeap
<1>6. Of(heap'["queue"]) = Of(heap["queue"]) \cup {e}
  BY <1>4, <1>5
<1>7. \A b \in Doors : IsHeap(heap'[b])
  BY <1>2, <1>4, <1>5
<1> HIDE DEF h
<1>8. QueueTypes'
  BY <1>1, <1>5, <1>7 DEF QueueTypes
<1>9. CameIn'
  <2>1. ASSUME NEW b \in Doors, NEW x \in Of(heap'[b]) PROVE entry'[x] # "none"
    <3>1. x = e \/ x \in Of(heap[b])
      BY <2>1, <1>5, <1>6
    <3> QED
      BY <3>1, <1>1, <1>3 DEF CameIn
  <2> QED
    BY <2>1, <1>1 DEF CameIn
<1>10. \A x \in Entries : MayBeBooked(x)' => MayBeBooked(x)
  BY <1>1, <1>6, QueueAssumption DEF MayBeBooked
<1>11. BookedByEach'
  <2>1. settled \subseteq Entries
    BY DEF QueueTypes
  <2> QED
    BY <2>1, <1>1, <1>10 DEF BookedByEach
<1>12. ToldByOne'
  BY <1>1 DEF ToldByOne
<1> QED
  BY <1>8, <1>9, <1>11, <1>12

LEMMA ReadHeadKeeps == ASSUME QueueInv, NEW w \in Notifiers, NEW c \in Posts, ReadHead(w, c) PROVE QueueInv'
<1> USE DEF QueueInv
<1> DEFINE S == {x \in Waiting : PostOf[x] = c}
           e == Ordered(S)[1]
<1>1. /\ notifier[w] = NoEntry /\ S # {} /\ notifier' = [notifier EXCEPT ![w] = e]
      /\ overread' = IF \E v \in Notifiers : notifier[v] = e THEN overread \cup {e} ELSE overread
      /\ UNCHANGED <<entry, heap, serving, autoBooked, ready, leaving, starts, settled, stray>>
  BY DEF ReadHead
<1>2. e \in S
  <2>1. S \in SUBSET Entries
    BY DEF Waiting
  <2> HIDE DEF S
  <2> QED
    BY <2>1, <1>1, HeadOfLine
<1>3. e \in Entries /\ entry[e] = "waiting"
  BY <1>2 DEF Waiting
<1> HIDE DEF e, S
<1>4. notifier \in [Notifiers -> Entries \cup {NoEntry}]
  BY DEF QueueTypes
<1>5. notifier'[w] = e /\ (\A v \in Notifiers : v # w => notifier'[v] = notifier[v])
      /\ notifier' \in [Notifiers -> Entries \cup {NoEntry}]
  BY <1>1, <1>3, <1>4
<1>6. overread \subseteq overread' /\ overread' \subseteq Entries /\ ((\E v \in Notifiers : notifier[v] = e) => e \in overread')
  BY <1>1, <1>3 DEF QueueTypes
<1>7. QueueTypes'
  BY <1>1, <1>5, <1>6 DEF QueueTypes
<1>8. CameIn'
  BY <1>1 DEF CameIn
<1>9. BookedByEach'
  BY <1>1 DEF BookedByEach, MayBeBooked
<1>10. ToldByOne'
  <2>1. ASSUME NEW v \in Notifiers, notifier'[v] # NoEntry
        PROVE  entry[notifier'[v]] # "none" /\ (entry[notifier'[v]] = "waiting" \/ notifier'[v] \in overread')
    <3>1. CASE v = w
      BY <3>1, <1>3, <1>5
    <3>2. CASE v # w
      BY <3>2, <2>1, <1>5, <1>6 DEF ToldByOne
    <3> QED
      BY <3>1, <3>2
  <2>2. ASSUME NEW v \in Notifiers, NEW u \in Notifiers, v # u, notifier'[v] = notifier'[u], notifier'[v] # NoEntry
        PROVE  notifier'[v] \in overread'
    <3>1. CASE v # w /\ u # w
      BY <3>1, <2>2, <1>5, <1>6 DEF ToldByOne
    <3>2. CASE v = w
      BY <3>2, <2>2, <1>5, <1>6
    <3>3. CASE u = w
      BY <3>3, <2>2, <1>5, <1>6
    <3> QED
      BY <3>1, <3>2, <3>3
  <2>3. \A x \in Entries : ready[x] > 1 => x \in overread'
    BY <1>6 DEF ToldByOne
  <2>4. \A x \in Entries : ready[x] > 0 => entry[x] \notin {"none", "waiting"}
    BY DEF ToldByOne
  <2> QED
    BY <2>1, <2>2, <2>3, <2>4, <1>1 DEF ToldByOne
<1> QED
  BY <1>7, <1>8, <1>9, <1>10

LEMMA NotifyHeadKeeps == ASSUME QueueInv, NEW w \in Notifiers, NotifyHead(w) PROVE QueueInv'
<1> USE DEF QueueInv
<1> DEFINE e == notifier[w]
           h == heap["booking"]
<1>1. /\ e # NoEntry /\ entry' = [entry EXCEPT ![e] = "notified"]
      /\ heap' = [heap EXCEPT !["booking"] = RemoveEntry(h, e)]
      /\ ready' = [ready EXCEPT ![e] = ready[e] + 1]
      /\ notifier' = [notifier EXCEPT ![w] = NoEntry]
      /\ UNCHANGED <<serving, autoBooked, leaving, starts, overread, settled, stray>>
  BY DEF NotifyHead
<1>2. e \in Entries /\ entry[e] # "none" /\ (entry[e] = "waiting" \/ e \in overread)
  BY <1>1 DEF QueueTypes, ToldByOne
<1>3. \A b \in Doors : IsHeap(heap[b])
  BY DEF QueueTypes
<1>4. IsHeap(RemoveEntry(h, e)) /\ Of(RemoveEntry(h, e)) = Of(h) \ {e}
  BY <1>3, RemoveEntryIs DEF Doors
<1>5. heap'["booking"] = RemoveEntry(h, e) /\ (\A b \in Doors : b # "booking" => heap'[b] = heap[b]) /\ heap' = [b \in Doors |-> heap'[b]]
  <2>1. "booking" \in Doors /\ heap = [b \in Doors |-> heap[b]]
    BY DEF Doors, QueueTypes
  <2> HIDE DEF h, e
  <2> QED
    BY <1>1, <2>1, OneHeap
<1>6. \A b \in Doors : IsHeap(heap'[b]) /\ Of(heap'[b]) \subseteq Of(heap[b])
  BY <1>3, <1>4, <1>5
<1>7. heap'["queue"] = heap["queue"]
  BY <1>5 DEF Doors
<1> HIDE DEF h
<1>8. notifier \in [Notifiers -> Entries \cup {NoEntry}] /\ ready \in [Entries -> Nat]
      /\ entry \in [Entries -> {"none", "void", "waiting", "notified", "cancelled", "expired"}]
  BY DEF QueueTypes
<1>9. \A v, u \in Notifiers : v # u /\ notifier[v] = notifier[u] /\ notifier[v] # NoEntry => notifier[v] \in overread
  BY DEF ToldByOne
<1>10. ASSUME NEW v \in Notifiers, v # w, notifier[v] = e PROVE e \in overread
  BY <1>1, <1>9, <1>10
<1> HIDE DEF e
<1>11. entry' \in [Entries -> {"none", "void", "waiting", "notified", "cancelled", "expired"}]
       /\ entry'[e] = "notified" /\ \A x \in Entries : x # e => entry'[x] = entry[x]
  BY <1>1, <1>2, <1>8
<1>12. ready' \in [Entries -> Nat] /\ ready'[e] = ready[e] + 1 /\ \A x \in Entries : x # e => ready'[x] = ready[x]
  BY <1>1, <1>2, <1>8
<1>13. notifier' \in [Notifiers -> Entries \cup {NoEntry}] /\ notifier'[w] = NoEntry
       /\ \A v \in Notifiers : v # w => notifier'[v] = notifier[v]
  BY <1>1, <1>8
<1>14. QueueTypes'
  BY <1>1, <1>5, <1>6, <1>11, <1>12, <1>13 DEF QueueTypes
<1>15. \A x \in Entries : entry'[x] = "none" <=> entry[x] = "none"
  BY <1>2, <1>11
<1>16. CameIn'
  <2>1. ASSUME NEW b \in Doors, NEW x \in Of(heap'[b]) PROVE entry'[x] # "none"
    <3>1. x \in Of(heap[b]) /\ x \in Entries
      BY <1>3, <1>6, OfHeap
    <3> QED
      BY <3>1, <1>15 DEF CameIn
  <2>2. ASSUME serving # NoEntry PROVE entry'[serving] # "none" /\ serving \notin Of(heap'["queue"])
    BY <2>2, <1>7, <1>15 DEF CameIn, QueueTypes
  <2> QED
    BY <2>1, <2>2, <1>1 DEF CameIn
<1>17. \A x \in Entries : MayBeBooked(x)' <=> MayBeBooked(x)
  BY <1>1, <1>7, <1>15 DEF MayBeBooked
<1>18. BookedByEach'
  <2>1. settled \subseteq Entries
    BY DEF QueueTypes
  <2> QED
    BY <2>1, <1>1, <1>17 DEF BookedByEach
<1>19. ToldByOne'
  <2>1. ASSUME NEW v \in Notifiers, notifier'[v] # NoEntry
        PROVE  entry'[notifier'[v]] # "none" /\ (entry'[notifier'[v]] = "waiting" \/ notifier'[v] \in overread)
    <3>1. v # w /\ notifier'[v] = notifier[v] /\ notifier[v] \in Entries
      BY <2>1, <1>8, <1>13
    <3>2. entry[notifier[v]] # "none" /\ (entry[notifier[v]] = "waiting" \/ notifier[v] \in overread)
      BY <3>1, <2>1 DEF ToldByOne
    <3>3. CASE notifier[v] = e
      BY <3>1, <3>3, <1>10, <1>11
    <3>4. CASE notifier[v] # e
      BY <3>1, <3>2, <3>4, <1>11
    <3> QED
      BY <3>3, <3>4
  <2>2. ASSUME NEW v \in Notifiers, NEW u \in Notifiers, v # u, notifier'[v] = notifier'[u], notifier'[v] # NoEntry
        PROVE  notifier'[v] \in overread
    BY <2>2, <1>9, <1>13
  <2>3. ASSUME NEW x \in Entries, ready'[x] > 0 PROVE entry'[x] \notin {"none", "waiting"}
    <3>1. CASE x = e
      BY <3>1, <1>11
    <3>2. CASE x # e
      BY <3>2, <2>3, <1>11, <1>12 DEF ToldByOne
    <3> QED
      BY <3>1, <3>2
  <2>4. ASSUME NEW x \in Entries, ready'[x] > 1 PROVE x \in overread
    <3>1. CASE x = e
      <4>1. ready[e] \in Nat /\ ready[e] > 0
        BY <2>4, <3>1, <1>2, <1>8, <1>12
      <4>2. entry[e] # "waiting"
        BY <4>1, <1>2 DEF ToldByOne
      <4> QED
        BY <3>1, <4>2, <1>2
    <3>2. CASE x # e
      BY <3>2, <2>4, <1>12 DEF ToldByOne
    <3> QED
      BY <3>1, <3>2
  <2> QED
    BY <2>1, <2>2, <2>3, <2>4, <1>1 DEF ToldByOne
<1> QED
  BY <1>14, <1>16, <1>18, <1>19

LEMMA ExpireKeeps == ASSUME QueueInv, NEW e \in Entries, Expire(e) PROVE QueueInv'
<1> USE DEF QueueInv
<1>1. /\ entry[e] = "notified" /\ entry' = [entry EXCEPT ![e] = "expired"]
      /\ UNCHANGED <<heap, serving, autoBooked, notifier, ready, leaving, starts, overread, settled, stray>>
  BY DEF Expire
<1>2. entry' \in [Entries -> {"none", "void", "waiting", "notified", "cancelled", "expired"}]
      /\ entry'[e] = "expired" /\ \A x \in Entries : x # e => entry'[x] = entry[x]
  BY <1>1 DEF QueueTypes
<1>3. \A x \in Entries : (entry'[x] = "none" <=> entry[x] = "none") /\ (entry'[x] = "waiting" <=> entry[x] = "waiting")
  BY <1>1, <1>2
<1>4. QueueTypes'
  BY <1>1, <1>2 DEF QueueTypes
<1>5. \A d \in Doors : Of(heap[d]) \subseteq Entries
  BY OfHeap DEF QueueTypes
<1>6. CameIn'
  BY <1>1, <1>3, <1>5 DEF CameIn, QueueTypes
<1>7. \A x \in Entries : MayBeBooked(x)' <=> MayBeBooked(x)
  BY <1>1, <1>3 DEF MayBeBooked
<1>8. BookedByEach'
  <2>1. settled \subseteq Entries
    BY DEF QueueTypes
  <2> QED
    BY <2>1, <1>1, <1>7 DEF BookedByEach
<1>9. ToldByOne'
  <2>1. ASSUME NEW w \in Notifiers, notifier[w] # NoEntry
        PROVE  entry'[notifier[w]] # "none" /\ (entry'[notifier[w]] = "waiting" \/ notifier[w] \in overread)
    <3>1. notifier[w] \in Entries
      BY <2>1 DEF QueueTypes
    <3> QED
      BY <3>1, <2>1, <1>3 DEF ToldByOne
  <2>2. ASSUME NEW x \in Entries, ready[x] > 0 PROVE entry'[x] \notin {"none", "waiting"}
    BY <2>2, <1>3 DEF ToldByOne
  <2> QED
    BY <2>1, <2>2, <1>1 DEF ToldByOne
<1> QED
  BY <1>4, <1>6, <1>8, <1>9

LEMMA RestartKeeps == ASSUME QueueInv, Restart PROVE QueueInv'
<1> USE DEF QueueInv
<1>1. /\ starts' = starts + 1
      /\ heap' = [d \in Doors |-> IF d = "queue" THEN BuildHeap(Loaded) ELSE <<>>]
      /\ serving' = NoEntry /\ notifier' = [w \in Notifiers |-> NoEntry] /\ leaving' = {}
      /\ settled' = {e \in Entries : entry[e] \notin {"waiting", "none"}}
      /\ UNCHANGED <<entry, autoBooked, ready, overread, stray>>
  BY DEF Restart
<1>2. IsHeap(BuildHeap(Loaded)) /\ Of(BuildHeap(Loaded)) = Waiting
  BY LoadedIsHeap
<1>3. IsHeap(<<>>) /\ Of(<<>>) = {}
  BY NoneIsHeap
<1>4. heap'["queue"] = BuildHeap(Loaded) /\ heap'["booking"] = <<>> /\ heap' = [d \in Doors |-> heap'[d]]
  BY <1>1 DEF Doors
<1>5. \A d \in Doors : IsHeap(heap'[d]) /\ Of(heap'[d]) \subseteq Waiting
  BY <1>2, <1>3, <1>4 DEF Doors
<1>6. Of(heap'["queue"]) = Waiting
  BY <1>2, <1>4
<1>7. QueueTypes'
  BY <1>1, <1>4, <1>5 DEF QueueTypes
<1>8. CameIn'
  BY <1>1, <1>5 DEF CameIn, Waiting
<1>9. ASSUME NEW e \in Entries PROVE MayBeBooked(e)' => entry[e] \in {"none", "waiting"}
  <2>1. e # NoEntry
    BY QueueAssumption
  <2> QED
    BY <2>1, <1>1, <1>6 DEF MayBeBooked, Waiting
<1>10. BookedByEach'
  <2>1. ASSUME NEW e \in Entries PROVE autoBooked[e] < starts + 1
    <3>1. autoBooked[e] <= starts
      BY DEF BookedByEach
    <3>2. autoBooked[e] \in Nat /\ starts \in Nat
      BY DEF QueueTypes
    <3> QED
      BY <3>1, <3>2
  <2>2. ASSUME NEW e \in Entries PROVE autoBooked[e] <= starts + 1
    BY <2>1 DEF QueueTypes
  <2>3. ASSUME NEW e \in settled' PROVE ~MayBeBooked(e)'
    BY <1>1, <1>9
  <2>4. stray' = {}
    BY <1>1 DEF BookedByEach
  <2> QED
    BY <2>1, <2>2, <2>3, <2>4, <1>1 DEF BookedByEach
<1>11. ToldByOne'
  BY <1>1 DEF ToldByOne
<1> QED
  BY <1>7, <1>8, <1>10, <1>11

LEMMA QueueStep == ASSUME QueueInv, [QueueNext]_queue PROVE QueueInv'
<1>1. ASSUME NEW e \in Entries, Leave(e) \/ Expire(e) \/ \E d \in Doors : Join(d, e) \/ LeaveHeap(d, e) PROVE QueueInv'
  BY <1>1, LeaveKeeps, ExpireKeeps, JoinKeeps, LeaveHeapKeeps
<1>2. ASSUME NEW c \in Posts, Dequeue(c) \/ \E w \in Notifiers : ReadHead(w, c) PROVE QueueInv'
  BY <1>2, DequeueKeeps, ReadHeadKeeps
<1>3. CASE Book \/ BookingFails \/ Restart
  BY <1>3, BookKeeps, BookingFailsKeeps, RestartKeeps
<1>4. ASSUME NEW w \in Notifiers, NotifyHead(w) PROVE QueueInv'
  BY <1>4, NotifyHeadKeeps
<1>5. CASE UNCHANGED queue
  BY <1>5 DEF queue, QueueInv, QueueTypes, CameIn, BookedByEach, MayBeBooked, ToldByOne
<1> QED
  BY <1>1, <1>2, <1>3, <1>4, <1>5 DEF QueueNext

LEMMA QueueIsOrderedAndFair == ASSUME QueueInv PROVE QueueTypeOK /\ HeapIsOrdered /\ ServedOnce
<1> USE DEF QueueInv
<1>1. \A d \in Doors : IsHeap(heap[d])
  BY DEF QueueTypes
<1>2. ASSUME NEW d \in Doors
      PROVE  /\ \A i \in DOMAIN heap[d] : heap[d][i].entry \in Entries
             /\ \A i \in 2 .. Len(heap[d]) : heap[d][Parent(i)].score <= heap[d][i].score
             /\ \A i, j \in DOMAIN heap[d] : heap[d][i].entry = heap[d][j].entry => i = j
  <2> DEFINE h == heap[d]
  <2>1. IsHeap(h) /\ Len(h) \in Nat
    BY <1>1 DEF IsHeap
  <2> HIDE DEF h
  <2>2. \A i \in DOMAIN h : h[i].entry \in Entries
    BY <2>1, OfHeap DEF Of
  <2>3. ASSUME NEW i \in 2 .. Len(h) PROVE h[Parent(i)].score <= h[i].score
    <3>1. i \in 1 .. Len(h) /\ Parent(i) >= 1
      BY <2>1, ParentOf
    <3> QED
      BY <3>1, <2>1 DEF IsHeap, InOrder
  <2>4. \A i, j \in DOMAIN h : h[i].entry = h[j].entry => i = j
    BY <2>1 DEF IsHeap, OneCopy
  <2> QED
    BY <2>2, <2>3, <2>4 DEF h
<1>3. HeapIsOrdered
  BY <1>2 DEF HeapIsOrdered
<1>4. stray = {} /\ \A e \in Entries : autoBooked[e] <= starts
  BY DEF BookedByEach
<1>5. QueueTypeOK
  <2>1. {notifier[w] : w \in Notifiers} \subseteq Entries \cup {NoEntry}
    BY DEF QueueTypes
  <2> QED
    BY <2>1, <1>2, <1>4 DEF QueueTypeOK, QueueTypes
<1>6. ServedOnce
  BY <1>4 DEF ServedOnce, ToldByOne
<1> QED
  BY <1>3, <1>5, <1>6

-----------------------------------------------------------------------------
(* The theorems.                                                           *)

\* Nothing is suggested where nothing was asked.
NobodyAsked == asked = Nothing /\ plan = Nothing /\ shown = Nothing

SettlementInv ==
  /\ BillingInv /\ DebtInv /\ QueueInv
  /\ (part = "suggest" /\ SuggestInv) \/ (part # "suggest" /\ NobodyAsked)

LEMMA RecordsWithin ==
  ASSUME NEW P, NEW PP, NEW B, NEW BB, NEW Z, NEW ZZ, NEW O, NEW OO, NEW M, NEW MM,
         P \subseteq PP, B \subseteq BB, Z \subseteq ZZ, O \subseteq OO, M \subseteq MM
  PROVE  [price : P, booked : B, session : Z, open : O, metric : M]
           \subseteq [price : PP, booked : BB, session : ZZ, open : OO, metric : MM]
<1> SUFFICES ASSUME NEW c \in [price : P, booked : B, session : Z, open : O, metric : M]
             PROVE  c \in [price : PP, booked : BB, session : ZZ, open : OO, metric : MM]
  OBVIOUS
<1>1. c.price \in PP /\ c.booked \in BB /\ c.session \in ZZ /\ c.open \in OO /\ c.metric \in MM
  OBVIOUS
<1>2. c = [price |-> c.price, booked |-> c.booked, session |-> c.session, open |-> c.open, metric |-> c.metric]
  OBVIOUS
<1> QED
  BY <1>1, <1>2

LEMMA AnyIsRead == MCAny \subseteq ReadCharger
<1>1. /\ [Slots -> Prices] \subseteq [Slots -> Nat \ {0}] /\ SUBSET Spans \subseteq SUBSET (Int \X Int)
      /\ Spans \cup {<<0, 0>>} \subseteq Int \X Int /\ {TRUE} \subseteq BOOLEAN /\ {1} \subseteq Int
  <2>1. [Slots -> Prices] \subseteq [Slots -> Nat \ {0}]
    BY SuggestAssumption
  <2>2. SUBSET Spans \subseteq SUBSET (Int \X Int)
    BY SuggestAssumption
  <2>3. <<0, 0>> \in Int \X Int /\ Spans \subseteq Int \X Int
    BY SuggestAssumption
  <2> QED
    BY <2>1, <2>2, <2>3
<1> DEFINE P == [Slots -> Prices]
<1> DEFINE PP == [Slots -> Nat \ {0}]
<1> DEFINE B == SUBSET Spans
<1> DEFINE BB == SUBSET (Int \X Int)
<1> DEFINE Z == Spans \cup {<<0, 0>>}
<1> DEFINE ZZ == Int \X Int
<1>2. /\ P \subseteq PP /\ B \subseteq BB /\ Z \subseteq ZZ
      /\ MCAny = [price : P, booked : B, session : Z, open : {TRUE}, metric : {1}]
      /\ ReadCharger = [price : PP, booked : BB, session : ZZ, open : BOOLEAN, metric : Int]
  BY <1>1 DEF MCAny, ReadCharger
<1> HIDE DEF P, PP, B, BB, Z, ZZ
<1>3. {TRUE} \subseteq BOOLEAN /\ {1} \subseteq Int
  OBVIOUS
<1> QED
  BY ONLY <1>2, <1>3, RecordsWithin

LEMMA SomeIsRead == MCSome \subseteq ReadCharger
<1> DEFINE P == {[s \in Slots |-> 1]}
<1> DEFINE PP == [Slots -> Nat \ {0}]
<1> DEFINE B == {{}} \cup {{x} : x \in Spans}
<1> DEFINE BB == SUBSET (Int \X Int)
<1> DEFINE Z == {<<0, 0>>}
<1> DEFINE ZZ == Int \X Int
<1>1. P \subseteq PP
  OBVIOUS
<1>2. B \subseteq BB
  BY SuggestAssumption
<1>3. Z \subseteq ZZ
  OBVIOUS
<1>4. Metrics \subseteq Int
  BY SuggestAssumption
<1>5. /\ MCSome = [price : P, booked : B, session : Z, open : BOOLEAN, metric : Metrics]
      /\ ReadCharger = [price : PP, booked : BB, session : ZZ, open : BOOLEAN, metric : Int]
  BY DEF MCSome, ReadCharger
<1> HIDE DEF P, PP, B, BB, Z, ZZ
<1> QED
  BY ONLY <1>1, <1>2, <1>3, <1>4, <1>5, RecordsWithin

LEMMA AskedIsRead == ASSUME MCAsked, part = "suggest" PROVE asked \in Asked
<1>1. MCAny \subseteq ReadCharger /\ MCSome \subseteq ReadCharger
  BY AnyIsRead, SomeIsRead
<1>2. ASSUME NEW n \in Nat, NEW l, \/ l \in [1 .. n -> MCAny]
                                   \/ l \in [1 .. n -> MCSome]
      PROVE  l \in Seq(ReadCharger)
  <2>1. l \in [1 .. n -> ReadCharger]
    BY <1>1, <1>2
  <2> QED
    BY <2>1
<1>3. Budgets \subseteq Nat /\ 2 \in Nat
  BY SuggestAssumption
<1>4. CASE \E l \in [1 .. 1 -> MCAny], w \in Budgets : asked = [chargers |-> l, budget |-> w]
  <2>1. PICK l \in [1 .. 1 -> MCAny], w \in Budgets : asked = [chargers |-> l, budget |-> w]
    BY <1>4
  <2>2. l \in Seq(ReadCharger) /\ w \in Nat
    BY <1>2, <1>3
  <2> QED
    BY <2>1, <2>2 DEF Asked
<1>5. CASE \E n \in 2 .. 3 : \E l \in [1 .. n -> MCSome] : asked = [chargers |-> l, budget |-> 2]
  <2>1. PICK n \in 2 .. 3 : \E l \in [1 .. n -> MCSome] : asked = [chargers |-> l, budget |-> 2]
    BY <1>5
  <2>2. PICK l \in [1 .. n -> MCSome] : asked = [chargers |-> l, budget |-> 2]
    BY <2>1
  <2>3. l \in Seq(ReadCharger)
    BY <1>2
  <2> QED
    BY <2>2, <2>3, <1>3 DEF Asked
<1> QED
  BY <1>4, <1>5 DEF MCAsked

\* The bill, the debt, the queue and the suggestions share no row, so each keeps its own
\* part of the invariant (session-service, billing-service, iam-service).
THEOREM SettlementInvariant == SettlementSpec => []SettlementInv
<1>1. SettlementInit => SettlementInv
  <2> SUFFICES ASSUME SettlementInit PROVE SettlementInv
    OBVIOUS
  <2>1. BillingInv /\ DebtInv /\ QueueInv
    BY BillingStarts, ArrearsStarts, QueueStarts DEF SettlementInit
  <2>2. CASE part = "suggest"
    <3>1. asked \in Asked /\ plan = Nothing /\ shown = Nothing
      BY <2>2, AskedIsRead DEF SettlementInit
    <3> QED
      BY <2>1, <2>2, <3>1, SuggestStarts DEF SettlementInv
  <2>3. CASE part # "suggest"
    BY <2>1, <2>3 DEF SettlementInit, MCAsked, SettlementInv, NobodyAsked
  <2> QED
    BY <2>2, <2>3
<1>2. SettlementInv /\ [SettlementNext]_<<billing, arrears, queue, suggestion, part>> => SettlementInv'
  <2> SUFFICES ASSUME SettlementInv, [SettlementNext]_<<billing, arrears, queue, suggestion, part>> PROVE SettlementInv'
    OBVIOUS
  <2>1. [BillingNext]_billing /\ [ArrearsNext]_arrears /\ [QueueNext]_queue /\ part' = part
    BY DEF SettlementNext
  <2>2. BillingInv' /\ DebtInv' /\ QueueInv'
    BY <2>1, BillingStep, ArrearsStep, QueueStep DEF SettlementInv
  <2>3. CASE part = "suggest"
    <3>1. [SuggestNext]_suggestion
      BY <2>3 DEF SettlementNext
    <3> QED
      BY <2>1, <2>2, <2>3, <3>1, SuggestStep DEF SettlementInv
  <2>4. CASE part # "suggest"
    <3>1. UNCHANGED suggestion
      BY <2>4 DEF SettlementNext
    <3> QED
      BY <2>1, <2>2, <2>4, <3>1 DEF SettlementInv, NobodyAsked, suggestion
  <2> QED
    BY <2>3, <2>4
<1> QED
  BY <1>1, <1>2, PTL DEF SettlementSpec

\* Bills, debts, the queue's rows and heaps and the plans have their types.
THEOREM SettlementTypesCorrect == SettlementSpec => []SettlementTypeOK
<1>1. ASSUME SettlementInv PROVE SettlementTypeOK
  <2>1. BillingTypeOK /\ ArrearsTypeOK /\ QueueTypeOK
    BY <1>1, BillingTyped, ArrearsTyped, QueueIsOrderedAndFair DEF SettlementInv
  <2>2. SuggestTypeOK
    <3>1. CASE NobodyAsked
      BY <3>1 DEF NobodyAsked, Nothing, SuggestTypeOK
    <3> QED
      BY <1>1, <3>1, SuggestIsSound DEF SettlementInv
  <2> QED
    BY <2>1, <2>2 DEF SettlementTypeOK
<1> QED
  BY <1>1, SettlementInvariant, PTL

\* A stopped session is billed once, though its end is announced again, unless two notices
\* of it were looked up at once; one that is billed stays stopped only while its payment
\* waits, or if a handler died or had marked its deposit; and only a bill or the deposit
\* closes a session (SessionCompletedBillingConsumer, PaymentCompletedConsumer).
THEOREM BilledOnceAndClosedCorrect == BillingSpec => [](BillingTypeOK /\ BilledOnceAndClosed)
<1>1. BillingInv => BillingTypeOK /\ BilledOnceAndClosed
  BY BillingTyped
<1> QED
  BY <1>1, BillingStarts, BillingStep, PTL DEF BillingSpec

\* At rest both services owe what the debts handled since the last clearing come to, and
\* iam-service has an outstanding row exactly when its flag says so, unless handlers
\* overlapped, one died, or the cached user was written around them (arrears consumers).
THEOREM DebtIsRememberedCorrect == ArrearsSpec => [](ArrearsTypeOK /\ DebtIsRemembered)
<1>1. DebtInv => ArrearsTypeOK /\ DebtIsRemembered
  BY ArrearsTyped
<1> QED
  BY <1>1, ArrearsStarts, ArrearsStep, PTL DEF ArrearsSpec

\* Whatever is put in, taken from the middle or loaded, both heaps stay heaps and have an
\* entry once; one process books an entry at most once and none that no longer waited when
\* it started; and a user is told once that the charger is ready, unless two runs had read
\* his row or he left while one had (PriorityQueueService, queue.use-case.ts).
THEOREM QueueIsSoundCorrect == SettlementSpec => []QueueIsSound
<1>1. SettlementInv => QueueIsSound
  BY QueueIsOrderedAndFair DEF SettlementInv, QueueIsSound
<1> QED
  BY <1>1, SettlementInvariant, PTL

\* For any chargers, prices and budget: the slots of a plan are free and can be paid, no more
\* free slots can be, and the chargers are shown by wait and metric, those that are free now
\* alone if there are any (SuggestChargerUseCase).
THEOREM SuggestionIsBestCorrect == SuggestSpec => [](SuggestTypeOK /\ SuggestionIsBest)
<1>1. SuggestInit => SuggestInv
  <2> SUFFICES ASSUME SuggestInit PROVE SuggestInv
    OBVIOUS
  <2>1. asked.chargers \in Seq(ReadCharger) /\ asked.budget \in Nat
    <3>1. asked.chargers \in Seq(Chargers) /\ asked.budget \in Budgets
      BY DEF SuggestInit
    <3>2. Budgets \subseteq Nat
      BY SuggestAssumption
    <3> DEFINE l == asked.chargers
               n == Len(l)
    <3>3. n \in Nat /\ l \in [1 .. n -> Chargers]
      BY <3>1
    <3> HIDE DEF l, n
    <3>4. l \in [1 .. n -> ReadCharger]
      BY <3>3, ChargersAreRead
    <3>5. l \in Seq(ReadCharger)
      BY <3>3, <3>4
    <3> QED
      BY <3>1, <3>2, <3>5 DEF l
  <2>2. asked \in Asked
    BY <2>1 DEF SuggestInit, Asked
  <2> QED
    BY <2>2, SuggestStarts DEF SuggestInit
<1>2. SuggestInv => SuggestTypeOK /\ SuggestionIsBest
  BY SuggestIsSound
<1> QED
  BY <1>1, <1>2, SuggestStep, PTL DEF SuggestSpec
=============================================================================
