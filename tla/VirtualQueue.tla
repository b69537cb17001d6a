---------------------------- MODULE VirtualQueue ----------------------------
(***************************************************************************)
(* The virtual queue of session-service: the rows of queue_entries and the *)
(* heaps PriorityQueueService keeps of them.  There are two heaps, because *)
(* BookingModule and QueueModule each provide the service: the requests of *)
(* one module change its own heap alone, QueueModule's is loaded from the  *)
(* rows when the process starts and ProcessQueueUseCase books from it,     *)
(* NotifyQueueHeadUseCase goes by the rows.  Scores stay as they were when *)
(* the entry came in: nobody calls rebalance().                            *)
(***************************************************************************)
EXTENDS Integers, Sequences, FiniteSets, Listing

CONSTANTS
  Entries,      \* rows queue_entries may get
  Posts,        \* chargers
  PostOf,       \* the charger of an entry; every entry has a user of its own
  ScoreOf,      \* its score when it is enqueued, lower is first
  RankOf,       \* its priority in the table, and its score when loaded from there
  NoEntry,
  Notifiers,    \* runs of NotifyQueueHeadUseCase at once
  MaxStarts     \* bound: starts of the process

ASSUME QueueAssumption ==
  /\ IsFiniteSet(Entries) /\ NoEntry \notin Entries
  /\ PostOf \in [Entries -> Posts] /\ ScoreOf \in [Entries -> Int] /\ RankOf \in [Entries -> Int]
  /\ MaxStarts \in Nat

Doors == {"queue", "booking"}  \* the modules, each with its heap

VARIABLES
  entry,      \* queue_entries: status, void when the insert was rolled back
  heap,       \* the heap of each module: a sequence of entries and their scores
  serving,    \* the entry ProcessQueueUseCase has taken from the heap
  autoBooked, \* how often each entry was booked
  notifier,   \* the row a run has read
  ready,      \* how often charger.queue.ready was published for an entry
  leaving,    \* entries cancelled in the table whose heap is still to follow
  starts,
  overread,   \* history: entries read as head by two runs, or cancelled under a run
  settled,    \* history: entries that no longer waited when the process started
  stray       \* history: settled entries that were booked

queue == <<entry, heap, serving, autoBooked, notifier, ready, leaving, starts, overread, settled, stray>>

-----------------------------------------------------------------------------
(* The heap                                                                *)

Swap(h, i, j) == [h EXCEPT ![i] = h[j], ![j] = h[i]]

\* Positions count from 1.
Parent(i) == i \div 2

\* One round of the loop of bubbleUp: the heap and the place it is at.
Rise(r) ==
  IF r.at = 1 \/ r.heap[Parent(r.at)].score <= r.heap[r.at].score THEN r
  ELSE [heap |-> Swap(r.heap, r.at, Parent(r.at)), at |-> Parent(r.at)]

\* The loop has ended after as many rounds as there are places before it.
BubbleUp(h, i) ==
  LET up[n \in 0 .. i] == IF n = 0 THEN [heap |-> h, at |-> i] ELSE Rise(up[n - 1])
  IN up[i].heap

Smaller(h, i, j) == IF j <= Len(h) /\ h[j].score < h[i].score THEN j ELSE i

\* Mutant of Smallest: the right child is not looked at.
SmallestLeft(h, i) == Smaller(h, i, 2 * i)

Smallest(h, i) == Smaller(h, Smaller(h, i, 2 * i), 2 * i + 1)

\* One round of the loop of sinkDown.
Sink(r) ==
  LET s == Smallest(r.heap, r.at)
  IN IF s = r.at THEN r ELSE [heap |-> Swap(r.heap, r.at, s), at |-> s]

SinkDown(h, i) ==
  LET down[n \in 0 .. Len(h)] == IF n = 0 THEN [heap |-> h, at |-> i] ELSE Sink(down[n - 1])
  IN down[Len(h)].heap

\* From the last place that has a child to the first.
BuildHeap(h) ==
  LET half == Len(h) \div 2
      built[n \in 0 .. half] == IF n = 0 THEN h ELSE SinkDown(built[n - 1], half + 1 - n)
  IN built[half]

Enqueue(h, e) == LET g == Append(h, [entry |-> e, score |-> ScoreOf[e]]) IN BubbleUp(g, Len(g))

\* The last one takes the place of the one that goes.
TakeAt(h, i) ==
  LET rest == SubSeq(h, 1, Len(h) - 1) IN
  IF i > Len(rest) THEN rest ELSE BubbleUp(SinkDown([rest EXCEPT ![i] = h[Len(h)]], i), i)

Lowest(S) == CHOOSE i \in S : \A j \in S : i <= j

\* findIndex: the first place of an entry of the charger.
FirstFor(h, c) == LET S == {i \in DOMAIN h : PostOf[h[i].entry] = c} IN IF S = {} THEN 0 ELSE Lowest(S)

RemoveEntry(h, e) ==
  LET S == {i \in DOMAIN h : h[i].entry = e} IN
  IF S = {} THEN h ELSE TakeAt(h, Lowest(S))

-----------------------------------------------------------------------------
Waiting == {e \in Entries : entry[e] = "waiting"}

\* The rows in the order of the table.
Ordered(S) == Listed(S, {p \in Entries \X Entries : RankOf[p[1]] <= RankOf[p[2]]})

Scored(list) == [i \in DOMAIN list |-> [entry |-> list[i], score |-> RankOf[list[i]]]]

\* Mutant of Loaded: the entries that were notified too.
LoadedAll == Scored(Ordered({e \in Entries : entry[e] \in {"waiting", "notified"}}))

Loaded == Scored(Ordered(Waiting))

QueueInit ==
  /\ entry = [e \in Entries |-> "none"]
  /\ heap = [d \in Doors |-> <<>>]
  /\ serving = NoEntry
  /\ autoBooked = [e \in Entries |-> 0]
  /\ notifier = [w \in Notifiers |-> NoEntry]
  /\ ready = [e \in Entries |-> 0]
  /\ leaving = {}
  /\ starts = 1
  /\ overread = {} /\ settled = {} /\ stray = {}

\* JoinQueueUseCase; the transaction may still be rolled back, the heap has the entry.
Join(d, e) ==
  /\ entry[e] = "none"
  /\ entry' \in {[entry EXCEPT ![e] = s] : s \in {"waiting", "void"}}
  /\ heap' = [heap EXCEPT ![d] = Enqueue(@, e)]
  /\ UNCHANGED <<serving, autoBooked, notifier, ready, leaving, starts, overread, settled, stray>>

\* LeaveQueueUseCase: the row, then the heap of the module that was asked.
Leave(e) ==
  /\ entry[e] # "none"
  /\ entry' = IF entry[e] = "waiting" THEN [entry EXCEPT ![e] = "cancelled"] ELSE entry
  /\ leaving' = leaving \cup {e}
  /\ overread' = IF \E w \in Notifiers : notifier[w] = e THEN overread \cup {e} ELSE overread
  /\ UNCHANGED <<heap, serving, autoBooked, notifier, ready, starts, settled, stray>>

LeaveHeap(d, e) ==
  /\ e \in leaving
  /\ heap' = [heap EXCEPT ![d] = RemoveEntry(@, e)]
  /\ leaving' = leaving \ {e}
  /\ UNCHANGED <<entry, serving, autoBooked, notifier, ready, starts, overread, settled, stray>>

\* ProcessQueueUseCase: the charger is free, the first of its entries is taken.
Dequeue(c) ==
  LET h == heap["queue"] i == FirstFor(h, c) IN
  /\ serving = NoEntry
  /\ i > 0
  /\ serving' = h[i].entry
  /\ heap' = [heap EXCEPT !["queue"] = TakeAt(h, i)]
  /\ UNCHANGED <<entry, autoBooked, notifier, ready, leaving, starts, overread, settled, stray>>

AfterBooking(h, e) == h

\* The entry is booked for an hour; its row stays as it is.
Book ==
  /\ serving # NoEntry
  /\ autoBooked' = [autoBooked EXCEPT ![serving] = @ + 1]
  /\ heap' = [heap EXCEPT !["queue"] = AfterBooking(@, serving)]
  /\ serving' = NoEntry
  /\ stray' = stray \cup ({serving} \cap settled)
  /\ UNCHANGED <<entry, notifier, ready, leaving, starts, overread, settled>>

BookingFails ==
  /\ serving # NoEntry
  /\ heap' = [heap EXCEPT !["queue"] = Enqueue(@, serving)]
  /\ serving' = NoEntry
  /\ UNCHANGED <<entry, autoBooked, notifier, ready, leaving, starts, overread, settled, stray>>

\* NotifyQueueHeadUseCase reads the first waiting row of the charger.
ReadHead(w, c) ==
  LET S == {e \in Waiting : PostOf[e] = c} IN
  /\ notifier[w] = NoEntry
  /\ S # {}
  /\ LET e == Ordered(S)[1] IN
       /\ notifier' = [notifier EXCEPT ![w] = e]
       /\ overread' = IF \E v \in Notifiers : notifier[v] = e THEN overread \cup {e} ELSE overread
  /\ UNCHANGED <<entry, heap, serving, autoBooked, ready, leaving, starts, settled, stray>>

\* The whole row is saved, whatever became of it, and the booking module's heap follows.
NotifyHead(w) ==
  LET e == notifier[w] IN
  /\ e # NoEntry
  /\ entry' = [entry EXCEPT ![e] = "notified"]
  /\ heap' = [heap EXCEPT !["booking"] = RemoveEntry(@, e)]
  /\ ready' = [ready EXCEPT ![e] = @ + 1]
  /\ notifier' = [notifier EXCEPT ![w] = NoEntry]
  /\ UNCHANGED <<serving, autoBooked, leaving, starts, overread, settled, stray>>

\* QueueCleanupJob, five minutes later.
Expire(e) ==
  /\ entry[e] = "notified"
  /\ entry' = [entry EXCEPT ![e] = "expired"]
  /\ UNCHANGED <<heap, serving, autoBooked, notifier, ready, leaving, starts, overread, settled, stray>>

\* Only QueueModule loads its heap.
Restart ==
  /\ starts < MaxStarts
  /\ starts' = starts + 1
  /\ heap' = [d \in Doors |-> IF d = "queue" THEN BuildHeap(Loaded) ELSE <<>>]
  /\ serving' = NoEntry
  /\ notifier' = [w \in Notifiers |-> NoEntry]
  /\ leaving' = {}
  /\ settled' = {e \in Entries : entry[e] \notin {"waiting", "none"}}
  /\ UNCHANGED <<entry, autoBooked, ready, overread, stray>>

QueueNext ==
  \/ \E e \in Entries : Leave(e) \/ Expire(e) \/ \E d \in Doors : Join(d, e) \/ LeaveHeap(d, e)
  \/ \E c \in Posts : Dequeue(c) \/ \E w \in Notifiers : ReadHead(w, c)
  \/ Book \/ BookingFails \/ Restart
  \/ \E w \in Notifiers : NotifyHead(w)

QueueSpec == QueueInit /\ [][QueueNext]_queue

-----------------------------------------------------------------------------
(* Properties.                                                             *)

\* Rows, heaps and workers have their types.
QueueTypeOK ==
  /\ entry \in [Entries -> {"none", "void", "waiting", "notified", "cancelled", "expired"}]
  /\ \A d \in Doors : \A i \in DOMAIN heap[d] : heap[d][i].entry \in Entries
  /\ {serving} \cup {notifier[w] : w \in Notifiers} \subseteq Entries \cup {NoEntry}
  /\ leaving \cup overread \cup settled \cup stray \subseteq Entries

\* Both heaps stay heaps without a second copy of an entry, whatever is put in, taken from
\* the middle or loaded; so the first entry is the best, and the first entry of a charger
\* is the charger's best as long as the entries before it are in one line above it.
HeapIsOrdered ==
  \A d \in Doors :
    /\ \A i \in 2 .. Len(heap[d]) : heap[d][Parent(i)].score <= heap[d][i].score
    /\ \A i, j \in DOMAIN heap[d] : heap[d][i].entry = heap[d][j].entry => i = j

\* An entry is booked at most once in the life of a process: what was taken from the heap
\* returns only after a failure, and the next process knows only who still waits.  And a
\* user is told at most once that the charger is ready, unless two runs had read his row
\* or he left while one had.
ServedOnce ==
  /\ \A e \in Entries : autoBooked[e] <= starts /\ (ready[e] > 1 => e \in overread)
  /\ stray = {}
=============================================================================
