------------------------------- MODULE Notices -------------------------------
(***************************************************************************)
(* notification-service: a consumer looks an event up, marks it, builds    *)
(* the notice and gives it to the DeliveryEngine, which stores it, reads   *)
(* the customer's preferences, shows it on the open sockets and pushes it  *)
(* to the phones registered for the customer.  A phone whose token is      *)
(* refused is deleted.  Meanwhile customers register their phones and      *)
(* change their preferences.                                               *)
(*                                                                         *)
(* Texts, translations, sockets and the mail server are left out.          *)
(***************************************************************************)
EXTENDS Integers, FiniteSets

CONSTANTS
  Letters,    \* events that are announced to customers
  NoLetter,
  KindOf,     \* of every letter: confirmed, completed, queue, fault or debt
  CustomerOf, \* whom it is for
  Customers,
  NoOne,
  Hands,      \* deliveries handled at once
  Phones,     \* push tokens
  Signers,    \* requests of DeviceController handled at once
  NoPhone,
  DayLength,  \* hours of a day
  QuietHours, \* pairs of hours a customer may set, <<>> for none
  MaxPosts    \* bound: times an event is published

VARIABLES
  mail,     \* copies of an event not acknowledged yet
  posts,    \* times it was published
  noted,    \* processed_events
  hand,     \* handlers of the consumers
  inbox,    \* notifications: rows of an event
  live,     \* events shown on sockets
  reached,  \* events pushed to a phone
  prefs,    \* notification_preferences
  owner,    \* devices: whose a token is
  signer,   \* requests being handled
  promised, \* history: the customer whose registration was the last to succeed
  undone,   \* history: registrations deleted by a step that had read the row, or the token, before
  met,      \* history: events of which two copies were looked up before one was marked
  cut       \* history: events whose handler died between the mark and the row

notices == <<mail, posts, noted, hand, inbox, live, reached, prefs, owner, signer, promised, undone, met, cut>>

\* A debt's notice has neither an eventId nor a transactionId: all debts share one key.
KeyOfDebts == "wallet.arrears.created:undefined"

ASSUME NoticesAssumption ==
  /\ CustomerOf \in [Letters -> Customers]
  /\ NoLetter \notin Letters /\ NoOne \notin Customers /\ NoPhone \notin Phones
  /\ KeyOfDebts \notin Letters
  /\ IsFiniteSet(Hands) /\ MaxPosts \in Nat
  /\ <<>> \in QuietHours

Hours == 0 .. DayLength - 1

Prefs == [push : BOOLEAN, live : BOOLEAN, quiet : QuietHours]

DefaultPrefs == [push |-> TRUE, live |-> TRUE, quiet |-> <<>>]

FreeHand == [at |-> "idle", letter |-> NoLetter, phones |-> {}]

FreeSigner == [at |-> "idle", phone |-> NoPhone, customer |-> NoOne]

NoticesInit ==
  /\ mail = [l \in Letters |-> 0] /\ posts = [l \in Letters |-> 0]
  /\ noted = {}
  /\ hand = [h \in Hands |-> FreeHand]
  /\ inbox = [l \in Letters |-> 0]
  /\ live = {} /\ reached = {}
  /\ prefs = [c \in Customers |-> DefaultPrefs]
  /\ owner = [p \in Phones |-> NoOne]
  /\ signer = [w \in Signers |-> FreeSigner]
  /\ promised = [p \in Phones |-> NoOne]
  /\ undone = {} /\ met = {} /\ cut = {}

\* Where a letter of a kind goes.  The mail of "completed" has no address.
Channels(kind) ==
  (IF kind = "completed" THEN {} ELSE {"in_app"}) \cup (IF kind = "queue" THEN {} ELSE {"push"})

\* Any other notice has the key of its event.
KeyOfLetter(l) == IF KindOf[l] = "debt" THEN KeyOfDebts ELSE l

\* Its template asks for a total that billing-service does not send, and throws.
Throws(l) == KindOf[l] = "debt"

\* FaultDetectionService names no customer.
HasReader(l) == KindOf[l] # "fault"

-----------------------------------------------------------------------------
(* Consumers and DeliveryEngine                                            *)

\* An event is published, or once more: the relay does not know it succeeded.
Post(l) ==
  /\ posts[l] < MaxPosts
  /\ posts' = [posts EXCEPT ![l] = @ + 1] /\ mail' = [mail EXCEPT ![l] = @ + 1]
  /\ UNCHANGED <<noted, hand, inbox, live, reached, prefs, owner, signer, promised, undone, met, cut>>

IsDelivered(l) == mail[l] > Cardinality({h \in Hands : hand[h].letter = l})

SkipLetter(l) ==
  /\ IsDelivered(l) /\ KeyOfLetter(l) \in noted
  /\ mail' = [mail EXCEPT ![l] = @ - 1]
  /\ UNCHANGED <<posts, noted, hand, inbox, live, reached, prefs, owner, signer, promised, undone, met, cut>>

\* Mutant of TakeLetter: the key is not looked up.
TakeUnseen(h, l) ==
  /\ hand[h] = FreeHand /\ IsDelivered(l)
  /\ hand' = [hand EXCEPT ![h].at = "checked", ![h].letter = l]
  /\ UNCHANGED <<mail, posts, noted, inbox, live, reached, prefs, owner, signer, promised, undone, met, cut>>

TakeLetter(h, l) ==
  /\ hand[h] = FreeHand /\ IsDelivered(l)
  /\ KeyOfLetter(l) \notin noted
  /\ hand' = [hand EXCEPT ![h].at = "checked", ![h].letter = l]
  /\ met' = IF \E g \in Hands : hand[g].letter = l /\ hand[g].at = "checked" THEN met \cup {l} ELSE met
  /\ UNCHANGED <<mail, posts, noted, inbox, live, reached, prefs, owner, signer, promised, undone, cut>>

\* The handler returns and the copy is acknowledged.
Acknowledge(h) ==
  /\ hand' = [hand EXCEPT ![h] = FreeHand]
  /\ mail' = [mail EXCEPT ![hand[h].letter] = @ - 1]

\* Marked; then the text is built, and a template that throws puts the copy back.
MarkLetter(h) ==
  LET l == hand[h].letter IN
  /\ hand[h].at = "checked"
  /\ noted' = noted \cup {KeyOfLetter(l)}
  /\ \/ Throws(l) /\ hand' = [hand EXCEPT ![h] = FreeHand] /\ UNCHANGED mail
     \/ ~Throws(l) /\ ~HasReader(l) /\ Acknowledge(h)
     \/ ~Throws(l) /\ HasReader(l) /\ hand' = [hand EXCEPT ![h].at = "marked"] /\ UNCHANGED mail
  /\ UNCHANGED <<posts, inbox, live, reached, prefs, owner, signer, promised, undone, met, cut>>

Store(h) ==
  /\ hand[h].at = "marked"
  /\ inbox' = [inbox EXCEPT ![hand[h].letter] = @ + 1]
  /\ hand' = [hand EXCEPT ![h].at = "stored"]
  /\ UNCHANGED <<mail, posts, noted, live, reached, prefs, owner, signer, promised, undone, met, cut>>

\* A period may end the next morning.
IsQuiet(p, hour) ==
  /\ p.quiet # <<>>
  /\ IF p.quiet[1] <= p.quiet[2]
     THEN p.quiet[1] <= hour /\ hour < p.quiet[2]
     ELSE p.quiet[1] <= hour \/ hour < p.quiet[2]

CanPush(p, hour) == p.push /\ ~IsQuiet(p, hour)

\* The preferences are read, the sockets of the customer get the notice at once, and
\* the push begins.
Aim(h, hour) ==
  LET l == hand[h].letter
      p == prefs[CustomerOf[l]]
      ways == Channels(KindOf[l]) IN
  /\ hand[h].at = "stored"
  /\ live' = IF "in_app" \in ways /\ p.live THEN live \cup {l} ELSE live
  /\ IF "push" \in ways /\ CanPush(p, hour)
     THEN hand' = [hand EXCEPT ![h].at = "aimed"] /\ UNCHANGED mail
     ELSE Acknowledge(h)
  /\ UNCHANGED <<posts, noted, inbox, reached, prefs, owner, signer, promised, undone, met, cut>>

\* FcmPushService.sendToUser: the phones of the customer.
ReadPhones(h) ==
  LET found == {p \in Phones : owner[p] = CustomerOf[hand[h].letter]} IN
  /\ hand[h].at = "aimed"
  /\ \/ found = {} /\ Acknowledge(h)
     \/ found # {} /\ hand' = [hand EXCEPT ![h].at = "sending", ![h].phones = found] /\ UNCHANGED mail
  /\ UNCHANGED <<posts, noted, inbox, live, reached, prefs, owner, signer, promised, undone, met, cut>>

\* Some get it; of the others the token is refused.
Push(h, refused) ==
  /\ hand[h].at = "sending" /\ refused \subseteq hand[h].phones
  /\ reached' = reached \cup {<<hand[h].letter, p>> : p \in hand[h].phones \ refused}
  /\ \/ refused = {} /\ Acknowledge(h)
     \/ refused # {} /\ hand' = [hand EXCEPT ![h].at = "purging", ![h].phones = refused] /\ UNCHANGED mail
  /\ UNCHANGED <<posts, noted, inbox, live, prefs, owner, signer, promised, undone, met, cut>>

\* Whoever deletes the row of a token leaves nothing for those who would delete it.
DeleteRow(p, others) ==
  /\ owner' = [owner EXCEPT ![p] = NoOne]
  /\ signer' = [w \in Signers |->
                  IF w \notin others \/ (signer[w].at = "leaving" /\ signer[w].phone = p) THEN FreeSigner ELSE signer[w]]

\* The row of a refused token is deleted, whosever it is by now.
PurgeToken(h, p) ==
  /\ hand[h].at = "purging" /\ p \in hand[h].phones
  /\ DeleteRow(p, Signers)
  /\ undone' = IF owner[p] # NoOne THEN undone \cup {p} ELSE undone
  /\ IF hand[h].phones = {p}
     THEN Acknowledge(h)
     ELSE hand' = [hand EXCEPT ![h].phones = @ \ {p}] /\ UNCHANGED mail
  /\ UNCHANGED <<posts, noted, inbox, live, reached, prefs, promised, met, cut>>

\* The process dies; the copy is delivered again.
HandDies(h) ==
  /\ hand[h] # FreeHand
  /\ cut' = IF hand[h].at = "marked" THEN cut \cup {hand[h].letter} ELSE cut
  /\ hand' = [hand EXCEPT ![h] = FreeHand]
  /\ UNCHANGED <<mail, posts, noted, inbox, live, reached, prefs, owner, signer, promised, undone, met>>

-----------------------------------------------------------------------------
(* Phones and preferences                                                  *)

\* Registering a phone turns push on.
AskRegister(w, p, c) ==
  /\ signer[w] = FreeSigner
  /\ prefs' = [prefs EXCEPT ![c].push = TRUE]
  /\ signer' = [signer EXCEPT ![w] = [at |-> "opted", phone |-> p, customer |-> c]]
  /\ UNCHANGED <<mail, posts, noted, hand, inbox, live, reached, owner, promised, undone, met, cut>>

LookForToken(w) ==
  /\ signer[w].at = "opted"
  /\ signer' = [signer EXCEPT ![w].at = IF owner[signer[w].phone] = NoOne THEN "inserting" ELSE "updating"]
  /\ UNCHANGED <<mail, posts, noted, hand, inbox, live, reached, prefs, owner, promised, undone, met, cut>>

\* The token is somebody's: it becomes the customer's.  Without a row the request fails.
TakeOver(w) ==
  LET p == signer[w].phone c == signer[w].customer IN
  /\ signer[w].at = "updating"
  /\ signer' = [signer EXCEPT ![w] = FreeSigner]
  /\ IF owner[p] = NoOne
     THEN UNCHANGED <<owner, promised, undone>>
     ELSE /\ owner' = [owner EXCEPT ![p] = c] /\ promised' = [promised EXCEPT ![p] = c]
          /\ undone' = undone \ {p}
  /\ UNCHANGED <<mail, posts, noted, hand, inbox, live, reached, prefs, met, cut>>

\* Mutant of InsertToken: a token that came meanwhile is left to whom it is.
InsertOrLeave(w) ==
  LET p == signer[w].phone c == signer[w].customer IN
  /\ signer[w].at = "inserting"
  /\ signer' = [signer EXCEPT ![w] = FreeSigner]
  /\ owner' = [owner EXCEPT ![p] = IF @ = NoOne THEN c ELSE @]
  /\ promised' = [promised EXCEPT ![p] = c]
  /\ undone' = undone \ {p}
  /\ UNCHANGED <<mail, posts, noted, hand, inbox, live, reached, prefs, met, cut>>

\* If the token came meanwhile, the insert fails and is an update after all.
InsertToken(w) ==
  LET p == signer[w].phone c == signer[w].customer IN
  /\ signer[w].at = "inserting"
  /\ IF owner[p] # NoOne
     THEN /\ signer' = [signer EXCEPT ![w].at = "updating"]
          /\ UNCHANGED <<owner, promised, undone>>
     ELSE /\ signer' = [signer EXCEPT ![w] = FreeSigner]
          /\ owner' = [owner EXCEPT ![p] = c] /\ promised' = [promised EXCEPT ![p] = c]
          /\ undone' = undone \ {p}
  /\ UNCHANGED <<mail, posts, noted, hand, inbox, live, reached, prefs, met, cut>>

\* Only the customer's own phone is found.
AskUnregister(w, p, c) ==
  /\ signer[w] = FreeSigner /\ owner[p] = c
  /\ signer' = [signer EXCEPT ![w] = [at |-> "leaving", phone |-> p, customer |-> c]]
  /\ UNCHANGED <<mail, posts, noted, hand, inbox, live, reached, prefs, owner, promised, undone, met, cut>>

\* The row is deleted by its id alone, which it keeps when the token changes hands.
Unregister(w) ==
  LET p == signer[w].phone IN
  /\ signer[w].at = "leaving"
  /\ DeleteRow(p, Signers \ {w})
  /\ IF owner[p] = signer[w].customer
     THEN promised' = [promised EXCEPT ![p] = NoOne] /\ UNCHANGED undone
     ELSE undone' = undone \cup {p} /\ UNCHANGED promised
  /\ UNCHANGED <<mail, posts, noted, hand, inbox, live, reached, prefs, met, cut>>

ChangePrefs(c, row) ==
  /\ prefs' = [prefs EXCEPT ![c] = row]
  /\ UNCHANGED <<mail, posts, noted, hand, inbox, live, reached, owner, signer, promised, undone, met, cut>>

NoticesNext ==
  \/ \E l \in Letters : Post(l) \/ SkipLetter(l) \/ \E h \in Hands : TakeLetter(h, l)
  \/ \E h \in Hands :
       \/ MarkLetter(h) \/ Store(h) \/ ReadPhones(h) \/ HandDies(h)
       \/ \E hour \in Hours : Aim(h, hour)
       \/ \E refused \in SUBSET Phones : Push(h, refused)
       \/ \E p \in Phones : PurgeToken(h, p)
  \/ \E w \in Signers :
       \/ \E p \in Phones, c \in Customers : AskRegister(w, p, c) \/ AskUnregister(w, p, c)
       \/ LookForToken(w) \/ TakeOver(w) \/ InsertToken(w) \/ Unregister(w)
  \/ \E c \in Customers, row \in Prefs : ChangePrefs(c, row)

-----------------------------------------------------------------------------
(* Properties.                                                             *)

\* Rows, handlers and requests have their types.
NoticesTypeOK ==
  /\ mail \in [Letters -> 0 .. MaxPosts] /\ posts \in [Letters -> 0 .. MaxPosts]
  /\ inbox \in [Letters -> 0 .. MaxPosts]
  /\ live \subseteq Letters /\ reached \subseteq Letters \X Phones
  /\ prefs \in [Customers -> Prefs]
  /\ owner \in [Phones -> Customers \cup {NoOne}] /\ promised \in [Phones -> Customers \cup {NoOne}]
  /\ \A h \in Hands : hand[h].at \in {"idle", "checked", "marked", "stored", "aimed", "sending", "purging"}
  /\ \A w \in Signers : signer[w].at \in {"idle", "opted", "updating", "inserting", "leaving"}
  /\ undone \subseteq Phones /\ met \cup cut \subseteq Letters

IsForSomebody(l) == HasReader(l) /\ ~Throws(l)

\* A customer finds every event once in the list: what was marked was stored, or is about
\* to be, unless the handler died in between; two rows need two copies looked up before
\* either was marked; and what was shown or pushed was stored before.
EventIsStoredOnce ==
  \A l \in Letters :
    /\ KeyOfLetter(l) \in noted /\ IsForSomebody(l) =>
         inbox[l] > 0 \/ l \in cut \/ \E h \in Hands : hand[h].letter = l /\ hand[h].at = "marked"
    /\ inbox[l] > 1 => l \in met
    /\ l \in live \/ (\E p \in Phones : <<l, p>> \in reached) => inbox[l] > 0

\* A registered phone stays its customer's, until that customer unregisters it: only a
\* refused token, or an unregistration that had found the earlier owner's row, deletes it.
RegistrationStays ==
  \A p \in Phones : p \notin undone => owner[p] = promised[p]

=============================================================================
