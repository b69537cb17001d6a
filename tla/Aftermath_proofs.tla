-------------------------- MODULE Aftermath_proofs --------------------------
(***************************************************************************)
(* Proofs about what follows a charge: its notices (Notices), the figures  *)
(* made of its events (UsageMetrics), the reports that read them (Reports) *)
(* and its readings (Telemetry), for any number of customers, phones,      *)
(* events, readings and handlers at once, and any table of any number of   *)
(* stations, days and hours.                                               *)
(***************************************************************************)
EXTENDS MCObservers, FiniteSetTheorems, WellFoundedInduction, TLAPS
-----------------------------------------------------------------------------
(* How many.                                                               *)

LEMMA CountIsNat == ASSUME NEW S, IsFiniteSet(S) PROVE Cardinality(S) \in Nat
  BY FS_CardinalityType

\* A set that has nothing new has no more elements.
LEMMA CountLess ==
  ASSUME NEW S, NEW T, IsFiniteSet(S), T \subseteq S
  PROVE  IsFiniteSet(T) /\ Cardinality(T) <= Cardinality(S) /\ Cardinality(T) \in Nat
  BY FS_Subset, FS_CardinalityType

\* One that has one new element has at most one more.
LEMMA CountMore ==
  ASSUME NEW S, NEW T, NEW x, IsFiniteSet(S), T \subseteq S \cup {x}
  PROVE  IsFiniteSet(T) /\ Cardinality(T) <= Cardinality(S) + 1 /\ Cardinality(T) \in Nat
<1>1. Cardinality(S) \in Nat
  BY FS_CardinalityType
<1>2. IsFiniteSet(S \cup {x}) /\ Cardinality(S \cup {x}) \in {Cardinality(S), Cardinality(S) + 1}
  BY FS_AddElement
<1>3. IsFiniteSet(T) /\ Cardinality(T) <= Cardinality(S \cup {x}) /\ Cardinality(T) \in Nat
  BY <1>2, CountLess
<1> QED
  BY <1>1, <1>2, <1>3

\* One that has lost an element has one fewer.
LEMMA CountFewer ==
  ASSUME NEW S, NEW T, NEW x \in S, IsFiniteSet(S), T \subseteq S \ {x}
  PROVE  IsFiniteSet(T) /\ Cardinality(T) <= Cardinality(S) - 1 /\ Cardinality(T) \in Nat
<1>1. IsFiniteSet(S \ {x}) /\ Cardinality(S \ {x}) = Cardinality(S) - 1
  BY FS_RemoveElement
<1> QED
  BY <1>1, CountLess

\* One of which two elements are the same has at most one.
LEMMA CountOne ==
  ASSUME NEW S, IsFiniteSet(S), Cardinality(S) <= 1, NEW x \in S, NEW y \in S
  PROVE  x = y
<1>1. IsFiniteSet(S \ {x}) /\ Cardinality(S \ {x}) = Cardinality(S) - 1 /\ Cardinality(S \ {x}) \in Nat
  BY FS_RemoveElement, FS_CardinalityType
<1>2. Cardinality(S \ {x}) = 0
  BY <1>1, FS_CardinalityType
<1> QED
  BY <1>1, <1>2, FS_EmptySet

-----------------------------------------------------------------------------
(* Notices: what is marked, stored and shown.                              *)

HandRows ==
  [at : {"idle", "checked", "marked", "stored", "aimed", "sending", "purging"},
   letter : Letters \cup {NoLetter}, phones : SUBSET Phones]

\* After the row was stored.
Later == {"stored", "aimed", "sending", "purging"}

Holders(l) == {h \in Hands : hand[h].letter = l}

\* Those that may still store a row.
Makers(l) == {h \in Hands : hand[h].letter = l /\ hand[h].at \in {"checked", "marked"}}

MailTypes ==
  /\ mail \in [Letters -> Nat] /\ posts \in [Letters -> 0 .. MaxPosts] /\ inbox \in [Letters -> Nat]
  /\ live \subseteq Letters /\ reached \subseteq Letters \X Phones
  /\ met \cup cut \subseteq Letters
  /\ hand \in [Hands -> HandRows]
  /\ \A h \in Hands :
       /\ hand[h].at = "idle" <=> hand[h].letter = NoLetter
       /\ hand[h].at = "idle" => hand[h] = FreeHand

\* Every copy that is held waits for its acknowledgement, and there are no more copies
\* than were published.
CopiesWait == \A l \in Letters : Cardinality(Holders(l)) <= mail[l] /\ mail[l] <= posts[l]

\* What is not marked was not stored, and nobody is further than its look-up.
UnmarkedIsNew ==
  \A l \in Letters : KeyOfLetter(l) \notin noted =>
    inbox[l] = 0 /\ \A h \in Hands : hand[h].letter = l => hand[h].at = "checked"

\* Rows stored, and rows that may be: no more than copies; one, if none were looked up at once.
RowsToCome ==
  \A l \in Letters :
    /\ inbox[l] + Cardinality(Makers(l)) <= MaxPosts
    /\ l \notin met => inbox[l] + Cardinality(Makers(l)) <= 1

LaterIsStored == \A h \in Hands : hand[h].at \in Later => inbox[hand[h].letter] > 0

MailInv ==
  MailTypes /\ CopiesWait /\ UnmarkedIsNew /\ RowsToCome /\ LaterIsStored /\ EventIsStoredOnce

LEMMA HandsAreFinite ==
  \A l : /\ IsFiniteSet(Holders(l)) /\ IsFiniteSet(Makers(l))
         /\ Cardinality(Holders(l)) \in Nat /\ Cardinality(Makers(l)) \in Nat
  BY NoticesAssumption, CountLess DEF Holders, Makers

LEMMA MailStarts == ASSUME NoticesInit PROVE MailInv
<1> USE NoticesAssumption DEF NoticesInit
<1>1. MailTypes
  BY DEF MailTypes, HandRows, FreeHand
<1>2. \A l \in Letters :
        Cardinality(Holders(l)) = 0 /\ Cardinality(Makers(l)) = 0 /\ mail[l] = 0 /\ posts[l] = 0 /\ inbox[l] = 0
  <2> TAKE l \in Letters
  <2>1. Holders(l) = {} /\ Makers(l) = {}
    BY DEF Holders, Makers, FreeHand
  <2> QED
    BY <2>1, FS_EmptySet
<1>3. CopiesWait /\ RowsToCome
  BY <1>2 DEF CopiesWait, RowsToCome
<1>4. UnmarkedIsNew /\ LaterIsStored /\ EventIsStoredOnce
  BY DEF UnmarkedIsNew, LaterIsStored, EventIsStoredOnce, FreeHand, Later
<1> QED
  BY <1>1, <1>3, <1>4 DEF MailInv

\* A handler that has stored its row goes on, or is done and acknowledges its copy.
GoesOn(h, row) ==
  /\ hand[h].at \in Later
  /\ hand' = [hand EXCEPT ![h] = row] /\ row \in HandRows
  /\ \/ row.at \in Later /\ row.letter = hand[h].letter /\ UNCHANGED mail
     \/ row = FreeHand /\ mail' = [mail EXCEPT ![hand[h].letter] = @ - 1]
  /\ live \subseteq live' /\ live' \subseteq live \cup {hand[h].letter}
  /\ reached \subseteq reached' /\ reached' \subseteq reached \cup ({hand[h].letter} \X Phones)
  /\ UNCHANGED <<posts, noted, inbox, met, cut>>

LEMMA LaterSteps ==
  ASSUME MailTypes, NEW h \in Hands,
         \/ \E hour \in Hours : Aim(h, hour)
         \/ ReadPhones(h)
         \/ \E refused \in SUBSET Phones : Push(h, refused)
         \/ \E p \in Phones : PurgeToken(h, p)
  PROVE  \E row : GoesOn(h, row)
<1> USE DEF MailTypes, HandRows
<1>1. FreeHand \in HandRows
  BY DEF FreeHand
<1>2. ASSUME Acknowledge(h)
      PROVE  hand' = [hand EXCEPT ![h] = FreeHand] /\ mail' = [mail EXCEPT ![hand[h].letter] = @ - 1]
  BY <1>2 DEF Acknowledge
<1>3. ASSUME NEW hour \in Hours, Aim(h, hour) PROVE \E row : GoesOn(h, row)
  <2>1. CASE Acknowledge(h)
    <3>1. GoesOn(h, FreeHand)
      BY <1>1, <1>2, <1>3, <2>1 DEF Aim, GoesOn, Later
    <3> QED
      BY <3>1
  <2>2. CASE hand' = [hand EXCEPT ![h].at = "aimed"] /\ UNCHANGED mail
    <3>1. GoesOn(h, [hand[h] EXCEPT !.at = "aimed"])
      BY <1>3, <2>2 DEF Aim, GoesOn, Later
    <3> QED
      BY <3>1
  <2> QED
    BY <1>3, <2>1, <2>2 DEF Aim
<1>4. ASSUME ReadPhones(h) PROVE \E row : GoesOn(h, row)
  <2> DEFINE found == {p \in Phones : owner[p] = CustomerOf[hand[h].letter]}
  <2>1. CASE Acknowledge(h)
    <3>1. GoesOn(h, FreeHand)
      BY <1>1, <1>2, <1>4, <2>1 DEF ReadPhones, GoesOn, Later
    <3> QED
      BY <3>1
  <2>2. CASE hand' = [hand EXCEPT ![h].at = "sending", ![h].phones = found] /\ UNCHANGED mail
    <3>1. GoesOn(h, [hand[h] EXCEPT !.at = "sending", !.phones = found])
      BY <1>4, <2>2 DEF ReadPhones, GoesOn, Later
    <3> QED
      BY <3>1
  <2> QED
    BY <1>4, <2>1, <2>2 DEF ReadPhones
<1>5. ASSUME NEW refused \in SUBSET Phones, Push(h, refused) PROVE \E row : GoesOn(h, row)
  <2>0. /\ hand[h].at \in Later
        /\ reached \subseteq reached' /\ reached' \subseteq reached \cup ({hand[h].letter} \X Phones)
        /\ UNCHANGED <<posts, noted, inbox, met, cut, live>>
    <3>1. hand[h].phones \subseteq Phones
      OBVIOUS
    <3> QED
      BY <1>5, <3>1 DEF Push, Later
  <2>1. CASE Acknowledge(h)
    <3>1. GoesOn(h, FreeHand)
      BY <1>1, <1>2, <2>0, <2>1 DEF GoesOn
    <3> QED
      BY <3>1
  <2>2. CASE hand' = [hand EXCEPT ![h].at = "purging", ![h].phones = refused] /\ UNCHANGED mail
    <3>1. GoesOn(h, [hand[h] EXCEPT !.at = "purging", !.phones = refused])
      BY <2>0, <2>2 DEF GoesOn, Later
    <3> QED
      BY <3>1
  <2> QED
    BY <1>5, <2>1, <2>2 DEF Push
<1>6. ASSUME NEW p \in Phones, PurgeToken(h, p) PROVE \E row : GoesOn(h, row)
  <2>1. CASE Acknowledge(h)
    <3>1. GoesOn(h, FreeHand)
      BY <1>1, <1>2, <1>6, <2>1 DEF PurgeToken, GoesOn, Later
    <3> QED
      BY <3>1
  <2>2. CASE hand' = [hand EXCEPT ![h].phones = @ \ {p}] /\ UNCHANGED mail
    <3>1. GoesOn(h, [hand[h] EXCEPT !.phones = @ \ {p}])
      BY <1>6, <2>2 DEF PurgeToken, GoesOn, Later
    <3> QED
      BY <3>1
  <2> QED
    BY <1>6, <2>1, <2>2 DEF PurgeToken
<1> QED
  BY <1>3, <1>4, <1>5, <1>6

\* A handler lets go of its copy.
LEMMA LetsGo ==
  ASSUME MailTypes, NEW h \in Hands, hand[h].at # "idle", hand' = [hand EXCEPT ![h] = FreeHand],
         NEW l \in Letters
  PROVE  /\ Holders(l)' = Holders(l) \ {h} /\ Makers(l)' = Makers(l) \ {h}
         /\ Cardinality(Holders(l)') <= Cardinality(Holders(l))
         /\ Cardinality(Makers(l)') <= Cardinality(Makers(l))
         /\ hand[h].letter = l => Cardinality(Holders(l)') <= Cardinality(Holders(l)) - 1
<1>1. Holders(l)' = Holders(l) \ {h} /\ Makers(l)' = Makers(l) \ {h}
  BY NoticesAssumption DEF MailTypes, HandRows, FreeHand, Holders, Makers
<1>2. IsFiniteSet(Holders(l)) /\ IsFiniteSet(Makers(l))
  BY HandsAreFinite
<1>3. /\ Cardinality(Holders(l)') <= Cardinality(Holders(l))
      /\ Cardinality(Makers(l)') <= Cardinality(Makers(l))
  BY <1>1, <1>2, CountLess
<1>4. ASSUME hand[h].letter = l PROVE Cardinality(Holders(l)') <= Cardinality(Holders(l)) - 1
  BY <1>1, <1>2, <1>4, CountFewer DEF Holders
<1> QED
  BY <1>1, <1>3, <1>4

\* Its copy is its own to acknowledge.
LEMMA HeldIsThere ==
  ASSUME MailTypes, CopiesWait, NEW h \in Hands, hand[h].at # "idle"
  PROVE  hand[h].letter \in Letters /\ mail[hand[h].letter] > 0
<1> DEFINE l == hand[h].letter
<1>1. l \in Letters
  BY DEF MailTypes, HandRows
<1>2. h \in Holders(l)
  BY DEF Holders
<1>3. Cardinality(Holders(l)) # 0
  BY <1>2, HandsAreFinite, FS_EmptySet
<1> QED
  BY <1>1, <1>3, HandsAreFinite DEF MailTypes, CopiesWait

LEMMA FreeHandIsFree ==
  FreeHand \in HandRows /\ FreeHand.at = "idle" /\ FreeHand.letter = NoLetter
  BY DEF FreeHand, HandRows

LEMMA GoesOnKeeps == ASSUME MailInv, NEW h \in Hands, NEW row, GoesOn(h, row) PROVE MailInv'
<1> USE NoticesAssumption DEF MailInv
<1> DEFINE m == hand[h].letter
<1>1. m \in Letters /\ mail[m] > 0 /\ hand[h].at # "idle" /\ inbox[m] > 0
  BY HeldIsThere DEF GoesOn, Later, LaterIsStored
<1>2. MailTypes'
  <2>1. hand' \in [Hands -> HandRows] /\ mail' \in [Letters -> Nat]
    BY <1>1, FreeHandIsFree DEF GoesOn, MailTypes
  <2>2. \A g \in Hands :
          /\ hand'[g].at = "idle" <=> hand'[g].letter = NoLetter
          /\ hand'[g].at = "idle" => hand'[g] = FreeHand
    BY <1>1, FreeHandIsFree DEF GoesOn, MailTypes, Later
  <2>3. live' \subseteq Letters /\ reached' \subseteq Letters \X Phones
    BY <1>1 DEF GoesOn, MailTypes
  <2> QED
    BY <2>1, <2>2, <2>3 DEF GoesOn, MailTypes
<1>3. \A l \in Letters :
        /\ Cardinality(Holders(l)') <= mail'[l] /\ mail'[l] <= mail[l]
        /\ Cardinality(Makers(l)') <= Cardinality(Makers(l)) /\ Cardinality(Makers(l)') \in Nat
  <2> TAKE l \in Letters
  <2>1. CASE row.at \in Later /\ row.letter = m /\ UNCHANGED mail
    <3>1. Holders(l)' = Holders(l) /\ Makers(l)' = Makers(l)
      BY <2>1 DEF GoesOn, Holders, Makers, MailTypes, Later
    <3> QED
      BY <2>1, <3>1, HandsAreFinite DEF CopiesWait, MailTypes
  <2>2. CASE row = FreeHand /\ mail' = [mail EXCEPT ![m] = @ - 1]
    <3>1. hand' = [hand EXCEPT ![h] = FreeHand]
      BY <2>2 DEF GoesOn
    <3>2. /\ Cardinality(Holders(l)') <= Cardinality(Holders(l))
          /\ Cardinality(Makers(l)') <= Cardinality(Makers(l))
          /\ m = l => Cardinality(Holders(l)') <= Cardinality(Holders(l)) - 1
          /\ Holders(l)' = Holders(l) \ {h} /\ Makers(l)' = Makers(l) \ {h}
      BY <1>1, <3>1, LetsGo
    <3>3. Cardinality(Makers(l)') \in Nat /\ Cardinality(Holders(l)') \in Nat
      BY <3>2, HandsAreFinite, CountLess
    <3> QED
      BY <1>1, <2>2, <3>2, <3>3, HandsAreFinite DEF CopiesWait, MailTypes
  <2> QED
    BY <2>1, <2>2 DEF GoesOn
<1>4. CopiesWait'
  BY <1>2, <1>3 DEF CopiesWait, GoesOn, MailTypes
<1>5. RowsToCome'
  BY <1>3, HandsAreFinite DEF RowsToCome, GoesOn, MailTypes
<1>6. UnmarkedIsNew'
  <2> SUFFICES ASSUME NEW l \in Letters, KeyOfLetter(l) \notin noted, NEW g \in Hands, hand'[g].letter = l
               PROVE  inbox[l] = 0 /\ hand'[g].at = "checked"
    BY DEF UnmarkedIsNew, GoesOn
  <2>1. g # h
    BY <1>1 DEF UnmarkedIsNew, GoesOn, MailTypes, Later, FreeHand
  <2> QED
    BY <2>1 DEF UnmarkedIsNew, GoesOn, MailTypes
<1>7. LaterIsStored'
  BY <1>1 DEF LaterIsStored, GoesOn, MailTypes, FreeHand, Later
<1>8. EventIsStoredOnce'
  <2> SUFFICES ASSUME NEW l \in Letters
               PROVE  /\ KeyOfLetter(l) \in noted /\ IsForSomebody(l) =>
                           inbox[l] > 0 \/ l \in cut \/ \E g \in Hands : hand'[g].letter = l /\ hand'[g].at = "marked"
                      /\ inbox[l] > 1 => l \in met
                      /\ l \in live' \/ (\E p \in Phones : <<l, p>> \in reached') => inbox[l] > 0
    BY DEF EventIsStoredOnce, GoesOn
  <2>1. \A g \in Hands : hand[g].at = "marked" => hand'[g] = hand[g]
    BY DEF GoesOn, Later, MailTypes
  <2>2. l \in live' \/ (\E p \in Phones : <<l, p>> \in reached') =>
          l = m \/ l \in live \/ (\E p \in Phones : <<l, p>> \in reached)
    BY DEF GoesOn
  <2> QED
    BY <1>1, <2>1, <2>2 DEF EventIsStoredOnce
<1> QED
  BY <1>2, <1>4, <1>5, <1>6, <1>7, <1>8

LEMMA PostKeeps == ASSUME MailInv, NEW l \in Letters, Post(l) \/ SkipLetter(l) PROVE MailInv'
<1> USE NoticesAssumption DEF MailInv
<1>1. /\ UNCHANGED <<noted, hand, inbox, live, reached, met, cut>>
      /\ \/ posts[l] < MaxPosts /\ posts' = [posts EXCEPT ![l] = @ + 1] /\ mail' = [mail EXCEPT ![l] = @ + 1]
         \/ mail[l] > Cardinality(Holders(l)) /\ mail' = [mail EXCEPT ![l] = @ - 1] /\ posts' = posts
  BY DEF Post, SkipLetter, IsDelivered, Holders
<1>2. \A k : Holders(k)' = Holders(k) /\ Makers(k)' = Makers(k)
  BY <1>1 DEF Holders, Makers
<1>3. MailTypes' /\ CopiesWait'
  <2>1. CASE posts[l] < MaxPosts /\ posts' = [posts EXCEPT ![l] = @ + 1] /\ mail' = [mail EXCEPT ![l] = @ + 1]
    BY <1>1, <1>2, <2>1, HandsAreFinite DEF MailTypes, CopiesWait
  <2>2. CASE mail[l] > Cardinality(Holders(l)) /\ mail' = [mail EXCEPT ![l] = @ - 1] /\ posts' = posts
    BY <1>1, <1>2, <2>2, HandsAreFinite DEF MailTypes, CopiesWait
  <2> QED
    BY <1>1, <2>1, <2>2
<1>4. RowsToCome'
  BY <1>1, <1>2 DEF RowsToCome
<1>5. UnmarkedIsNew' /\ LaterIsStored' /\ EventIsStoredOnce'
  BY <1>1 DEF UnmarkedIsNew, LaterIsStored, EventIsStoredOnce
<1> QED
  BY <1>3, <1>4, <1>5

LEMMA TakeKeeps == ASSUME MailInv, NEW l \in Letters, NEW h \in Hands, TakeLetter(h, l) PROVE MailInv'
<1> USE NoticesAssumption DEF MailInv
<1>1. /\ hand[h] = FreeHand /\ mail[l] > Cardinality(Holders(l)) /\ KeyOfLetter(l) \notin noted
      /\ hand' = [hand EXCEPT ![h] = [at |-> "checked", letter |-> l, phones |-> {}]]
      /\ met' = IF \E g \in Hands : hand[g].letter = l /\ hand[g].at = "checked" THEN met \cup {l} ELSE met
      /\ UNCHANGED <<mail, posts, noted, inbox, live, reached, cut>>
  BY DEF TakeLetter, IsDelivered, Holders, MailTypes, HandRows, FreeHand
<1>2. inbox[l] = 0 /\ Makers(l) = Holders(l) /\ \A g \in Holders(l) : hand[g].at = "checked"
  BY <1>1 DEF UnmarkedIsNew, Makers, Holders
<1>3. MailTypes'
  BY <1>1 DEF MailTypes, HandRows
<1>4. \A k \in Letters : k # l => Holders(k)' = Holders(k) /\ Makers(k)' = Makers(k)
  BY <1>1 DEF Holders, Makers, MailTypes, FreeHand
<1>5. Holders(l)' \subseteq Holders(l) \cup {h} /\ Makers(l)' \subseteq Makers(l) \cup {h}
  BY <1>1 DEF Holders, Makers, MailTypes
<1>6. /\ Cardinality(Holders(l)') <= Cardinality(Holders(l)) + 1 /\ Cardinality(Holders(l)') \in Nat
      /\ Cardinality(Makers(l)') <= Cardinality(Makers(l)) + 1 /\ Cardinality(Makers(l)') \in Nat
  <2>1. IsFiniteSet(Holders(l)) /\ IsFiniteSet(Makers(l))
    BY HandsAreFinite
  <2>2. Cardinality(Holders(l)') <= Cardinality(Holders(l)) + 1 /\ Cardinality(Holders(l)') \in Nat
    BY <1>5, <2>1, CountMore
  <2>3. Cardinality(Makers(l)') <= Cardinality(Makers(l)) + 1 /\ Cardinality(Makers(l)') \in Nat
    BY <1>5, <2>1, CountMore
  <2> QED
    BY <2>2, <2>3
<1>7. CopiesWait'
  <2> SUFFICES ASSUME NEW k \in Letters PROVE Cardinality(Holders(k)') <= mail[k] /\ mail[k] <= posts[k]
    BY <1>1 DEF CopiesWait
  <2>1. mail[l] \in Nat /\ Cardinality(Holders(l)) \in Nat
    BY HandsAreFinite DEF MailTypes
  <2>2. CASE k = l
    BY <1>1, <1>6, <2>1, <2>2 DEF CopiesWait
  <2>3. CASE k # l
    BY <1>4, <2>3 DEF CopiesWait
  <2> QED
    BY <2>2, <2>3
<1>8. RowsToCome'
  <2>1. inbox'[l] + Cardinality(Makers(l)') <= MaxPosts
    BY <1>1, <1>2, <1>6, HandsAreFinite DEF CopiesWait, MailTypes
  <2>2. ASSUME l \notin met' PROVE inbox'[l] + Cardinality(Makers(l)') <= 1
    <3>1. Makers(l) = {}
      BY <1>1, <1>2, <2>2 DEF Makers
    <3> QED
      BY <1>1, <1>2, <1>6, <3>1, FS_EmptySet
  <2>3. \A k \in Letters : k # l => inbox'[k] = inbox[k] /\ Makers(k)' = Makers(k) /\ (k \in met' <=> k \in met)
    BY <1>1, <1>4
  <2> QED
    BY <2>1, <2>2, <2>3 DEF RowsToCome
<1>9. UnmarkedIsNew' /\ LaterIsStored'
  BY <1>1 DEF UnmarkedIsNew, LaterIsStored, MailTypes, Later
<1>10. EventIsStoredOnce'
  <2>1. \A g \in Hands : hand[g].at = "marked" => hand'[g] = hand[g]
    BY <1>1 DEF FreeHand, MailTypes
  <2>2. met \subseteq met'
    BY <1>1
  <2> QED
    BY <1>1, <2>1, <2>2 DEF EventIsStoredOnce
<1> QED
  BY <1>3, <1>7, <1>8, <1>9, <1>10

\* A handler lets go of its copy, and it is acknowledged or not.
LEMMA LetGoKeeps ==
  ASSUME MailInv, NEW h \in Hands, hand[h].at # "idle", hand' = [hand EXCEPT ![h] = FreeHand],
         UNCHANGED mail \/ mail' = [mail EXCEPT ![hand[h].letter] = @ - 1],
         noted \subseteq noted', cut' \subseteq Letters,
         UNCHANGED <<posts, inbox, live, reached, met>>
  PROVE  MailTypes' /\ CopiesWait' /\ RowsToCome' /\ UnmarkedIsNew' /\ LaterIsStored'
<1> USE NoticesAssumption DEF MailInv
<1> DEFINE m == hand[h].letter
<1>1. m \in Letters /\ mail[m] > 0
  BY HeldIsThere
<1>2. MailTypes'
  <2>0. mail' \in [Letters -> Nat]
    <3>1. CASE UNCHANGED mail
      BY <3>1 DEF MailTypes
    <3>2. CASE mail' = [mail EXCEPT ![m] = @ - 1]
      BY <1>1, <3>2 DEF MailTypes
    <3> QED
      BY <3>1, <3>2
  <2>1. hand' \in [Hands -> HandRows]
    BY FreeHandIsFree DEF MailTypes
  <2>2. \A g \in Hands :
          /\ hand'[g].at = "idle" <=> hand'[g].letter = NoLetter
          /\ hand'[g].at = "idle" => hand'[g] = FreeHand
    BY FreeHandIsFree DEF MailTypes
  <2> QED
    BY <2>0, <2>1, <2>2 DEF MailTypes
<1>3. \A l \in Letters :
        /\ Cardinality(Holders(l)') <= Cardinality(Holders(l)) /\ Cardinality(Holders(l)') \in Nat
        /\ Cardinality(Makers(l)') <= Cardinality(Makers(l)) /\ Cardinality(Makers(l)') \in Nat
        /\ m = l => Cardinality(Holders(l)') <= Cardinality(Holders(l)) - 1
  <2> TAKE l \in Letters
  <2>1. Holders(l)' = Holders(l) \ {h} /\ Makers(l)' = Makers(l) \ {h}
    BY LetsGo
  <2>2. Cardinality(Holders(l)') \in Nat /\ Cardinality(Makers(l)') \in Nat
    BY <2>1, HandsAreFinite, CountLess
  <2> QED
    BY <2>2, LetsGo
<1>4. CopiesWait'
  <2> SUFFICES ASSUME NEW l \in Letters PROVE Cardinality(Holders(l)') <= mail'[l] /\ mail'[l] <= posts[l]
    BY DEF CopiesWait
  <2>1. /\ mail[l] \in Nat /\ posts[l] \in Nat /\ Cardinality(Holders(l)) \in Nat
        /\ Cardinality(Holders(l)) <= mail[l] /\ mail[l] <= posts[l]
    BY HandsAreFinite DEF MailTypes, CopiesWait
  <2>2. CASE l = m
    <3>1. mail'[l] \in {mail[l], mail[l] - 1}
      BY <1>1, <2>2 DEF MailTypes
    <3> QED
      BY <1>3, <2>1, <2>2, <3>1
  <2>3. CASE l # m
    <3>1. mail'[l] = mail[l]
      BY <1>1, <2>3 DEF MailTypes
    <3> QED
      BY <1>3, <2>1, <3>1
  <2> QED
    BY <2>2, <2>3
<1>5. RowsToCome'
  BY <1>3, HandsAreFinite DEF RowsToCome, MailTypes
<1>6. UnmarkedIsNew' /\ LaterIsStored'
  BY <1>1 DEF UnmarkedIsNew, LaterIsStored, MailTypes, FreeHand, Later
<1> QED
  BY <1>2, <1>4, <1>5, <1>6

LEMMA MarkKeeps == ASSUME MailInv, NEW h \in Hands, MarkLetter(h) PROVE MailInv'
<1> USE NoticesAssumption DEF MailInv
<1> DEFINE m == hand[h].letter
<1>1. /\ hand[h].at = "checked" /\ noted' = noted \cup {KeyOfLetter(m)}
      /\ UNCHANGED <<posts, inbox, live, reached, met, cut>>
      /\ \/ Throws(m) /\ hand' = [hand EXCEPT ![h] = FreeHand] /\ UNCHANGED mail
         \/ ~HasReader(m) /\ hand' = [hand EXCEPT ![h] = FreeHand] /\ mail' = [mail EXCEPT ![m] = @ - 1]
         \/ IsForSomebody(m) /\ hand' = [hand EXCEPT ![h].at = "marked"] /\ UNCHANGED mail
  BY DEF MarkLetter, Acknowledge, IsForSomebody
<1>2. m \in Letters
  BY <1>1, HeldIsThere
<1>3. EventIsStoredOnce'
  <2> SUFFICES ASSUME NEW l \in Letters, KeyOfLetter(l) \in noted', IsForSomebody(l)
               PROVE  inbox[l] > 0 \/ l \in cut \/ \E g \in Hands : hand'[g].letter = l /\ hand'[g].at = "marked"
    BY <1>1 DEF EventIsStoredOnce
  <2>1. CASE KeyOfLetter(l) \in noted
    <3>1. \A g \in Hands : hand[g].at = "marked" => hand'[g] = hand[g]
      BY <1>1 DEF MailTypes
    <3> QED
      BY <2>1, <3>1 DEF EventIsStoredOnce
  <2>2. CASE KeyOfLetter(l) = KeyOfLetter(m)
    <3>1. l = m
      BY <1>2, <2>2 DEF KeyOfLetter, IsForSomebody, Throws
    <3>2. hand' = [hand EXCEPT ![h].at = "marked"]
      BY <1>1, <3>1 DEF IsForSomebody
    <3> QED
      BY <3>1, <3>2 DEF MailTypes, HandRows
  <2> QED
    BY <1>1, <2>1, <2>2
<1>4. CASE hand' = [hand EXCEPT ![h] = FreeHand]
  <2>1. MailTypes' /\ CopiesWait' /\ RowsToCome' /\ UnmarkedIsNew' /\ LaterIsStored'
    BY <1>1, <1>4, LetGoKeeps DEF MailTypes
  <2> QED
    BY <1>3, <2>1
<1>5. CASE hand' = [hand EXCEPT ![h].at = "marked"] /\ UNCHANGED mail
  <2>1. \A l \in Letters : Holders(l)' = Holders(l) /\ Makers(l)' = Makers(l)
    BY <1>1, <1>5 DEF Holders, Makers, MailTypes, HandRows
  <2>2. MailTypes'
    BY <1>1, <1>5 DEF MailTypes, HandRows
  <2>3. CopiesWait' /\ RowsToCome'
    BY <1>1, <1>5, <2>1 DEF CopiesWait, RowsToCome
  <2>4. UnmarkedIsNew' /\ LaterIsStored'
    BY <1>1, <1>5 DEF UnmarkedIsNew, LaterIsStored, MailTypes, HandRows, Later
  <2> QED
    BY <1>3, <2>2, <2>3, <2>4
<1> QED
  BY <1>1, <1>4, <1>5

LEMMA StoreKeeps == ASSUME MailInv, NEW h \in Hands, Store(h) PROVE MailInv'
<1> USE NoticesAssumption DEF MailInv
<1>0. PICK m \in Letters : m = hand[h].letter
  BY HeldIsThere DEF Store
<1>1. /\ hand[h].at = "marked" /\ inbox' = [inbox EXCEPT ![m] = @ + 1]
      /\ hand' = [hand EXCEPT ![h].at = "stored"]
      /\ UNCHANGED <<mail, posts, noted, live, reached, met, cut>>
  BY <1>0 DEF Store
<1>2. m \in Letters /\ m = hand[h].letter
  BY <1>0
<1>3. MailTypes'
  <2>1. inbox' \in [Letters -> Nat]
    BY <1>1, <1>2 DEF MailTypes
  <2>2. hand' \in [Hands -> HandRows] /\ \A g \in Hands :
             /\ hand'[g].at = "idle" <=> hand'[g].letter = NoLetter
             /\ hand'[g].at = "idle" => hand'[g] = FreeHand
    BY <1>1, <1>2 DEF MailTypes, HandRows
  <2> QED
    BY <1>1, <2>1, <2>2 DEF MailTypes
<1>4. /\ \A l \in Letters : Holders(l)' = Holders(l) /\ (l # m => Makers(l)' = Makers(l))
      /\ Makers(m)' = Makers(m) \ {h} /\ h \in Makers(m)
  BY <1>1, <1>2 DEF Holders, Makers, MailTypes, HandRows
<1>5. Cardinality(Makers(m)') <= Cardinality(Makers(m)) - 1 /\ Cardinality(Makers(m)') \in Nat
  BY <1>4, HandsAreFinite, CountFewer
<1>6. CopiesWait'
  BY <1>1, <1>4 DEF CopiesWait
<1>7. RowsToCome'
  <2> SUFFICES ASSUME NEW l \in Letters
               PROVE  /\ inbox'[l] + Cardinality(Makers(l)') <= MaxPosts
                      /\ l \notin met => inbox'[l] + Cardinality(Makers(l)') <= 1
    BY <1>1 DEF RowsToCome
  <2>1. inbox[m] \in Nat /\ Cardinality(Makers(m)) \in Nat /\ inbox'[m] = inbox[m] + 1
    BY <1>1, <1>2, HandsAreFinite DEF MailTypes
  <2>2. CASE l = m
    BY <1>5, <2>1, <2>2 DEF RowsToCome
  <2>3. CASE l # m
    <3>1. inbox'[l] = inbox[l] /\ Makers(l)' = Makers(l)
      BY <1>1, <1>4, <2>3 DEF MailTypes
    <3> QED
      BY <3>1 DEF RowsToCome
  <2> QED
    BY <2>2, <2>3
<1>8. UnmarkedIsNew' /\ LaterIsStored'
  <2>1. KeyOfLetter(m) \in noted
    BY <1>1, <1>2 DEF UnmarkedIsNew
  <2>2. UnmarkedIsNew'
    BY <1>1, <2>1 DEF UnmarkedIsNew, MailTypes, HandRows
  <2>3. LaterIsStored'
    BY <1>1, <1>2 DEF LaterIsStored, MailTypes, HandRows, Later
  <2> QED
    BY <2>2, <2>3
<1>9. EventIsStoredOnce'
  <2> SUFFICES ASSUME NEW l \in Letters
               PROVE  /\ KeyOfLetter(l) \in noted /\ IsForSomebody(l) =>
                           inbox'[l] > 0 \/ l \in cut \/ \E g \in Hands : hand'[g].letter = l /\ hand'[g].at = "marked"
                      /\ inbox'[l] > 1 => l \in met
                      /\ l \in live \/ (\E p \in Phones : <<l, p>> \in reached) => inbox'[l] > 0
    BY <1>1 DEF EventIsStoredOnce
  <2>1. inbox'[l] > 1 => l \in met
    <3>1. Cardinality(Makers(l)') \in Nat
      <4>1. Makers(l)' \subseteq Hands
        BY DEF Makers
      <4> QED
        BY <4>1, NoticesAssumption, CountLess
    <3>2. inbox'[l] \in Nat /\ (l \notin met => inbox'[l] + Cardinality(Makers(l)') <= 1)
      BY <1>1, <1>3, <1>7 DEF RowsToCome, MailTypes
    <3> QED
      BY <3>1, <3>2
  <2>2. CASE l = m
    <3>1. inbox'[l] > 0
      BY <1>1, <1>2, <2>2 DEF MailTypes
    <3> QED
      BY <2>1, <3>1
  <2>3. CASE l # m
    <3>1. inbox'[l] = inbox[l]
      BY <1>1, <2>3 DEF MailTypes
    <3>2. \A g \in Hands : g # h => hand'[g] = hand[g]
      BY <1>1 DEF MailTypes
    <3>3. \A g \in Hands : hand[g].letter = l => hand'[g] = hand[g]
      BY <1>2, <2>3, <3>2
    <3> QED
      BY <2>1, <3>1, <3>3 DEF EventIsStoredOnce
  <2> QED
    BY <2>2, <2>3
<1> QED
  BY <1>3, <1>6, <1>7, <1>8, <1>9

LEMMA HandDiesKeeps == ASSUME MailInv, NEW h \in Hands, HandDies(h) PROVE MailInv'
<1> USE NoticesAssumption DEF MailInv
<1> DEFINE m == hand[h].letter
<1>1. /\ hand[h].at # "idle" /\ hand' = [hand EXCEPT ![h] = FreeHand]
      /\ cut' = IF hand[h].at = "marked" THEN cut \cup {m} ELSE cut
      /\ UNCHANGED <<mail, posts, noted, inbox, live, reached, met>>
  <2>1. hand[h].at # "idle"
    BY DEF HandDies, MailTypes, HandRows, FreeHand
  <2> QED
    BY <2>1 DEF HandDies
<1>2. m \in Letters
  BY <1>1, HeldIsThere
<1>3. MailTypes' /\ CopiesWait' /\ RowsToCome' /\ UnmarkedIsNew' /\ LaterIsStored'
  BY <1>1, <1>2, LetGoKeeps DEF MailTypes
<1>4. EventIsStoredOnce'
  <2>1. \A g \in Hands : hand[g].at = "marked" => hand'[g] = hand[g] \/ hand[g].letter \in cut'
    BY <1>1 DEF MailTypes
  <2> QED
    BY <1>1, <2>1 DEF EventIsStoredOnce
<1> QED
  BY <1>3, <1>4

-----------------------------------------------------------------------------
(* Notices: whose a phone is.                                              *)

SignerRows ==
  [at : {"idle", "opted", "updating", "inserting", "leaving"},
   phone : Phones \cup {NoPhone}, customer : Customers \cup {NoOne}]

PhoneInv ==
  /\ prefs \in [Customers -> Prefs]
  /\ owner \in [Phones -> Customers \cup {NoOne}] /\ promised \in [Phones -> Customers \cup {NoOne}]
  /\ undone \subseteq Phones
  /\ signer \in [Signers -> SignerRows]
  /\ \A w \in Signers : signer[w].at # "idle" => signer[w].phone \in Phones /\ signer[w].customer \in Customers
  /\ RegistrationStays

LEMMA PhoneStarts == ASSUME NoticesInit PROVE PhoneInv
  BY NoticesAssumption
  DEF NoticesInit, PhoneInv, Prefs, DefaultPrefs, SignerRows, FreeSigner, RegistrationStays

LEMMA PhoneStep ==
  ASSUME PhoneInv, [NoticesNext]_notices
  PROVE  PhoneInv'
<1> USE NoticesAssumption
<1>1. CASE UNCHANGED <<prefs, owner, signer, promised, undone>>
  BY <1>1 DEF PhoneInv, RegistrationStays
<1>2. ASSUME NEW w \in Signers, NEW p \in Phones, NEW c \in Customers, AskRegister(w, p, c) \/ AskUnregister(w, p, c)
      PROVE  PhoneInv'
  <2>1. signer' \in [Signers -> SignerRows]
    BY <1>2 DEF AskRegister, AskUnregister, PhoneInv, SignerRows
  <2>2. prefs' \in [Customers -> Prefs]
    <3>1. \A row \in Prefs : [row EXCEPT !.push = TRUE] \in Prefs
      BY DEF Prefs
    <3> QED
      BY <1>2, <3>1 DEF AskRegister, AskUnregister, PhoneInv
  <2>3. /\ \A v \in Signers : signer'[v].at # "idle" => signer'[v].phone \in Phones /\ signer'[v].customer \in Customers
        /\ UNCHANGED <<owner, promised, undone>>
    BY <1>2 DEF AskRegister, AskUnregister, PhoneInv, SignerRows
  <2> QED
    BY <2>1, <2>2, <2>3 DEF PhoneInv, RegistrationStays
<1>3. ASSUME NEW w \in Signers, LookForToken(w) PROVE PhoneInv'
  BY <1>3 DEF LookForToken, PhoneInv, SignerRows, RegistrationStays
<1>4. ASSUME NEW w \in Signers, TakeOver(w) PROVE PhoneInv'
  BY <1>4 DEF TakeOver, PhoneInv, SignerRows, FreeSigner, RegistrationStays
<1>5. ASSUME NEW w \in Signers, InsertToken(w) PROVE PhoneInv'
  BY <1>5 DEF InsertToken, PhoneInv, SignerRows, FreeSigner, RegistrationStays
<1>6. ASSUME NEW w \in Signers, Unregister(w) PROVE PhoneInv'
  BY <1>6 DEF Unregister, DeleteRow, PhoneInv, SignerRows, FreeSigner, RegistrationStays
<1>7. ASSUME NEW h \in Hands, NEW p \in Phones, PurgeToken(h, p) PROVE PhoneInv'
  BY <1>7 DEF PurgeToken, DeleteRow, PhoneInv, SignerRows, FreeSigner, RegistrationStays
<1>8. ASSUME NEW c \in Customers, NEW row \in Prefs, ChangePrefs(c, row) PROVE PhoneInv'
  BY <1>8 DEF ChangePrefs, PhoneInv, RegistrationStays
<1>9. ASSUME NEW l \in Letters, Post(l) \/ SkipLetter(l) \/ (\E h \in Hands : TakeLetter(h, l)) PROVE PhoneInv'
  BY <1>1, <1>9 DEF Post, SkipLetter, TakeLetter
<1>10. ASSUME NEW h \in Hands, MarkLetter(h) \/ Store(h) \/ ReadPhones(h) \/ HandDies(h) PROVE PhoneInv'
  BY <1>1, <1>10 DEF MarkLetter, Store, ReadPhones, HandDies
<1>11. ASSUME NEW h \in Hands, (\E hour \in Hours : Aim(h, hour)) \/ (\E refused \in SUBSET Phones : Push(h, refused))
       PROVE  PhoneInv'
  BY <1>1, <1>11 DEF Aim, Push
<1>12. CASE UNCHANGED notices
  BY <1>1, <1>12 DEF notices
<1> QED
  BY <1>2, <1>3, <1>4, <1>5, <1>6, <1>7, <1>8, <1>9, <1>10, <1>11, <1>12 DEF NoticesNext

LEMMA MailStep == ASSUME MailInv, [NoticesNext]_notices PROVE MailInv'
<1>1. CASE UNCHANGED <<mail, posts, noted, hand, inbox, live, reached, met, cut>>
  <2>1. \A l : Holders(l)' = Holders(l) /\ Makers(l)' = Makers(l)
    BY <1>1 DEF Holders, Makers
  <2> QED
    BY <1>1, <2>1 DEF MailInv, MailTypes, CopiesWait, UnmarkedIsNew, RowsToCome, LaterIsStored, EventIsStoredOnce
<1>2. ASSUME NEW l \in Letters, Post(l) \/ SkipLetter(l) \/ (\E h \in Hands : TakeLetter(h, l)) PROVE MailInv'
  BY <1>2, PostKeeps, TakeKeeps
<1>3. ASSUME NEW h \in Hands, MarkLetter(h) \/ Store(h) \/ HandDies(h) PROVE MailInv'
  BY <1>3, MarkKeeps, StoreKeeps, HandDiesKeeps
<1>4. ASSUME NEW h \in Hands,
             \/ \E hour \in Hours : Aim(h, hour)
             \/ ReadPhones(h)
             \/ \E refused \in SUBSET Phones : Push(h, refused)
             \/ \E p \in Phones : PurgeToken(h, p)
      PROVE MailInv'
  <2>1. \E row : GoesOn(h, row)
    BY <1>4, LaterSteps DEF MailInv
  <2> QED
    BY <2>1, GoesOnKeeps
<1>5. ASSUME NEW w \in Signers,
             \/ \E p \in Phones, c \in Customers : AskRegister(w, p, c) \/ AskUnregister(w, p, c)
             \/ LookForToken(w) \/ TakeOver(w) \/ InsertToken(w) \/ Unregister(w)
      PROVE MailInv'
  BY <1>1, <1>5 DEF AskRegister, AskUnregister, LookForToken, TakeOver, InsertToken, Unregister
<1>6. ASSUME NEW c \in Customers, NEW row \in Prefs, ChangePrefs(c, row) PROVE MailInv'
  BY <1>1, <1>6 DEF ChangePrefs
<1>7. CASE UNCHANGED notices
  BY <1>1, <1>7 DEF notices
<1> QED
  BY <1>2, <1>3, <1>4, <1>5, <1>6, <1>7 DEF NoticesNext

LEMMA NoticesTyped == MailInv /\ PhoneInv => NoticesTypeOK
<1> SUFFICES ASSUME MailInv, PhoneInv PROVE NoticesTypeOK
  OBVIOUS
<1>1. mail \in [Letters -> 0 .. MaxPosts] /\ inbox \in [Letters -> 0 .. MaxPosts]
  <2>1. \A l \in Letters : mail[l] \in 0 .. MaxPosts /\ inbox[l] \in 0 .. MaxPosts
    BY NoticesAssumption, HandsAreFinite DEF MailInv, MailTypes, CopiesWait, RowsToCome
  <2> QED
    BY <2>1 DEF MailInv, MailTypes
<1> QED
  BY <1>1 DEF MailInv, MailTypes, HandRows, PhoneInv, SignerRows, NoticesTypeOK

-----------------------------------------------------------------------------
(* UsageMetrics: what is marked, logged and counted.                       *)

KeeperRows == [at : {"idle", "checked", "marked", "logged"}, fact : Facts \cup {NoFact}]

Keeping(f) == {k \in Keepers : keeper[k].fact = f}

\* Those that may still log it.
Loggers(f) == {k \in Keepers : keeper[k].fact = f /\ keeper[k].at \in {"checked", "marked"}}

IsFault(f) == SortOf[f] = "fault"

FactTypes ==
  /\ factMail \in [Facts -> Nat] /\ factPosts \in [Facts -> 0 .. MaxFacts] /\ logged \in [Facts -> Nat]
  /\ metric \in [Tables -> SUBSET Facts]
  /\ snapshot \in [sessions : Nat, payments : Nat]
  /\ factMet \cup factCut \subseteq Facts
  /\ keeper \in [Keepers -> KeeperRows]
  /\ \A k \in Keepers :
       /\ keeper[k].at = "idle" <=> keeper[k].fact = NoFact
       /\ keeper[k].at = "idle" => keeper[k] = FreeKeeper

FactsWait == \A f \in Facts : Cardinality(Keeping(f)) <= factMail[f] /\ factMail[f] <= factPosts[f]

UnmarkedIsUnlogged ==
  \A f \in Facts : ~IsFault(f) /\ <<f, 0>> \notin factKeys =>
    logged[f] = 0 /\ \A k \in Keepers : keeper[k].fact = f => keeper[k].at = "checked"

\* Rows of the log, and rows that may be: no more than copies; one, if none were looked up
\* at once.
LogsToCome ==
  \A f \in Facts : ~IsFault(f) =>
    /\ logged[f] + Cardinality(Loggers(f)) <= MaxFacts
    /\ f \notin factMet => logged[f] + Cardinality(Loggers(f)) <= 1

UsageInv == FactTypes /\ FactsWait /\ UnmarkedIsUnlogged /\ LogsToCome

LEMMA KeepersAreFinite ==
  \A f : /\ IsFiniteSet(Keeping(f)) /\ IsFiniteSet(Loggers(f))
         /\ Cardinality(Keeping(f)) \in Nat /\ Cardinality(Loggers(f)) \in Nat
  BY UsageAssumption, CountLess DEF Keeping, Loggers

LEMMA FreeKeeperIsFree ==
  FreeKeeper \in KeeperRows /\ FreeKeeper.at = "idle" /\ FreeKeeper.fact = NoFact
  BY DEF FreeKeeper, KeeperRows

LEMMA UsageStarts == ASSUME UsageInit PROVE UsageInv
<1> USE UsageAssumption DEF UsageInit
<1>1. FactTypes
  BY DEF FactTypes, KeeperRows, FreeKeeper
<1>2. \A f \in Facts :
        /\ Cardinality(Keeping(f)) = 0 /\ Cardinality(Loggers(f)) = 0
        /\ factMail[f] = 0 /\ factPosts[f] = 0 /\ logged[f] = 0
  <2> TAKE f \in Facts
  <2>1. Keeping(f) = {} /\ Loggers(f) = {}
    BY DEF Keeping, Loggers, FreeKeeper
  <2> QED
    BY <2>1, FS_EmptySet
<1>3. FactsWait /\ LogsToCome
  BY <1>2 DEF FactsWait, LogsToCome
<1>4. UnmarkedIsUnlogged
  BY DEF UnmarkedIsUnlogged, FreeKeeper
<1> QED
  BY <1>1, <1>3, <1>4 DEF UsageInv

LEMMA PostFactKeeps == ASSUME UsageInv, NEW f \in Facts, PostFact(f) \/ SkipFact(f) PROVE UsageInv'
<1> USE UsageAssumption DEF UsageInv
<1>1. /\ UNCHANGED <<factKeys, keeper, logged, metric, snapshot, factMet, factCut>>
      /\ \/ factPosts[f] < MaxFacts /\ factPosts' = [factPosts EXCEPT ![f] = @ + 1]
            /\ factMail' = [factMail EXCEPT ![f] = @ + 1]
         \/ factMail[f] > Cardinality(Keeping(f)) /\ factMail' = [factMail EXCEPT ![f] = @ - 1]
            /\ factPosts' = factPosts
  BY DEF PostFact, SkipFact, FactIsDelivered, Keeping
<1>2. \A g : Keeping(g)' = Keeping(g) /\ Loggers(g)' = Loggers(g)
  BY <1>1 DEF Keeping, Loggers
<1>3. FactTypes' /\ FactsWait'
  <2>1. CASE factPosts[f] < MaxFacts /\ factPosts' = [factPosts EXCEPT ![f] = @ + 1]
             /\ factMail' = [factMail EXCEPT ![f] = @ + 1]
    BY <1>1, <1>2, <2>1, KeepersAreFinite DEF FactTypes, FactsWait
  <2>2. CASE factMail[f] > Cardinality(Keeping(f)) /\ factMail' = [factMail EXCEPT ![f] = @ - 1]
             /\ factPosts' = factPosts
    BY <1>1, <1>2, <2>2, KeepersAreFinite DEF FactTypes, FactsWait
  <2> QED
    BY <1>1, <2>1, <2>2
<1>4. LogsToCome' /\ UnmarkedIsUnlogged'
  BY <1>1, <1>2 DEF LogsToCome, UnmarkedIsUnlogged
<1> QED
  BY <1>3, <1>4

LEMMA TakeFactKeeps == ASSUME UsageInv, NEW f \in Facts, NEW k \in Keepers, TakeFact(k, f) PROVE UsageInv'
<1> USE UsageAssumption DEF UsageInv
<1>1. /\ keeper[k] = FreeKeeper /\ factMail[f] > Cardinality(Keeping(f))
      /\ ~IsFault(f) => <<f, 0>> \notin factKeys
      /\ keeper' = [keeper EXCEPT ![k] = [at |-> "checked", fact |-> f]]
      /\ factMet' = IF \E j \in Keepers : keeper[j] = [at |-> "checked", fact |-> f] THEN factMet \cup {f} ELSE factMet
      /\ UNCHANGED <<factMail, factPosts, factKeys, logged, metric, snapshot, factCut>>
  BY DEF TakeFact, FactIsDelivered, Keeping, KeyOfFact, IsFault
<1>2. FactTypes'
  BY <1>1 DEF FactTypes, KeeperRows
<1>3. \A g \in Facts : g # f => Keeping(g)' = Keeping(g) /\ Loggers(g)' = Loggers(g)
  BY <1>1 DEF Keeping, Loggers, FactTypes, FreeKeeper
<1>4. Keeping(f)' \subseteq Keeping(f) \cup {k} /\ Loggers(f)' \subseteq Loggers(f) \cup {k}
  BY <1>1 DEF Keeping, Loggers, FactTypes
<1>5. /\ Cardinality(Keeping(f)') <= Cardinality(Keeping(f)) + 1 /\ Cardinality(Keeping(f)') \in Nat
      /\ Cardinality(Loggers(f)') <= Cardinality(Loggers(f)) + 1 /\ Cardinality(Loggers(f)') \in Nat
  <2>1. IsFiniteSet(Keeping(f)) /\ IsFiniteSet(Loggers(f))
    BY KeepersAreFinite
  <2>2. Cardinality(Keeping(f)') <= Cardinality(Keeping(f)) + 1 /\ Cardinality(Keeping(f)') \in Nat
    BY <1>4, <2>1, CountMore
  <2>3. Cardinality(Loggers(f)') <= Cardinality(Loggers(f)) + 1 /\ Cardinality(Loggers(f)') \in Nat
    BY <1>4, <2>1, CountMore
  <2> QED
    BY <2>2, <2>3
<1>6. FactsWait'
  <2> SUFFICES ASSUME NEW g \in Facts PROVE Cardinality(Keeping(g)') <= factMail[g] /\ factMail[g] <= factPosts[g]
    BY <1>1 DEF FactsWait
  <2>1. factMail[f] \in Nat /\ Cardinality(Keeping(f)) \in Nat
    BY KeepersAreFinite DEF FactTypes
  <2>2. CASE g = f
    BY <1>1, <1>5, <2>1, <2>2 DEF FactsWait
  <2>3. CASE g # f
    BY <1>3, <2>3 DEF FactsWait
  <2> QED
    BY <2>2, <2>3
<1>7. ASSUME ~IsFault(f)
      PROVE  /\ logged[f] + Cardinality(Loggers(f)') <= MaxFacts
             /\ f \notin factMet' => logged[f] + Cardinality(Loggers(f)') <= 1
  <2>1. logged[f] = 0 /\ Loggers(f) = Keeping(f) /\ \A j \in Keepers : keeper[j].fact = f => keeper[j].at = "checked"
    BY <1>1, <1>7 DEF UnmarkedIsUnlogged, Loggers, Keeping
  <2>2. factMail[f] \in Nat /\ factPosts[f] \in 0 .. MaxFacts /\ factMail[f] <= factPosts[f]
    BY DEF FactTypes, FactsWait
  <2>3. logged[f] + Cardinality(Loggers(f)') <= MaxFacts
    BY <1>1, <1>5, <2>1, <2>2, KeepersAreFinite
  <2>4. ASSUME f \notin factMet' PROVE logged[f] + Cardinality(Loggers(f)') <= 1
    <3>1. Loggers(f) = {}
      BY <1>1, <2>1, <2>4 DEF Loggers, FactTypes, KeeperRows
    <3>2. Cardinality(Loggers(f)) = 0
      BY <3>1, FS_EmptySet
    <3> QED
      BY <1>5, <2>1, <3>2
  <2> QED
    BY <2>3, <2>4
<1>8. LogsToCome'
  <2>1. \A g \in Facts : g # f => logged'[g] = logged[g] /\ Loggers(g)' = Loggers(g) /\ (g \in factMet' <=> g \in factMet)
    BY <1>1, <1>3
  <2> QED
    BY <1>1, <1>7, <2>1 DEF LogsToCome, IsFault
<1>9. UnmarkedIsUnlogged'
  BY <1>1 DEF UnmarkedIsUnlogged, FactTypes
<1> QED
  BY <1>2, <1>6, <1>8, <1>9

\* A handler marks its event, logs it, adds it to the tables, or is done with it.
KeeperGoes(k, f, row) ==
  /\ keeper[k].fact = f /\ keeper[k].at # "idle"
  /\ keeper' = [keeper EXCEPT ![k] = row] /\ row \in KeeperRows
  /\ \/ row = FreeKeeper
     \/ /\ keeper[k].at # "logged"
        /\ row.fact = f /\ row.at \in {"marked", "logged"} /\ (IsFault(f) \/ <<f, 0>> \in factKeys')
  /\ factKeys \subseteq factKeys'
  /\ \/ UNCHANGED factMail
     \/ row = FreeKeeper /\ factMail' = [factMail EXCEPT ![f] = @ - 1]
  /\ \/ UNCHANGED logged
     \/ keeper[k].at = "marked" /\ row.at # "marked" /\ logged' = [logged EXCEPT ![f] = @ + 1]
  /\ metric' \in [Tables -> SUBSET Facts] /\ factCut' \subseteq Facts
  /\ UNCHANGED <<factPosts, snapshot, factMet>>

LEMMA KeeperSteps ==
  ASSUME UsageInv, NEW k \in Keepers, MarkFact(k) \/ LogFact(k) \/ Aggregate(k) \/ KeeperDies(k)
  PROVE  \E f \in Facts : \E row : KeeperGoes(k, f, row)
<1> USE DEF UsageInv, FactTypes
<1>0. keeper[k].at # "idle"
  BY DEF MarkFact, LogFact, Aggregate, KeeperDies
<1>1. PICK f \in Facts : f = keeper[k].fact
  BY <1>0 DEF KeeperRows
<1>2. ASSUME MarkFact(k) PROVE KeeperGoes(k, f, [keeper[k] EXCEPT !.at = "marked"])
  <2>1. IsFault(f) \/ <<f, 0>> \in factKeys'
    BY <1>1, <1>2 DEF MarkFact, KeyOfFact, IsFault
  <2>2. keeper' = [keeper EXCEPT ![k] = [keeper[k] EXCEPT !.at = "marked"]]
    BY <1>2 DEF MarkFact
  <2> QED
    BY <1>0, <1>1, <1>2, <2>1, <2>2 DEF MarkFact, KeeperGoes, KeeperRows
<1>3. ASSUME LogFact(k) PROVE \E row : KeeperGoes(k, f, row)
  <2>1. CASE Targets(f) = {}
    <3>1. KeeperGoes(k, f, FreeKeeper)
      BY <1>0, <1>1, <1>3, <2>1, FreeKeeperIsFree DEF LogFact, KeeperGoes
    <3> QED
      BY <3>1
  <2>2. CASE Targets(f) # {}
    <3>1. keeper' = [keeper EXCEPT ![k] = [at |-> "logged", fact |-> f]]
      BY <1>1, <1>3, <2>2 DEF LogFact, KeeperRows
    <3>2. IsFault(f) \/ <<f, 0>> \in factKeys
      BY <1>1, <1>3 DEF LogFact, UnmarkedIsUnlogged
    <3>3. KeeperGoes(k, f, [at |-> "logged", fact |-> f])
      BY <1>0, <1>1, <1>3, <2>2, <3>1, <3>2 DEF LogFact, KeeperGoes, KeeperRows
    <3> QED
      BY <3>3
  <2> QED
    BY <2>1, <2>2
<1>4. ASSUME Aggregate(k) PROVE KeeperGoes(k, f, FreeKeeper)
  <2>1. metric' \in [Tables -> SUBSET Facts]
    BY <1>1, <1>4 DEF Aggregate
  <2> QED
    BY <1>0, <1>1, <1>4, <2>1, FreeKeeperIsFree DEF Aggregate, KeeperGoes
<1>5. ASSUME KeeperDies(k) PROVE KeeperGoes(k, f, FreeKeeper)
  BY <1>0, <1>1, <1>5, FreeKeeperIsFree DEF KeeperDies, KeeperGoes
<1> QED
  BY <1>1, <1>2, <1>3, <1>4, <1>5

LEMMA KeeperGoesKeeps ==
  ASSUME UsageInv, NEW k \in Keepers, NEW f \in Facts, NEW row, KeeperGoes(k, f, row)
  PROVE  UsageInv'
<1> USE UsageAssumption DEF UsageInv
<1>1. /\ keeper[k].fact = f /\ keeper[k].at # "idle"
      /\ keeper' = [keeper EXCEPT ![k] = row] /\ row \in KeeperRows
      /\ row = FreeKeeper \/ (row.fact = f /\ row.at \in {"marked", "logged"})
      /\ UNCHANGED <<factPosts, snapshot, factMet>>
  BY DEF KeeperGoes
<1>2. ASSUME NEW g \in Facts
      PROVE  /\ Cardinality(Keeping(g)') \in Nat /\ Cardinality(Loggers(g)') \in Nat
             /\ Cardinality(Keeping(g)') <= Cardinality(Keeping(g))
             /\ Cardinality(Loggers(g)') <= Cardinality(Loggers(g))
             /\ g = f /\ row = FreeKeeper => Cardinality(Keeping(g)') <= Cardinality(Keeping(g)) - 1
             /\ g = f /\ keeper[k].at = "marked" /\ row.at # "marked" =>
                  Cardinality(Loggers(g)') <= Cardinality(Loggers(g)) - 1
  <2>1. IsFiniteSet(Keeping(g)) /\ IsFiniteSet(Loggers(g))
    BY KeepersAreFinite
  <2>2. Keeping(g)' \subseteq Keeping(g) /\ Loggers(g)' \subseteq Loggers(g)
    <3>1. \A j \in Keepers : j # k => keeper'[j] = keeper[j]
      BY <1>1 DEF FactTypes
    <3>2. \/ row.fact = NoFact
          \/ row.fact = keeper[k].fact /\ (row.at \in {"checked", "marked"} => keeper[k].at \in {"checked", "marked"})
      BY <1>1, FreeKeeperIsFree DEF KeeperGoes, FactTypes, KeeperRows
    <3>3. keeper'[k] = row /\ g # NoFact
      BY <1>1, <1>2 DEF FactTypes
    <3> QED
      BY <3>1, <3>2, <3>3 DEF Keeping, Loggers
  <2>3. ASSUME g = f, row = FreeKeeper PROVE Cardinality(Keeping(g)') <= Cardinality(Keeping(g)) - 1
    <3>1. k \in Keeping(g) /\ Keeping(g)' \subseteq Keeping(g) \ {k}
      BY <1>1, <1>2, <2>2, <2>3, FreeKeeperIsFree DEF Keeping, FactTypes
    <3> QED
      BY <2>1, <3>1, CountFewer
  <2>4. ASSUME g = f, keeper[k].at = "marked", row.at # "marked"
        PROVE  Cardinality(Loggers(g)') <= Cardinality(Loggers(g)) - 1
    <3>1. k \in Loggers(g) /\ Loggers(g)' \subseteq Loggers(g) \ {k}
      BY <1>1, <1>2, <2>2, <2>4, FreeKeeperIsFree DEF Loggers, FactTypes
    <3> QED
      BY <2>1, <3>1, CountFewer
  <2>5. Cardinality(Keeping(g)') \in Nat /\ Cardinality(Keeping(g)') <= Cardinality(Keeping(g))
    BY <2>1, <2>2, CountLess
  <2>6. Cardinality(Loggers(g)') \in Nat /\ Cardinality(Loggers(g)') <= Cardinality(Loggers(g))
    BY <2>1, <2>2, CountLess
  <2> QED
    BY <2>3, <2>4, <2>5, <2>6
<1>3. factMail[f] \in Nat /\ factMail[f] > 0 /\ logged[f] \in Nat
  <2>1. k \in Keeping(f)
    BY <1>1 DEF Keeping
  <2>2. Cardinality(Keeping(f)) # 0
    BY <2>1, KeepersAreFinite, FS_EmptySet
  <2> QED
    BY <2>2, KeepersAreFinite DEF FactTypes, FactsWait
<1>4. FactTypes'
  <2>1. factMail' \in [Facts -> Nat]
    <3>1. CASE UNCHANGED factMail
      BY <3>1 DEF FactTypes
    <3>2. CASE factMail' = [factMail EXCEPT ![f] = @ - 1]
      BY <1>3, <3>2 DEF FactTypes
    <3> QED
      BY <3>1, <3>2 DEF KeeperGoes
  <2>2. logged' \in [Facts -> Nat]
    <3>1. CASE UNCHANGED logged
      BY <3>1 DEF FactTypes
    <3>2. CASE logged' = [logged EXCEPT ![f] = @ + 1]
      BY <1>3, <3>2 DEF FactTypes
    <3> QED
      BY <3>1, <3>2 DEF KeeperGoes
  <2>3. keeper' \in [Keepers -> KeeperRows]
    BY <1>1 DEF FactTypes
  <2>4. \A j \in Keepers :
          /\ keeper'[j].at = "idle" <=> keeper'[j].fact = NoFact
          /\ keeper'[j].at = "idle" => keeper'[j] = FreeKeeper
    BY <1>1, FreeKeeperIsFree DEF FactTypes
  <2> QED
    BY <1>1, <2>1, <2>2, <2>3, <2>4 DEF FactTypes, KeeperGoes
<1>5. FactsWait'
  <2> SUFFICES ASSUME NEW g \in Facts PROVE Cardinality(Keeping(g)') <= factMail'[g] /\ factMail'[g] <= factPosts[g]
    BY <1>1 DEF FactsWait
  <2>1. /\ factMail[g] \in Nat /\ factPosts[g] \in Nat /\ Cardinality(Keeping(g)) \in Nat
        /\ Cardinality(Keeping(g)) <= factMail[g] /\ factMail[g] <= factPosts[g]
    BY KeepersAreFinite DEF FactTypes, FactsWait
  <2>2. CASE factMail'[g] = factMail[g]
    BY <1>2, <2>1, <2>2
  <2>3. CASE g = f /\ row = FreeKeeper /\ factMail'[g] = factMail[g] - 1
    BY <1>2, <2>1, <2>3
  <2>4. factMail'[g] = factMail[g] \/ (g = f /\ row = FreeKeeper /\ factMail'[g] = factMail[g] - 1)
    BY DEF KeeperGoes, FactTypes
  <2> QED
    BY <2>2, <2>3, <2>4
<1>6. LogsToCome'
  <2> SUFFICES ASSUME NEW g \in Facts, ~IsFault(g)
               PROVE  /\ logged'[g] + Cardinality(Loggers(g)') <= MaxFacts
                      /\ g \notin factMet => logged'[g] + Cardinality(Loggers(g)') <= 1
    BY <1>1 DEF LogsToCome, IsFault
  <2>1. /\ logged[g] \in Nat /\ Cardinality(Loggers(g)) \in Nat
        /\ logged[g] + Cardinality(Loggers(g)) <= MaxFacts
        /\ g \notin factMet => logged[g] + Cardinality(Loggers(g)) <= 1
    BY KeepersAreFinite DEF FactTypes, LogsToCome
  <2>2. logged'[g] = logged[g]
        \/ (g = f /\ keeper[k].at = "marked" /\ row.at # "marked" /\ logged'[g] = logged[g] + 1)
    BY DEF KeeperGoes, FactTypes
  <2>3. logged'[g] + Cardinality(Loggers(g)') <= logged[g] + Cardinality(Loggers(g)) /\ Cardinality(Loggers(g)') \in Nat
    BY <1>2, <2>1, <2>2
  <2>4. logged'[g] \in Nat
    BY <2>1, <2>2
  <2> QED
    BY <2>1, <2>3, <2>4
<1>7. UnmarkedIsUnlogged'
  <2> SUFFICES ASSUME NEW g \in Facts, ~IsFault(g), <<g, 0>> \notin factKeys'
               PROVE  logged'[g] = 0 /\ \A j \in Keepers : keeper'[j].fact = g => keeper'[j].at = "checked"
    BY DEF UnmarkedIsUnlogged, IsFault
  <2>1. logged[g] = 0 /\ \A j \in Keepers : keeper[j].fact = g => keeper[j].at = "checked"
    BY DEF UnmarkedIsUnlogged, KeeperGoes
  <2>2. logged'[g] = 0
    BY <1>1, <2>1 DEF KeeperGoes, FactTypes
  <2>3. ASSUME NEW j \in Keepers, keeper'[j].fact = g PROVE keeper'[j].at = "checked"
    <3>1. j # k
      BY <1>1, <2>3, FreeKeeperIsFree DEF KeeperGoes, FactTypes
    <3> QED
      BY <1>1, <2>1, <2>3, <3>1 DEF FactTypes
  <2> QED
    BY <2>2, <2>3
<1> QED
  BY <1>4, <1>5, <1>6, <1>7

LEMMA UsageStep == ASSUME UsageInv, [UsageNext]_usage PROVE UsageInv'
<1>1. CASE UNCHANGED <<factMail, factPosts, factKeys, keeper, logged, metric, factMet, factCut>>
           /\ snapshot' \in [sessions : Nat, payments : Nat]
  <2>1. \A f : Keeping(f)' = Keeping(f) /\ Loggers(f)' = Loggers(f)
    BY <1>1 DEF Keeping, Loggers
  <2> QED
    BY <1>1, <2>1 DEF UsageInv, FactTypes, FactsWait, UnmarkedIsUnlogged, LogsToCome
<1>2. ASSUME NEW f \in Facts, PostFact(f) \/ SkipFact(f) \/ (\E k \in Keepers : TakeFact(k, f)) PROVE UsageInv'
  BY <1>2, PostFactKeeps, TakeFactKeeps
<1>3. ASSUME NEW k \in Keepers, MarkFact(k) \/ LogFact(k) \/ Aggregate(k) \/ KeeperDies(k) PROVE UsageInv'
  BY <1>3, KeeperSteps, KeeperGoesKeeps
<1>4. ASSUME CaptureKpi PROVE UsageInv'
  <2>1. \A sort : Count(sort) \in Nat
    BY UsageAssumption, CountLess DEF Count
  <2> QED
    BY <1>1, <1>4, <2>1 DEF CaptureKpi
<1>5. CASE UNCHANGED usage
  BY <1>1, <1>5 DEF usage, UsageInv, FactTypes
<1> QED
  BY <1>2, <1>3, <1>4, <1>5 DEF UsageNext

LEMMA UsageTyped == UsageInv => UsageTypeOK /\ FactIsLoggedOnce
<1> SUFFICES ASSUME UsageInv PROVE UsageTypeOK /\ FactIsLoggedOnce
  OBVIOUS
<1>1. \A f \in Facts : factMail[f] \in 0 .. MaxFacts
  BY UsageAssumption, KeepersAreFinite DEF UsageInv, FactTypes, FactsWait
<1>2. UsageTypeOK
  BY <1>1 DEF UsageInv, FactTypes, KeeperRows, UsageTypeOK
<1>3. FactIsLoggedOnce
  <2> SUFFICES ASSUME NEW f \in Facts, ~IsFault(f) PROVE logged[f] <= IF f \in factMet THEN MaxFacts ELSE 1
    BY DEF FactIsLoggedOnce, IsFault
  <2>1. logged[f] \in Nat /\ Cardinality(Loggers(f)) \in Nat
    BY KeepersAreFinite DEF UsageInv, FactTypes
  <2> QED
    BY <2>1, UsageAssumption DEF UsageInv, LogsToCome
<1> QED
  BY <1>2, <1>3

-----------------------------------------------------------------------------
(* Telemetry: readings stored, told and archived.                          *)

TakerRows ==
  [at : {"idle", "checked", "found", "stored", "told"},
   reading : Readings \cup {NoReading}, run : Runs \cup {NoRun}]

ReadingTypes ==
  /\ run \in [Runs -> {"none", "active", "over"}]
  /\ sent \cup seenIds \cup late \cup again \subseteq Readings
  /\ line \in [Readings -> 0 .. 1]
  /\ stored \in [Readings -> Seq(Runs)] /\ told \in [Readings -> Nat]
  /\ taker \in [Takers -> TakerRows]
  /\ \A w \in Takers :
       /\ taker[w].at = "idle" <=> taker[w].reading = NoReading
       /\ taker[w].at = "idle" => taker[w] = FreeTaker
       /\ taker[w].at \in {"found", "stored", "told"} => taker[w].run \in Runs

\* One session at a time, begun before it is measured.
RunsInOrder ==
  /\ \A s, t \in Runs : run[s] = "active" /\ run[t] = "active" => s = t
  /\ \A r \in sent : run[RunOf[r]] # "none"

\* A reading has one copy, which one handler at a time has, and none once it is marked.
OneTaker ==
  \A r \in Readings :
    /\ line[r] = 1 => r \in sent
    /\ \A w \in Takers : taker[w].reading = r => line[r] = 1 /\ r \notin seenIds
    /\ \A w, v \in Takers : taker[w].reading = r /\ taker[v].reading = r => w = v

\* The session a handler has found is the reading's own, or the next one.
FoundItsSession ==
  \A w \in Takers :
    taker[w].at \in {"found", "stored", "told"} =>
      taker[w].run = RunOf[taker[w].reading] \/ taker[w].reading \in late \ Named

\* What is told was stored, and before the mark a reading is stored as often as its
\* handler is along.
StoredInOrder ==
  /\ \A r \in Readings :
       /\ told[r] > 0 => stored[r] # <<>>
       /\ r \in seenIds /\ stored[r] = <<>> => r \notin Named
       /\ r \notin again => Len(stored[r]) <= 1 /\ told[r] <= 1
       /\ r \notin again \cup seenIds /\ (\A w \in Takers : taker[w].reading = r => taker[w].at \in {"checked", "found"}) =>
            stored[r] = <<>>
  /\ \A w \in Takers :
       /\ taker[w].at \in {"stored", "told"} => stored[taker[w].reading] # <<>>
       /\ taker[w].at = "stored" /\ taker[w].reading \notin again => told[taker[w].reading] = 0

ReadingInv ==
  ReadingTypes /\ RunsInOrder /\ OneTaker /\ FoundItsSession /\ StoredInOrder /\ ReadingHasItsSession

ArchiveTypes ==
  /\ publishing \cup dropped \subseteq Readings
  /\ batch \in Seq(Readings) /\ hot \in Seq(Readings)
  /\ inserting \subseteq Seq(Readings) /\ IsFiniteSet(inserting)
  /\ cold \in [Readings -> Nat]

Batches(r) == {b \in inserting : r \in Elements(b)}

One(here) == IF here THEN 1 ELSE 0

\* Every reading that came by HTTP is in one place, the others are in none.
ArchivedOnce ==
  \A r \in Readings :
    One(r \in publishing) + One(r \in Elements(hot)) + Cardinality(Batches(r)) + cold[r] + One(r \in dropped)
      = One(r \in sent \cap Named)

ArchiveInv == ArchiveTypes /\ ArchivedOnce

LEMMA ElementsOf ==
  ASSUME NEW S, NEW q \in Seq(S), NEW e \in S
  PROVE  /\ Append(q, e) \in Seq(S) /\ Append(q, e) # <<>> /\ Len(Append(q, e)) = Len(q) + 1
         /\ Elements(Append(q, e)) = Elements(q) \cup {e}
         /\ Elements(q) \subseteq S
<1>1. /\ Append(q, e) \in Seq(S) /\ Len(Append(q, e)) = Len(q) + 1 /\ Len(q) \in Nat
      /\ \A i \in 1 .. Len(q) : Append(q, e)[i] = q[i] /\ q[i] \in S
      /\ Append(q, e)[Len(q) + 1] = e
  OBVIOUS
<1>2. Append(q, e) # <<>>
  BY <1>1
<1>3. Elements(Append(q, e)) = Elements(q) \cup {e}
  <2>1. 1 .. Len(q) + 1 = (1 .. Len(q)) \cup {Len(q) + 1}
    BY <1>1
  <2> QED
    BY <1>1, <2>1 DEF Elements
<1>4. Elements(q) \subseteq S
  BY <1>1 DEF Elements
<1> QED
  BY <1>1, <1>2, <1>3, <1>4

LEMMA NoElements == Elements(<<>>) = {}
  BY DEF Elements

LEMMA FreeTakerIsFree ==
  FreeTaker \in TakerRows /\ FreeTaker.at = "idle" /\ FreeTaker.reading = NoReading
  BY DEF FreeTaker, TakerRows

\* The rows a handler goes through.
LEMMA TakerRow ==
  ASSUME ReadingTypes, NEW w \in Takers
  PROVE  /\ \A r \in Readings : [taker[w] EXCEPT !.at = "checked", !.reading = r] \in TakerRows
         /\ \A s \in Runs : [taker[w] EXCEPT !.at = "found", !.run = s] \in TakerRows
         /\ [taker[w] EXCEPT !.at = "stored"] \in TakerRows
         /\ [taker[w] EXCEPT !.at = "told"] \in TakerRows
<1>1. taker[w] \in TakerRows
  BY DEF ReadingTypes
<1>2. \A r \in Readings : [taker[w] EXCEPT !.at = "checked", !.reading = r] \in TakerRows
  BY <1>1 DEF TakerRows
<1>3. \A s \in Runs : [taker[w] EXCEPT !.at = "found", !.run = s] \in TakerRows
  BY <1>1 DEF TakerRows
<1>4. [taker[w] EXCEPT !.at = "stored"] \in TakerRows /\ [taker[w] EXCEPT !.at = "told"] \in TakerRows
  BY <1>1 DEF TakerRows
<1> QED
  BY <1>2, <1>3, <1>4

LEMMA ReadingStarts == ASSUME TelemetryInit PROVE ReadingInv
<1> USE TelemetryAssumption DEF TelemetryInit
<1>1. ReadingTypes
  BY DEF ReadingTypes, TakerRows, FreeTaker
<1>2. RunsInOrder /\ OneTaker /\ FoundItsSession /\ StoredInOrder
  BY DEF RunsInOrder, OneTaker, FoundItsSession, StoredInOrder, FreeTaker
<1>3. ReadingHasItsSession
  BY NoElements DEF ReadingHasItsSession
<1> QED
  BY <1>1, <1>2, <1>3 DEF ReadingInv

\* A copy that is delivered is the only one, and nobody has it.
LEMMA DeliveredIsFree ==
  ASSUME ReadingInv, NEW r \in Readings, ReadingIsDelivered(r)
  PROVE  line[r] = 1 /\ \A w \in Takers : taker[w].reading # r
<1> DEFINE holding == {w \in Takers : taker[w].reading = r}
<1>1. IsFiniteSet(holding) /\ Cardinality(holding) \in Nat
  BY TelemetryAssumption, CountLess
<1>2. line[r] \in {0, 1} /\ line[r] > Cardinality(holding)
  BY DEF ReadingInv, ReadingTypes, ReadingIsDelivered
<1>3. line[r] = 1 /\ Cardinality(holding) = 0
  BY <1>1, <1>2
<1>4. holding = {}
  BY <1>1, <1>3, FS_EmptySet
<1> QED
  BY <1>3, <1>4

LEMMA RunKeeps == ASSUME ReadingInv, NEW s \in Runs, StartRun(s) \/ EndRun(s) PROVE ReadingInv'
<1> USE TelemetryAssumption DEF ReadingInv
<1>1. UNCHANGED <<sent, line, seenIds, taker, stored, told, late, again>>
  BY DEF StartRun, EndRun
<1>2. run' \in [Runs -> {"none", "active", "over"}]
  BY DEF StartRun, EndRun, ReadingTypes
<1>3. \A t, u \in Runs : run'[t] = "active" /\ run'[u] = "active" => t = u
  BY DEF StartRun, EndRun, ReadingTypes, RunsInOrder, ActiveRuns
<1>4. \A t \in Runs : run[t] # "none" => run'[t] # "none"
  BY DEF StartRun, EndRun, ReadingTypes
<1>5. RunsInOrder'
  BY <1>1, <1>3, <1>4 DEF RunsInOrder, ReadingTypes
<1> QED
  BY <1>1, <1>2, <1>5 DEF ReadingTypes, OneTaker, FoundItsSession, StoredInOrder, ReadingHasItsSession

LEMMA SendKeeps == ASSUME ReadingInv, NEW r \in Readings, MeterValues(r) \/ Ingest(r) PROVE ReadingInv'
<1> USE TelemetryAssumption DEF ReadingInv
<1>1. /\ run[RunOf[r]] # "none" /\ sent' = sent \cup {r}
      /\ line' \in {line, [line EXCEPT ![r] = 1]}
      /\ UNCHANGED <<run, seenIds, taker, stored, told, late, again>>
  BY DEF MeterValues, Ingest, IsMeasured
<1>2. line' \in [Readings -> 0 .. 1] /\ \A q \in Readings : line'[q] = line[q] \/ (q = r /\ line'[q] = 1)
  <2>1. CASE line' = line
    BY <2>1 DEF ReadingTypes
  <2>2. CASE line' = [line EXCEPT ![r] = 1]
    BY <2>2 DEF ReadingTypes
  <2> QED
    BY <1>1, <2>1, <2>2
<1>3. ReadingTypes'
  BY <1>1, <1>2 DEF ReadingTypes
<1>4. RunsInOrder' /\ OneTaker'
  BY <1>1, <1>2 DEF RunsInOrder, OneTaker
<1> QED
  BY <1>1, <1>3, <1>4 DEF FoundItsSession, StoredInOrder, ReadingHasItsSession

LEMMA SkipKeeps == ASSUME ReadingInv, NEW r \in Readings, SkipReading(r) PROVE ReadingInv'
<1> USE TelemetryAssumption DEF ReadingInv
<1>1. line[r] = 1 /\ \A w \in Takers : taker[w].reading # r
  BY DeliveredIsFree DEF SkipReading
<1>2. line' = [line EXCEPT ![r] = @ - 1] /\ UNCHANGED <<run, sent, seenIds, taker, stored, told, late, again>>
  BY DEF SkipReading
<1>3. ReadingTypes'
  BY <1>1, <1>2 DEF ReadingTypes
<1>4. OneTaker'
  BY <1>1, <1>2 DEF OneTaker, ReadingTypes
<1> QED
  BY <1>2, <1>3, <1>4 DEF RunsInOrder, FoundItsSession, StoredInOrder, ReadingHasItsSession

LEMMA TakeReadingKeeps ==
  ASSUME ReadingInv, NEW r \in Readings, NEW w \in Takers, TakeReading(w, r) PROVE ReadingInv'
<1> USE TelemetryAssumption DEF ReadingInv
<1>1. line[r] = 1 /\ \A v \in Takers : taker[v].reading # r
  BY DeliveredIsFree DEF TakeReading
<1>2. /\ r \notin seenIds /\ taker' = [taker EXCEPT ![w] = [taker[w] EXCEPT !.at = "checked", !.reading = r]]
      /\ taker[w].at = "idle" /\ taker[w].reading = NoReading
      /\ UNCHANGED <<run, sent, line, seenIds, stored, told, late, again>>
  BY FreeTakerIsFree DEF TakeReading
<1>3. taker'[w].at = "checked" /\ taker'[w].reading = r /\ \A v \in Takers : v # w => taker'[v] = taker[v]
  BY <1>2 DEF ReadingTypes, TakerRows
<1>4. ReadingTypes'
  <2>1. taker' \in [Takers -> TakerRows]
    <3>1. [taker[w] EXCEPT !.at = "checked", !.reading = r] \in TakerRows
      BY TakerRow
    <3> QED
      BY <1>2, <3>1 DEF ReadingTypes
  <2> QED
    BY <1>2, <1>3, <2>1 DEF ReadingTypes
<1>5. OneTaker' /\ FoundItsSession'
  BY <1>1, <1>2, <1>3 DEF OneTaker, FoundItsSession, ReadingTypes
<1>6. StoredInOrder'
  <2>1. /\ UNCHANGED <<seenIds, stored, told, again>> /\ taker[w].reading = NoReading
        /\ r \notin again => stored[r] = <<>>
    BY <1>1, <1>2 DEF StoredInOrder
  <2> QED
    BY <1>3, <2>1 DEF StoredInOrder
<1> QED
  BY <1>2, <1>4, <1>5, <1>6 DEF RunsInOrder, ReadingHasItsSession

\* A handler has the only copy of its reading.
LEMMA HasTheCopy ==
  ASSUME ReadingInv, NEW w \in Takers, taker[w].at # "idle"
  PROVE  \E r \in Readings :
           /\ taker[w].reading = r /\ line[r] = 1 /\ r \in sent /\ r \notin seenIds
           /\ \A v \in Takers : v # w => taker[v].reading # r
  BY DEF ReadingInv, ReadingTypes, TakerRows, OneTaker

LEMMA ResolveKeeps == ASSUME ReadingInv, NEW w \in Takers, Resolve(w) PROVE ReadingInv'
<1> USE TelemetryAssumption DEF ReadingInv
<1>0. taker[w].at = "checked"
  BY DEF Resolve
<1>1. PICK r \in Readings :
        /\ taker[w].reading = r /\ line[r] = 1 /\ r \in sent /\ r \notin seenIds
        /\ \A v \in Takers : v # w => taker[v].reading # r
  BY <1>0, HasTheCopy
<1>2. /\ late' = IF run[RunOf[r]] = "over" THEN late \cup {r} ELSE late
      /\ UNCHANGED <<run, sent, stored, told, again>>
      /\ \/ /\ Found(r) = {}
            /\ seenIds' = seenIds \cup {r} /\ line' = [line EXCEPT ![r] = @ - 1]
            /\ taker' = [taker EXCEPT ![w] = FreeTaker]
         \/ /\ \E s \in Found(r) : taker' = [taker EXCEPT ![w] = [taker[w] EXCEPT !.at = "found", !.run = s]]
            /\ UNCHANGED <<seenIds, line>>
  BY <1>1 DEF Resolve
<1>3. late \subseteq late' /\ late' \subseteq Readings
  BY <1>2 DEF ReadingTypes
<1>4. ReadingHasItsSession' /\ RunsInOrder'
  BY <1>2, <1>3 DEF ReadingHasItsSession, RunsInOrder
<1>5. CASE /\ Found(r) = {}
           /\ seenIds' = seenIds \cup {r} /\ line' = [line EXCEPT ![r] = @ - 1]
           /\ taker' = [taker EXCEPT ![w] = FreeTaker]
  <2>1. taker'[w] = FreeTaker /\ \A v \in Takers : v # w => taker'[v] = taker[v]
    BY <1>5 DEF ReadingTypes
  <2>2. line'[r] = 0 /\ \A q \in Readings : q # r => line'[q] = line[q]
    BY <1>1, <1>5 DEF ReadingTypes
  <2>3. r \notin Named
    BY <1>5 DEF Found
  <2>4. ReadingTypes'
    <3>1. taker' \in [Takers -> TakerRows] /\ line' \in [Readings -> 0 .. 1]
      BY <1>1, <1>5, FreeTakerIsFree DEF ReadingTypes
    <3> QED
      BY <1>2, <1>3, <1>5, <2>1, <3>1, FreeTakerIsFree DEF ReadingTypes
  <2>5. OneTaker'
    BY <1>1, <1>2, <1>5, <2>1, <2>2, FreeTakerIsFree DEF OneTaker
  <2>6. FoundItsSession'
    BY <1>3, <2>1, FreeTakerIsFree DEF FoundItsSession
  <2>7. StoredInOrder'
    BY <1>0, <1>1, <1>2, <1>5, <2>1, <2>3, FreeTakerIsFree DEF StoredInOrder
  <2> QED
    BY <1>4, <2>4, <2>5, <2>6, <2>7
<1>6. ASSUME NEW s \in Found(r),
             taker' = [taker EXCEPT ![w] = [taker[w] EXCEPT !.at = "found", !.run = s]], UNCHANGED <<seenIds, line>>
      PROVE  ReadingInv'
  <2>1. /\ taker'[w].at = "found" /\ taker'[w].reading = r /\ taker'[w].run = s
        /\ \A v \in Takers : v # w => taker'[v] = taker[v]
    BY <1>1, <1>6 DEF ReadingTypes, TakerRows
  <2>0. UNCHANGED <<run, sent, stored, told, again, seenIds, line>>
    BY <1>2, <1>6
  <2>2. s \in Runs /\ (s = RunOf[r] \/ r \in late' \ Named)
    <3>1. CASE r \in Named
      <4>1. s = RunOf[r]
        BY <3>1 DEF Found
      <4> QED
        BY <4>1
    <3>2. CASE r \notin Named
      <4>1. s \in Runs /\ run[s] = "active" /\ RunOf[r] \in Runs /\ run[RunOf[r]] \in {"active", "over"}
        BY <1>1, <3>2 DEF Found, ActiveRuns, RunsInOrder, ReadingTypes
      <4>2. run[RunOf[r]] = "active" => s = RunOf[r]
        BY <4>1 DEF RunsInOrder
      <4> QED
        BY <1>2, <3>2, <4>1, <4>2
    <3> QED
      BY <3>1, <3>2
  <2>3. ReadingTypes'
    <3>1. taker' \in [Takers -> TakerRows]
      <4>1. [taker[w] EXCEPT !.at = "found", !.run = s] \in TakerRows
        BY <2>2, TakerRow
      <4> QED
        BY <1>6, <4>1 DEF ReadingTypes
    <3> QED
      BY <1>3, <2>0, <2>1, <2>2, <3>1 DEF ReadingTypes
  <2>4. OneTaker'
    BY <1>1, <2>0, <2>1 DEF OneTaker
  <2>5. FoundItsSession'
    BY <1>3, <2>1, <2>2 DEF FoundItsSession
  <2>6. StoredInOrder'
    BY <1>0, <1>1, <2>0, <2>1 DEF StoredInOrder
  <2> QED
    BY <1>4, <2>3, <2>4, <2>5, <2>6
<1> QED
  BY <1>2, <1>5, <1>6

LEMMA StoreReadingKeeps == ASSUME ReadingInv, NEW w \in Takers, StoreReading(w) PROVE ReadingInv'
<1> USE TelemetryAssumption DEF ReadingInv
<1>0. taker[w].at = "found" /\ taker[w].run \in Runs
  BY DEF StoreReading, ReadingTypes
<1>1. PICK r \in Readings :
        /\ taker[w].reading = r /\ line[r] = 1 /\ r \in sent /\ r \notin seenIds
        /\ \A v \in Takers : v # w => taker[v].reading # r
  BY <1>0, HasTheCopy
<1>2. PICK s \in Runs : s = taker[w].run
  BY <1>0
<1>3. /\ stored' = [stored EXCEPT ![r] = Append(@, s)]
      /\ taker' = [taker EXCEPT ![w] = [taker[w] EXCEPT !.at = "stored"]]
      /\ UNCHANGED <<run, sent, line, seenIds, told, late, again>>
  BY <1>1, <1>2 DEF StoreReading
<1>4. /\ taker'[w].at = "stored" /\ taker'[w].reading = r /\ taker'[w].run = s
      /\ \A v \in Takers : v # w => taker'[v] = taker[v]
  BY <1>1, <1>2, <1>3 DEF ReadingTypes, TakerRows
<1>5. /\ stored[r] \in Seq(Runs) /\ stored'[r] \in Seq(Runs) /\ stored'[r] # <<>>
      /\ Len(stored'[r]) = Len(stored[r]) + 1
      /\ Elements(stored'[r]) = Elements(stored[r]) \cup {s}
      /\ \A q \in Readings : q # r => stored'[q] = stored[q]
  BY <1>3, ElementsOf DEF ReadingTypes
<1>6. r \notin again => stored[r] = <<>> /\ told[r] = 0
  <2>1. \A v \in Takers : taker[v].reading = r => taker[v].at \in {"checked", "found"}
    BY <1>0, <1>1
  <2>2. told[r] \in Nat
    BY DEF ReadingTypes
  <2> QED
    BY <1>1, <2>1, <2>2 DEF StoredInOrder
<1>7. ReadingTypes'
  <2>1. taker' \in [Takers -> TakerRows]
    BY <1>3, TakerRow DEF ReadingTypes
  <2>2. stored' \in [Readings -> Seq(Runs)]
    BY <1>3, <1>5 DEF ReadingTypes
  <2> QED
    BY <1>3, <1>4, <2>1, <2>2 DEF ReadingTypes
<1>8. RunsInOrder' /\ OneTaker'
  BY <1>1, <1>3, <1>4 DEF RunsInOrder, OneTaker
<1>9. FoundItsSession'
  BY <1>0, <1>1, <1>2, <1>3, <1>4 DEF FoundItsSession
<1>10. StoredInOrder'
  <2>1. r \notin again => Len(stored'[r]) <= 1
    BY <1>5, <1>6
  <2> QED
    BY <1>1, <1>3, <1>4, <1>5, <1>6, <2>1 DEF StoredInOrder
<1>11. ReadingHasItsSession'
  <2>1. s = RunOf[r] \/ r \in late \ Named
    BY <1>0, <1>1, <1>2 DEF FoundItsSession
  <2> QED
    BY <1>3, <1>5, <2>1 DEF ReadingHasItsSession
<1> QED
  BY <1>7, <1>8, <1>9, <1>10, <1>11

LEMMA TellReadingKeeps == ASSUME ReadingInv, NEW w \in Takers, TellReading(w) PROVE ReadingInv'
<1> USE TelemetryAssumption DEF ReadingInv
<1>0. taker[w].at = "stored"
  BY DEF TellReading
<1>1. PICK r \in Readings :
        /\ taker[w].reading = r /\ line[r] = 1 /\ r \in sent /\ r \notin seenIds
        /\ \A v \in Takers : v # w => taker[v].reading # r
  BY <1>0, HasTheCopy
<1>2. /\ told' = [told EXCEPT ![r] = @ + 1]
      /\ taker' = [taker EXCEPT ![w] = [taker[w] EXCEPT !.at = "told"]]
      /\ UNCHANGED <<run, sent, line, seenIds, stored, late, again>>
  BY <1>1 DEF TellReading
<1>3. /\ taker'[w].at = "told" /\ taker'[w].reading = r /\ taker'[w].run = taker[w].run
      /\ \A v \in Takers : v # w => taker'[v] = taker[v]
  BY <1>1, <1>2 DEF ReadingTypes, TakerRows
<1>4. told[r] \in Nat /\ told'[r] = told[r] + 1 /\ \A q \in Readings : q # r => told'[q] = told[q]
  BY <1>2 DEF ReadingTypes
<1>5. stored[r] # <<>> /\ (r \notin again => told[r] = 0)
  BY <1>0, <1>1 DEF StoredInOrder
<1>6. ReadingTypes'
  <2>1. taker' \in [Takers -> TakerRows]
    BY <1>2, TakerRow DEF ReadingTypes
  <2>2. told' \in [Readings -> Nat]
    BY <1>2, <1>4 DEF ReadingTypes
  <2> QED
    BY <1>0, <1>2, <1>3, <2>1, <2>2 DEF ReadingTypes
<1>7. RunsInOrder' /\ OneTaker' /\ ReadingHasItsSession'
  BY <1>1, <1>2, <1>3 DEF RunsInOrder, OneTaker, ReadingHasItsSession
<1>8. FoundItsSession'
  BY <1>0, <1>1, <1>2, <1>3 DEF FoundItsSession
<1>9. StoredInOrder'
  <2>1. r \notin again => told'[r] <= 1
    BY <1>4, <1>5
  <2> QED
    BY <1>1, <1>2, <1>3, <1>4, <1>5, <2>1 DEF StoredInOrder
<1> QED
  BY <1>6, <1>7, <1>8, <1>9

LEMMA MarkReadingKeeps == ASSUME ReadingInv, NEW w \in Takers, MarkReading(w) PROVE ReadingInv'
<1> USE TelemetryAssumption DEF ReadingInv
<1>0. taker[w].at = "told"
  BY DEF MarkReading
<1>1. PICK r \in Readings :
        /\ taker[w].reading = r /\ line[r] = 1 /\ r \in sent /\ r \notin seenIds
        /\ \A v \in Takers : v # w => taker[v].reading # r
  BY <1>0, HasTheCopy
<1>2. /\ seenIds' = seenIds \cup {r} /\ line' \in {line, [line EXCEPT ![r] = @ - 1]}
      /\ taker' = [taker EXCEPT ![w] = FreeTaker]
      /\ UNCHANGED <<run, sent, stored, told, late, again>>
  BY <1>1 DEF MarkReading
<1>3. taker'[w] = FreeTaker /\ \A v \in Takers : v # w => taker'[v] = taker[v]
  BY <1>2 DEF ReadingTypes
<1>4. line' \in [Readings -> 0 .. 1] /\ \A q \in Readings : q # r => line'[q] = line[q]
  <2>1. CASE line' = line
    BY <2>1 DEF ReadingTypes
  <2>2. CASE line' = [line EXCEPT ![r] = @ - 1]
    BY <1>1, <2>2 DEF ReadingTypes
  <2> QED
    BY <1>2, <2>1, <2>2
<1>5. ReadingTypes'
  <2>1. taker' \in [Takers -> TakerRows]
    BY <1>2, FreeTakerIsFree DEF ReadingTypes
  <2> QED
    BY <1>2, <1>3, <1>4, <2>1, FreeTakerIsFree DEF ReadingTypes
<1>6. RunsInOrder' /\ OneTaker' /\ ReadingHasItsSession'
  BY <1>1, <1>2, <1>3, <1>4, FreeTakerIsFree DEF RunsInOrder, OneTaker, ReadingHasItsSession
<1>7. FoundItsSession'
  BY <1>2, <1>3, FreeTakerIsFree DEF FoundItsSession
<1>8. StoredInOrder'
  BY <1>0, <1>1, <1>2, <1>3, FreeTakerIsFree DEF StoredInOrder
<1> QED
  BY <1>5, <1>6, <1>7, <1>8

LEMMA TakerDiesKeeps == ASSUME ReadingInv, NEW w \in Takers, TakerDies(w) PROVE ReadingInv'
<1> USE TelemetryAssumption DEF ReadingInv
<1>0. taker[w].at # "idle"
  BY DEF TakerDies, ReadingTypes
<1>1. PICK r \in Readings :
        /\ taker[w].reading = r /\ line[r] = 1 /\ r \in sent /\ r \notin seenIds
        /\ \A v \in Takers : v # w => taker[v].reading # r
  BY <1>0, HasTheCopy
<1>2. /\ again' = IF taker[w].at \in {"stored", "told"} THEN again \cup {r} ELSE again
      /\ taker' = [taker EXCEPT ![w] = FreeTaker]
      /\ UNCHANGED <<run, sent, line, seenIds, stored, told, late>>
  BY <1>1 DEF TakerDies
<1>3. taker'[w] = FreeTaker /\ \A v \in Takers : v # w => taker'[v] = taker[v]
  BY <1>2 DEF ReadingTypes
<1>4. ReadingTypes'
  <2>1. taker' \in [Takers -> TakerRows]
    BY <1>2, FreeTakerIsFree DEF ReadingTypes
  <2> QED
    BY <1>2, <1>3, <2>1, FreeTakerIsFree DEF ReadingTypes
<1>5. RunsInOrder' /\ OneTaker' /\ ReadingHasItsSession'
  BY <1>1, <1>2, <1>3, FreeTakerIsFree DEF RunsInOrder, OneTaker, ReadingHasItsSession
<1>6. FoundItsSession'
  BY <1>2, <1>3, FreeTakerIsFree DEF FoundItsSession
<1>7. StoredInOrder'
  <2>1. r \notin again' => taker[w].at \in {"checked", "found"} /\ r \notin again /\ stored[r] = <<>>
    BY <1>0, <1>1, <1>2 DEF StoredInOrder, ReadingTypes, TakerRows
  <2> QED
    BY <1>1, <1>2, <1>3, <2>1, FreeTakerIsFree DEF StoredInOrder
<1> QED
  BY <1>4, <1>5, <1>6, <1>7

LEMMA ReadingStep == ASSUME ReadingInv, [TelemetryNext]_telemetry PROVE ReadingInv'
<1>1. CASE UNCHANGED <<run, sent, line, seenIds, taker, stored, told, late, again>>
  BY <1>1 DEF ReadingInv, ReadingTypes, RunsInOrder, OneTaker, FoundItsSession, StoredInOrder, ReadingHasItsSession
<1>2. ASSUME NEW r \in Readings, Archive(r) PROVE ReadingInv'
  BY <1>1, <1>2 DEF Archive
<1>3. ASSUME FlushBatch \/ FlushHot \/ IngestionDies PROVE ReadingInv'
  BY <1>1, <1>3 DEF FlushBatch, FlushHot, IngestionDies
<1>4. ASSUME NEW rows \in inserting, NEW fails \in BOOLEAN, EndInsert(rows, fails) PROVE ReadingInv'
  BY <1>1, <1>4 DEF EndInsert
<1>5. CASE UNCHANGED telemetry
  BY <1>1, <1>5 DEF telemetry
<1> QED
  BY <1>2, <1>3, <1>4, <1>5, RunKeeps, SendKeeps, SkipKeeps, TakeReadingKeeps, ResolveKeeps, StoreReadingKeeps,
     TellReadingKeeps, MarkReadingKeeps, TakerDiesKeeps DEF TelemetryNext

LEMMA ArchiveStarts == ASSUME TelemetryInit PROVE ArchiveInv
<1> USE TelemetryAssumption DEF TelemetryInit
<1>1. ArchiveTypes
  BY FS_EmptySet DEF ArchiveTypes
<1>2. \A r : Batches(r) = {} /\ Cardinality(Batches(r)) = 0
  BY FS_EmptySet DEF Batches
<1>3. ArchivedOnce
  BY <1>2, NoElements DEF ArchivedOnce, One
<1> QED
  BY <1>1, <1>3 DEF ArchiveInv

\* A reading that is in one place is in no other.
LEMMA OnePlace ==
  ASSUME ArchiveInv, NEW r \in Readings
  PROVE  /\ IsFiniteSet(Batches(r)) /\ Cardinality(Batches(r)) \in Nat /\ cold[r] \in Nat
         /\ r \in publishing => r \notin Elements(hot) /\ Batches(r) = {} /\ cold[r] = 0 /\ r \notin dropped
         /\ r \in Elements(hot) => r \notin publishing /\ Batches(r) = {} /\ cold[r] = 0 /\ r \notin dropped
         /\ Batches(r) # {} => r \notin publishing \cup Elements(hot) /\ cold[r] = 0 /\ r \notin dropped
<1>1. IsFiniteSet(Batches(r)) /\ Cardinality(Batches(r)) \in Nat /\ cold[r] \in Nat
  <2>1. Batches(r) \subseteq inserting /\ IsFiniteSet(inserting) /\ cold[r] \in Nat
    BY DEF ArchiveInv, ArchiveTypes, Batches
  <2> QED
    BY <2>1, CountLess
<1>2. Cardinality(Batches(r)) = 0 => Batches(r) = {}
  BY <1>1, FS_EmptySet
<1>3. One(r \in publishing) + One(r \in Elements(hot)) + Cardinality(Batches(r)) + cold[r] + One(r \in dropped) \in {0, 1}
  BY DEF ArchiveInv, ArchivedOnce, One
<1>4. Batches(r) # {} => Cardinality(Batches(r)) >= 1
  BY <1>1, <1>2
<1>5. r \in publishing => r \notin Elements(hot) /\ Cardinality(Batches(r)) = 0 /\ cold[r] = 0 /\ r \notin dropped
  BY <1>1, <1>3 DEF One
<1>6. r \in Elements(hot) => r \notin publishing /\ Cardinality(Batches(r)) = 0 /\ cold[r] = 0 /\ r \notin dropped
  BY <1>1, <1>3 DEF One
<1>7. ASSUME Batches(r) # {} PROVE r \notin publishing \cup Elements(hot) /\ cold[r] = 0 /\ r \notin dropped
  <2>1. Cardinality(Batches(r)) >= 1
    BY <1>4, <1>7
  <2>2. r \notin publishing /\ r \notin Elements(hot) /\ cold[r] = 0 /\ r \notin dropped
    BY <1>1, <1>3, <2>1 DEF One
  <2> QED
    BY <2>2
<1> QED
  BY <1>1, <1>2, <1>5, <1>6, <1>7

\* A batch of readings that are in no other is a new one.
LEMMA BatchBegins ==
  ASSUME ArchiveInv, NEW full \in Seq(Readings), full # <<>>, inserting' = inserting \cup {full},
         \A r \in Elements(full) : Batches(r) = {}
  PROVE  /\ IsFiniteSet(inserting') /\ inserting' \subseteq Seq(Readings)
         /\ \A r \in Readings :
              Cardinality(Batches(r)') = IF r \in Elements(full) THEN 1 ELSE Cardinality(Batches(r))
<1>1. IsFiniteSet(inserting) /\ inserting \subseteq Seq(Readings)
  BY DEF ArchiveInv, ArchiveTypes
<1>2. IsFiniteSet(inserting') /\ inserting' \subseteq Seq(Readings)
  BY <1>1, FS_AddElement
<1>3. ASSUME NEW r \in Readings
      PROVE  Cardinality(Batches(r)') = IF r \in Elements(full) THEN 1 ELSE Cardinality(Batches(r))
  <2>1. CASE r \in Elements(full)
    <3>1. Batches(r) = {} /\ Batches(r)' = Batches(r) \cup {full}
      BY <2>1 DEF Batches
    <3>2. Batches(r)' = {full}
      BY <3>1
    <3>3. Cardinality({full}) = 1
      BY FS_Singleton
    <3> QED
      BY <2>1, <3>2, <3>3
  <2>2. CASE r \notin Elements(full)
    <3>1. Batches(r)' = Batches(r)
      BY <2>2 DEF Batches
    <3> QED
      BY <2>2, <3>1
  <2> QED
    BY <2>1, <2>2
<1> QED
  BY <1>2, <1>3

LEMMA IngestKeeps == ASSUME ArchiveInv, NEW r \in Readings, Ingest(r) PROVE ArchiveInv'
<1> USE DEF ArchiveInv
<1>1. /\ r \in Named /\ r \notin sent /\ sent' = sent \cup {r}
      /\ publishing' = publishing \cup {r}
      /\ batch' = IF Len(Append(batch, r)) >= BatchSize THEN <<>> ELSE Append(batch, r)
      /\ UNCHANGED <<hot, inserting, cold, dropped>>
  BY DEF Ingest, IsMeasured
<1>2. ArchiveTypes'
  <2>1. Append(batch, r) \in Seq(Readings) /\ <<>> \in Seq(Readings)
    BY ElementsOf DEF ArchiveTypes
  <2> QED
    BY <1>1, <2>1 DEF ArchiveTypes
<1>3. ArchivedOnce'
  <2> SUFFICES ASSUME NEW q \in Readings
               PROVE  One(q \in publishing') + One(q \in Elements(hot)) + Cardinality(Batches(q)) + cold[q]
                        + One(q \in dropped) = One(q \in sent' \cap Named)
    BY <1>1 DEF ArchivedOnce, Batches
  <2>1. /\ One(q \in publishing) + One(q \in Elements(hot)) + Cardinality(Batches(q)) + cold[q] + One(q \in dropped)
             = One(q \in sent \cap Named)
        /\ Cardinality(Batches(q)) \in Nat /\ cold[q] \in Nat
    BY OnePlace DEF ArchivedOnce
  <2>2. CASE q = r
    <3>1. q \notin publishing
      BY <1>1, <2>1, <2>2 DEF One
    <3> QED
      BY <1>1, <2>1, <2>2, <3>1 DEF One
  <2>3. CASE q # r
    BY <1>1, <2>1, <2>3 DEF One
  <2> QED
    BY <2>2, <2>3
<1> QED
  BY <1>2, <1>3

LEMMA ArchiveKeeps == ASSUME ArchiveInv, NEW r \in Readings, Archive(r) PROVE ArchiveInv'
<1> USE DEF ArchiveInv
<1> DEFINE full == Append(hot, r)
<1>1. /\ r \in publishing /\ publishing' = publishing \ {r}
      /\ \/ hot' = <<>> /\ inserting' = inserting \cup {full}
         \/ hot' = full /\ UNCHANGED inserting
      /\ UNCHANGED <<sent, batch, cold, dropped>>
  BY DEF Archive
<1>2. /\ full \in Seq(Readings) /\ full # <<>> /\ Elements(full) = Elements(hot) \cup {r}
      /\ Elements(hot) \subseteq Readings
  BY ElementsOf DEF ArchiveTypes
<1>3. \A q \in Elements(full) : q \in Readings /\ Batches(q) = {}
  BY <1>1, <1>2, OnePlace
<1>4. ASSUME NEW q \in Readings
      PROVE  /\ One(q \in publishing) + One(q \in Elements(hot)) + Cardinality(Batches(q)) + cold[q] + One(q \in dropped)
                  = One(q \in sent \cap Named)
             /\ Cardinality(Batches(q)) \in Nat /\ cold[q] \in Nat
             /\ q \in Elements(full) => Cardinality(Batches(q)) = 0
             /\ One(q \in publishing') + One(q \in Elements(full)) = One(q \in publishing) + One(q \in Elements(hot))
  <2>1. One(q \in publishing') + One(q \in Elements(full)) = One(q \in publishing) + One(q \in Elements(hot))
    <3>1. r \notin Elements(hot)
      BY <1>1, OnePlace
    <3> QED
      BY <1>1, <1>2, <3>1 DEF One
  <2>2. q \in Elements(full) => Cardinality(Batches(q)) = 0
    BY <1>3, FS_EmptySet
  <2> QED
    BY <1>4, <2>1, <2>2, OnePlace DEF ArchivedOnce
<1>5. CASE hot' = <<>> /\ inserting' = inserting \cup {full}
  <2>1. /\ IsFiniteSet(inserting') /\ inserting' \subseteq Seq(Readings)
        /\ \A q \in Readings :
              Cardinality(Batches(q)') = IF q \in Elements(full) THEN 1 ELSE Cardinality(Batches(q))
    BY <1>2, <1>3, <1>5, BatchBegins
  <2>2. ArchiveTypes'
    BY <1>1, <1>5, <2>1 DEF ArchiveTypes
  <2>3. ASSUME NEW q \in Readings
        PROVE  One(q \in publishing') + One(q \in Elements(hot')) + Cardinality(Batches(q)') + cold[q] + One(q \in dropped)
                 = One(q \in sent \cap Named)
    <3>1. One(q \in Elements(hot')) = 0
      BY <1>5, NoElements DEF One
    <3>2. Cardinality(Batches(q)') = Cardinality(Batches(q)) + One(q \in Elements(full))
      BY <1>4, <2>1 DEF One
    <3>3. \A here : One(here) \in Nat
      BY DEF One
    <3> QED
      BY <1>4, <3>1, <3>2, <3>3
  <2>4. ArchivedOnce'
    BY <1>1, <2>3 DEF ArchivedOnce
  <2> QED
    BY <2>2, <2>4
<1>6. CASE hot' = full /\ UNCHANGED inserting
  <2>1. \A q : Batches(q)' = Batches(q)
    BY <1>6 DEF Batches
  <2>2. ArchiveTypes'
    BY <1>1, <1>2, <1>6 DEF ArchiveTypes
  <2>3. ASSUME NEW q \in Readings
        PROVE  One(q \in publishing') + One(q \in Elements(hot')) + Cardinality(Batches(q)') + cold[q] + One(q \in dropped)
                 = One(q \in sent \cap Named)
    BY <1>4, <1>6, <2>1
  <2>4. ArchivedOnce'
    BY <1>1, <2>3 DEF ArchivedOnce
  <2> QED
    BY <2>2, <2>4
<1> QED
  BY <1>1, <1>5, <1>6

LEMMA FlushKeeps == ASSUME ArchiveInv, FlushHot PROVE ArchiveInv'
<1> USE DEF ArchiveInv
<1>1. hot # <<>> /\ hot' = <<>> /\ inserting' = inserting \cup {hot} /\ UNCHANGED <<sent, batch, publishing, cold, dropped>>
  BY DEF FlushHot
<1>2. hot \in Seq(Readings) /\ Elements(hot) \subseteq Readings
  BY DEF ArchiveTypes, Elements
<1>3. \A q \in Elements(hot) : Batches(q) = {}
  BY <1>2, OnePlace
<1>4. /\ IsFiniteSet(inserting') /\ inserting' \subseteq Seq(Readings)
      /\ \A q \in Readings : Cardinality(Batches(q)') = IF q \in Elements(hot) THEN 1 ELSE Cardinality(Batches(q))
  BY <1>1, <1>2, <1>3, BatchBegins
<1>5. ArchiveTypes'
  BY <1>1, <1>4 DEF ArchiveTypes
<1>6. ArchivedOnce'
  <2> SUFFICES ASSUME NEW q \in Readings
               PROVE  One(q \in publishing) + One(q \in Elements(hot')) + Cardinality(Batches(q)') + cold[q]
                        + One(q \in dropped) = One(q \in sent \cap Named)
    BY <1>1 DEF ArchivedOnce
  <2>1. /\ One(q \in publishing) + One(q \in Elements(hot)) + Cardinality(Batches(q)) + cold[q] + One(q \in dropped)
             = One(q \in sent \cap Named)
        /\ Cardinality(Batches(q)) \in Nat /\ cold[q] \in Nat
        /\ q \in Elements(hot) => Cardinality(Batches(q)) = 0
    BY <1>3, OnePlace, FS_EmptySet DEF ArchivedOnce
  <2>2. q \notin Elements(hot')
    BY <1>1, NoElements
  <2> QED
    BY <1>4, <2>1, <2>2 DEF One
<1> QED
  BY <1>5, <1>6

LEMMA InsertKeeps ==
  ASSUME ArchiveInv, NEW rows \in inserting, NEW fails \in BOOLEAN, EndInsert(rows, fails) PROVE ArchiveInv'
<1> USE DEF ArchiveInv
<1>1. inserting' = inserting \ {rows} /\ UNCHANGED <<sent, batch, publishing, hot>>
  BY DEF EndInsert
<1>2. \/ dropped' = dropped \cup Elements(rows) /\ cold' = cold
      \/ cold' = [r \in Readings |-> IF r \in Elements(rows) THEN cold[r] + 1 ELSE cold[r]] /\ dropped' = dropped
  BY DEF EndInsert
<1>3. rows \in Seq(Readings) /\ Elements(rows) \subseteq Readings
  BY DEF ArchiveTypes, Elements
<1>4. ArchiveTypes'
  <2>1. IsFiniteSet(inserting') /\ inserting' \subseteq Seq(Readings)
    BY <1>1, FS_Subset DEF ArchiveTypes
  <2> QED
    BY <1>1, <1>2, <1>3, <2>1 DEF ArchiveTypes
<1>5. ASSUME NEW q \in Readings
      PROVE  One(q \in publishing) + One(q \in Elements(hot)) + Cardinality(Batches(q)') + cold'[q] + One(q \in dropped')
               = One(q \in sent \cap Named)
  <2>1. /\ One(q \in publishing) + One(q \in Elements(hot)) + Cardinality(Batches(q)) + cold[q] + One(q \in dropped)
             = One(q \in sent \cap Named)
        /\ IsFiniteSet(Batches(q)) /\ Cardinality(Batches(q)) \in Nat /\ cold[q] \in Nat
    BY OnePlace DEF ArchivedOnce
  <2>2. CASE q \in Elements(rows)
    <3>1. rows \in Batches(q) /\ Batches(q)' = Batches(q) \ {rows}
      BY <1>1, <2>2 DEF Batches
    <3>2. Cardinality(Batches(q)') = Cardinality(Batches(q)) - 1
      BY <2>1, <3>1, FS_RemoveElement
    <3>3. q \notin dropped
      BY <3>1, OnePlace
    <3>4. cold'[q] + One(q \in dropped') = cold[q] + One(q \in dropped) + 1 /\ cold'[q] \in Nat
      <4>1. CASE dropped' = dropped \cup Elements(rows) /\ cold' = cold
        <5>1. q \in dropped' /\ cold'[q] = cold[q]
          BY <2>2, <4>1
        <5> QED
          BY <2>1, <3>3, <5>1 DEF One
      <4>2. CASE /\ cold' = [r \in Readings |-> IF r \in Elements(rows) THEN cold[r] + 1 ELSE cold[r]]
                 /\ dropped' = dropped
        <5>1. cold'[q] = cold[q] + 1
          BY <2>2, <4>2
        <5> QED
          BY <2>1, <3>3, <4>2, <5>1 DEF One
      <4> QED
        BY <1>2, <4>1, <4>2
    <3>5. \A here : One(here) \in Nat
      BY DEF One
    <3> QED
      BY <2>1, <3>2, <3>4, <3>5
  <2>3. CASE q \notin Elements(rows)
    <3>1. Batches(q)' = Batches(q)
      BY <1>1, <2>3 DEF Batches
    <3>2. cold'[q] = cold[q] /\ (q \in dropped' <=> q \in dropped)
      BY <1>2, <2>3
    <3>3. One(q \in dropped') = One(q \in dropped)
      BY <3>2 DEF One
    <3> QED
      BY <2>1, <3>1, <3>2, <3>3
  <2> QED
    BY <2>2, <2>3
<1>6. ArchivedOnce'
  BY <1>1, <1>5 DEF ArchivedOnce
<1> QED
  BY <1>4, <1>6

LEMMA IngestionDiesKeeps == ASSUME ArchiveInv, IngestionDies PROVE ArchiveInv'
<1> USE DEF ArchiveInv
<1>1. /\ batch' = <<>> /\ publishing' = {} /\ hot' = <<>> /\ dropped' = dropped \cup publishing \cup Elements(hot)
      /\ UNCHANGED <<sent, inserting, cold>>
  BY DEF IngestionDies
<1>2. ArchiveTypes'
  <2>1. Elements(hot) \subseteq Readings
    BY DEF ArchiveTypes, Elements
  <2> QED
    BY <1>1, <2>1 DEF ArchiveTypes
<1>3. ArchivedOnce'
  <2> SUFFICES ASSUME NEW q \in Readings
               PROVE  One(q \in publishing') + One(q \in Elements(hot')) + Cardinality(Batches(q)) + cold[q]
                        + One(q \in dropped') = One(q \in sent \cap Named)
    BY <1>1 DEF ArchivedOnce, Batches
  <2>1. /\ One(q \in publishing) + One(q \in Elements(hot)) + Cardinality(Batches(q)) + cold[q] + One(q \in dropped)
             = One(q \in sent \cap Named)
        /\ Cardinality(Batches(q)) \in Nat /\ cold[q] \in Nat
    BY OnePlace DEF ArchivedOnce
  <2>2. q \notin publishing' /\ q \notin Elements(hot')
    BY <1>1, NoElements
  <2>3. One(q \in dropped') = One(q \in publishing) + One(q \in Elements(hot)) + One(q \in dropped)
    <3>1. /\ q \in publishing => q \notin Elements(hot) /\ q \notin dropped
          /\ q \in Elements(hot) => q \notin dropped
      BY OnePlace
    <3>2. q \in dropped' <=> q \in publishing \/ q \in Elements(hot) \/ q \in dropped
      BY <1>1
    <3> QED
      BY <3>1, <3>2 DEF One
  <2>4. One(q \in publishing') = 0 /\ One(q \in Elements(hot')) = 0 /\ \A here : One(here) \in Nat
    BY <2>2 DEF One
  <2> QED
    BY <2>1, <2>3, <2>4
<1> QED
  BY <1>2, <1>3

LEMMA ArchiveStep == ASSUME ArchiveInv, [TelemetryNext]_telemetry PROVE ArchiveInv'
<1>1. CASE UNCHANGED <<publishing, hot, inserting, cold, dropped>> /\ batch' \in Seq(Readings)
           /\ \A r \in Named : r \in sent' <=> r \in sent
  <2>1. \A r : Batches(r)' = Batches(r)
    BY <1>1 DEF Batches
  <2>2. \A r : r \in sent' \cap Named <=> r \in sent \cap Named
    BY <1>1
  <2>3. \A r \in Readings : One(r \in sent' \cap Named) = One(r \in sent \cap Named)
    BY <2>2 DEF One
  <2> QED
    BY <1>1, <2>1, <2>3 DEF ArchiveInv, ArchiveTypes, ArchivedOnce
<1> USE DEF ArchiveInv, ArchiveTypes
<1>2. ASSUME NEW r \in Readings,
             MeterValues(r) \/ SkipReading(r) \/ (\E w \in Takers : TakeReading(w, r))
      PROVE  ArchiveInv'
  BY <1>1, <1>2 DEF MeterValues, SkipReading, TakeReading
<1>3. ASSUME NEW s \in Runs, StartRun(s) \/ EndRun(s) PROVE ArchiveInv'
  BY <1>1, <1>3 DEF StartRun, EndRun
<1>4. ASSUME NEW w \in Takers, Resolve(w) \/ StoreReading(w) \/ TellReading(w) \/ MarkReading(w) \/ TakerDies(w)
      PROVE  ArchiveInv'
  BY <1>1, <1>4 DEF Resolve, StoreReading, TellReading, MarkReading, TakerDies
<1>5. ASSUME FlushBatch PROVE ArchiveInv'
  BY <1>1, <1>5 DEF FlushBatch
<1>6. CASE UNCHANGED telemetry
  BY <1>1, <1>6 DEF telemetry
<1> QED
  BY <1>2, <1>3, <1>4, <1>5, <1>6, IngestKeeps, ArchiveKeeps, FlushKeeps, InsertKeeps, IngestionDiesKeeps
  DEF TelemetryNext

LEMMA TelemetryTyped ==
  ReadingInv /\ ArchiveInv => TelemetryTypeOK /\ ReadingsAreKept
<1> SUFFICES ASSUME ReadingInv, ArchiveInv PROVE TelemetryTypeOK /\ ReadingsAreKept
  OBVIOUS
<1>1. \A S, q : q \in Seq(S) => Elements(q) \subseteq S
  BY DEF Elements
<1>2. TelemetryTypeOK
  BY <1>1 DEF ReadingInv, ReadingTypes, ArchiveInv, ArchiveTypes, TakerRows, TelemetryTypeOK
<1>3. ReadingIsKeptOnce
  <2> SUFFICES ASSUME NEW r \in Readings
               PROVE  /\ r \notin again => Len(stored[r]) <= 1 /\ told[r] <= 1
                      /\ r \in seenIds /\ stored[r] = <<>> => told[r] = 0 /\ r \notin Named
                      /\ r \in sent \cap Named =>
                           1 = (IF r \in publishing \cup Elements(hot) THEN 1 ELSE 0)
                                 + Cardinality({b \in inserting : r \in Elements(b)})
                                 + cold[r] + (IF r \in dropped THEN 1 ELSE 0)
    BY DEF ReadingIsKeptOnce
  <2>1. /\ r \notin again => Len(stored[r]) <= 1 /\ told[r] <= 1
        /\ r \in seenIds /\ stored[r] = <<>> => told[r] = 0 /\ r \notin Named
    BY DEF ReadingInv, ReadingTypes, StoredInOrder
  <2>2. ASSUME r \in sent \cap Named
        PROVE  1 = (IF r \in publishing \cup Elements(hot) THEN 1 ELSE 0) + Cardinality(Batches(r))
                      + cold[r] + (IF r \in dropped THEN 1 ELSE 0)
    <3>1. /\ One(r \in publishing) + One(r \in Elements(hot)) + Cardinality(Batches(r)) + cold[r] + One(r \in dropped) = 1
          /\ Cardinality(Batches(r)) \in Nat /\ cold[r] \in Nat
          /\ ~(r \in publishing /\ r \in Elements(hot))
      BY <2>2, OnePlace DEF ArchiveInv, ArchivedOnce, One
    <3> QED
      BY <3>1 DEF One
  <2> QED
    BY <2>1, <2>2 DEF Batches
<1> QED
  BY <1>2, <1>3 DEF ReadingInv, ReadingsAreKept

-----------------------------------------------------------------------------
(* Loops.                                                                  *)

\* A set of naturals has a least element.
LEMMA Least == ASSUME NEW S \in SUBSET Nat, S # {} PROVE \E n \in S : \A m \in S : n <= m
<1> DEFINE R == {p \in Nat \X Nat : p[1] < p[2]}
<1>1. \A x, y : <<x, y>> \in R <=> (x \in Nat /\ y \in Nat /\ x < y)
  OBVIOUS
<1>2. IsWellFoundedOn(R, Nat)
  <2>1. OpToRel(<, Nat) = R
    BY DEF OpToRel
  <2> QED
    BY <2>1, NatLessThanWellFounded, Zenon
<1> HIDE DEF R
<1>3. PICK n \in S : \A m \in S : <<m, n>> \notin R
  BY <1>2, WFMin
<1>4. ASSUME NEW m \in S PROVE n <= m
  <2>1. m \in Nat /\ n \in Nat
    OBVIOUS
  <2>2. ~(m < n)
    BY <1>1, <1>3, <2>1
  <2> QED
    BY <2>1, <2>2
<1> QED
  BY <1>4

\* What holds before the first round, and after each round if before it, holds always.
LEMMA EachRound ==
  ASSUME NEW N \in Nat, NEW S, 0 \in S, \A n \in 1 .. N : n - 1 \in S => n \in S
  PROVE  0 .. N \subseteq S
<1> SUFFICES ASSUME {n \in 0 .. N : n \notin S} # {} PROVE FALSE
  OBVIOUS
<1> DEFINE T == {n \in 0 .. N : n \notin S}
<1>1. PICK n \in T : \A m \in T : n <= m
  <2>1. T \in SUBSET Nat /\ T # {}
    OBVIOUS
  <2> HIDE DEF T
  <2> QED
    BY <2>1, Least
<1>2. n # 0 /\ n \in 1 .. N
  OBVIOUS
<1>3. n - 1 \notin T /\ n - 1 \in 0 .. N
  BY <1>1, <1>2
<1> QED
  BY <1>2, <1>3

\* The rounds of a loop that runs from 1 to N, what each makes of what it finds; and a run.
AreRounds(round, N, X) == round \in [1 .. N -> [X -> X]]
IsRun(turns, N, X, s, round) ==
  turns \in [0 .. N -> X] /\ turns[0] = s /\ \A n \in 1 .. N : turns[n] = round[n][turns[n - 1]]

\* A loop of N rounds has a run, whatever its rounds do with what they find.
LEMMA LoopRuns ==
  ASSUME NEW N \in Nat, NEW X, NEW s \in X, NEW round, AreRounds(round, N, X)
  PROVE  \E turns : IsRun(turns, N, X, s, round)
<1> USE DEF AreRounds
<1> DEFINE Begun(m) == {turns \in [0 .. m -> X] : turns[0] = s /\ \A n \in 1 .. m : turns[n] = round[n][turns[n - 1]]}
           S == {m \in 0 .. N : Begun(m) # {}}
<1>1. 0 \in S
  <2>1. [n \in 0 .. 0 |-> s] \in Begun(0)
    OBVIOUS
  <2> QED
    BY <2>1
<1>2. ASSUME NEW m \in 1 .. N, m - 1 \in S PROVE m \in S
  <2>1. PICK turns : turns \in Begun(m - 1)
    BY <1>2
  <2> DEFINE more == [n \in 0 .. m |-> IF n = m THEN round[m][turns[m - 1]] ELSE turns[n]]
  <2>2. turns[m - 1] \in X
    BY <2>1
  <2>3. round[m] \in [X -> X]
    OBVIOUS
  <2>4. round[m][turns[m - 1]] \in X
    BY <2>2, <2>3
  <2>5. more \in [0 .. m -> X]
    <3>1. ASSUME NEW n \in 0 .. m PROVE more[n] \in X
      <4>1. CASE n = m
        BY <4>1, <2>4
      <4>2. CASE n # m
        <5>1. n \in 0 .. m - 1
          BY <4>2
        <5> QED
          BY <4>2, <5>1, <2>1
      <4> QED
        BY <4>1, <4>2
    <3> QED
      BY <3>1
  <2>6. more[0] = s
    BY <2>1
  <2>7. ASSUME NEW n \in 1 .. m PROVE more[n] = round[n][more[n - 1]]
    <3>1. CASE n = m
      BY <3>1
    <3>2. CASE n # m
      <4>1. n \in 1 .. m - 1 /\ n - 1 \in 0 .. m /\ n - 1 # m
        BY <3>2
      <4>2. more[n] = turns[n] /\ more[n - 1] = turns[n - 1]
        BY <4>1, <3>2
      <4>3. turns[n] = round[n][turns[n - 1]]
        BY <2>1, <4>1
      <4> QED
        BY <4>2, <4>3
    <3> QED
      BY <3>1, <3>2
  <2>8. more \in Begun(m)
    BY <2>5, <2>6, <2>7
  <2> HIDE DEF more, Begun
  <2>9. Begun(m) # {} /\ m \in 0 .. N
    BY <2>8
  <2> QED
    BY <2>9
<1>3. N \in S
  <2> HIDE DEF S
  <2>1. 0 .. N \subseteq S
    BY <1>1, <1>2, EachRound
  <2> QED
    BY <2>1
<1> QED
  BY <1>3 DEF IsRun

-----------------------------------------------------------------------------
(* Sums.                                                                   *)

\* What holds of no elements, and of one more whenever it does without it, holds of all.
LEMMA EachSubset ==
  ASSUME NEW S, IsFiniteSet(S), NEW P, {} \in P,
         \A T \in SUBSET S : \A x \in S : T \in P /\ x \notin T => T \cup {x} \in P
  PROVE  S \in P
<1> DEFINE N == Cardinality(S)
           G == {n \in 0 .. N : \A T \in SUBSET S : Cardinality(T) = n => T \in P}
<1>1. N \in Nat
  BY CountIsNat
<1>2. 0 \in G
  <2>1. ASSUME NEW T \in SUBSET S, Cardinality(T) = 0 PROVE T \in P
    <3>1. T = {}
      BY <2>1, FS_Subset, FS_EmptySet
    <3> QED
      BY <3>1
  <2> QED
    BY <2>1, <1>1
<1>3. ASSUME NEW n \in 1 .. N, n - 1 \in G PROVE n \in G
  <2>1. ASSUME NEW T \in SUBSET S, Cardinality(T) = n PROVE T \in P
    <3>1. IsFiniteSet(T)
      BY FS_Subset
    <3>2. PICK x : x \in T
      <4>1. Cardinality(T) # Cardinality({})
        BY <2>1, FS_EmptySet
      <4> QED
        BY <4>1
    <3>3. Cardinality(T \ {x}) = n - 1
      BY <3>1, <3>2, <2>1, FS_RemoveElement
    <3>4. T \ {x} \in P
      BY <3>3, <1>3
    <3>5. T = (T \ {x}) \cup {x} /\ x \notin T \ {x} /\ T \ {x} \in SUBSET S /\ x \in S
      BY <3>2
    <3> HIDE DEF G
    <3> QED
      BY <3>4, <3>5
  <2> QED
    BY <2>1
<1> HIDE DEF G
<1>4. 0 .. N \subseteq G
  BY <1>1, <1>2, <1>3, EachRound
<1>5. N \in G
  BY <1>1, <1>4
<1> QED
  BY <1>5 DEF G

First(T) == CHOOSE x \in T : TRUE

\* A sum is that of one member's value and of what is left.
OneMore(w, T, sum) == IF T = {} THEN 0 ELSE w[First(T)] + sum[T \ {First(T)}]

AddsUp(sum, w, S) == sum = [T \in SUBSET S |-> OneMore(w, T, sum)]

AreNumbers(w, S) == \A x \in S : w[x] \in Int

HasSums(sum, w, S) ==
  AddsUp(sum, w, S) /\ sum \in [SUBSET S -> Int] /\ \A T \in SUBSET S : SumOf(w, T) = sum[T]

LEMMA FirstIsIn == ASSUME NEW T, T # {} PROVE First(T) \in T
  BY DEF First

LEMMA SumIsChosen ==
  ASSUME NEW w, NEW S PROVE SumOf(w, S) = (CHOOSE sum : AddsUp(sum, w, S))[S]
  BY DEF SumOf, MapThenSumSet, MapThenFoldSet, AddsUp, OneMore, First

LEMMA Rest ==
  ASSUME NEW T, T # {}, IsFiniteSet(T)
  PROVE  /\ T \ {First(T)} \subseteq T /\ IsFiniteSet(T \ {First(T)})
         /\ Cardinality(T \ {First(T)}) = Cardinality(T) - 1
         /\ Cardinality(T) \in Nat \ {0}
<1>1. First(T) \in T
  BY FirstIsIn
<1>2. IsFiniteSet(T \ {First(T)}) /\ Cardinality(T \ {First(T)}) = Cardinality(T) - 1
  BY <1>1, FS_RemoveElement
<1>3. Cardinality(T) \in Nat /\ Cardinality(T) # 0
  BY FS_CardinalityType, FS_EmptySet
<1> QED
  BY <1>2, <1>3

LEMMA SumExists ==
  ASSUME NEW S, IsFiniteSet(S), NEW w, AreNumbers(w, S)
  PROVE  \E sum : AddsUp(sum, w, S) /\ sum \in [SUBSET S -> Int]
<1> DEFINE N == Cardinality(S) + 1
           X == [SUBSET S -> Int]
           Step(g) == [T \in SUBSET S |-> OneMore(w, T, g)]
           adding == [n \in 1 .. N |-> [g \in X |-> Step(g)]]
<1>1. N \in Nat
  BY CountIsNat
<1>2. ASSUME NEW g \in X PROVE Step(g) \in X
  <2>1. ASSUME NEW T \in SUBSET S PROVE OneMore(w, T, g) \in Int
    <3>1. CASE T = {}
      BY <3>1 DEF OneMore
    <3>2. CASE T # {}
      <4>1. First(T) \in S /\ T \ {First(T)} \in SUBSET S
        BY <3>2, FirstIsIn
      <4>2. w[First(T)] \in Int /\ g[T \ {First(T)}] \in Int
        BY <4>1 DEF AreNumbers
      <4> QED
        BY <4>2, <3>2 DEF OneMore
    <3> QED
      BY <3>1, <3>2
  <2> QED
    BY <2>1
<1>3. [T \in SUBSET S |-> 0] \in X
  OBVIOUS
<1>4. AreRounds(adding, N, X)
  BY <1>2 DEF AreRounds
<1> DEFINE none == [T \in SUBSET S |-> 0]
<1>5. PICK turns : IsRun(turns, N, X, none, adding)
  <2> HIDE DEF adding, X, N, none
  <2>1. none \in X
    BY <1>3 DEF none
  <2> QED
    BY <1>1, <1>4, <2>1, LoopRuns
<1> DEFINE sum == [T \in SUBSET S |-> turns[Cardinality(T) + 1][T]]
<1>6. ASSUME NEW T \in SUBSET S
      PROVE  /\ Cardinality(T) \in 0 .. N - 1 /\ Cardinality(T) + 1 \in 1 .. N
             /\ turns[Cardinality(T) + 1] \in X /\ turns[Cardinality(T)] \in X
             /\ turns[Cardinality(T) + 1] = Step(turns[Cardinality(T)])
  <2>1. Cardinality(T) \in Nat /\ Cardinality(T) <= Cardinality(S) /\ Cardinality(S) \in Nat
    BY CountLess, CountIsNat
  <2> DEFINE n == Cardinality(T)
  <2>2. n \in 0 .. N - 1 /\ n + 1 \in 1 .. N /\ n \in 0 .. N /\ n + 1 \in 0 .. N /\ (n + 1) - 1 = n
    BY <2>1
  <2> HIDE DEF n, Step, X, N
  <2>3. turns[n] \in X /\ turns[n + 1] \in X
    BY <1>5, <2>2 DEF IsRun
  <2>4. turns[n + 1] = adding[n + 1][turns[n]]
    BY <1>5, <2>2 DEF IsRun
  <2>5. adding[n + 1][turns[n]] = Step(turns[n])
    BY <2>2, <2>3
  <2> QED
    BY <2>2, <2>3, <2>4, <2>5 DEF n
<1>7. ASSUME NEW T \in SUBSET S PROVE sum[T] = OneMore(w, T, sum) /\ sum[T] \in Int
  <2>1. sum[T] = OneMore(w, T, turns[Cardinality(T)])
    BY <1>6
  <2>2. sum[T] \in Int
    BY <1>6
  <2>3. CASE T = {}
    BY <2>1, <2>2, <2>3 DEF OneMore
  <2>4. CASE T # {}
    <3> DEFINE U == T \ {First(T)}
    <3>1. U \in SUBSET S /\ Cardinality(U) = Cardinality(T) - 1 /\ Cardinality(T) \in Nat
      BY <2>4, FS_Subset, Rest
    <3>2. Cardinality(U) + 1 = Cardinality(T)
      BY <3>1
    <3> HIDE DEF U
    <3>3. sum[U] = turns[Cardinality(T)][U]
      BY <3>1, <3>2
    <3> HIDE DEF sum
    <3>4. OneMore(w, T, turns[Cardinality(T)]) = w[First(T)] + turns[Cardinality(T)][U]
      BY <2>4 DEF OneMore, U
    <3>5. OneMore(w, T, sum) = w[First(T)] + sum[U]
      BY <2>4 DEF OneMore, U
    <3> QED
      BY <2>1, <2>2, <3>3, <3>4, <3>5
  <2> QED
    BY <2>3, <2>4
<1>8. AddsUp(sum, w, S) /\ sum \in [SUBSET S -> Int]
  <2>1. sum = [T \in SUBSET S |-> sum[T]]
    OBVIOUS
  <2> HIDE DEF sum
  <2> QED
    BY <2>1, <1>7 DEF AddsUp
<1> QED
  BY <1>8

\* Two ways to add up agree where both do.
LEMMA SumIsOne ==
  ASSUME NEW S, IsFiniteSet(S), NEW w, NEW f, NEW g, NEW R, R \subseteq S, AddsUp(f, w, S), AddsUp(g, w, R)
  PROVE  \A T \in SUBSET R : f[T] = g[T]
<1> DEFINE N == Cardinality(R)
           G == {n \in 0 .. N : \A T \in SUBSET R : Cardinality(T) = n => f[T] = g[T]}
<1>0. IsFiniteSet(R) /\ N \in Nat
  BY CountLess
<1>1. ASSUME NEW T \in SUBSET R PROVE f[T] = OneMore(w, T, f) /\ g[T] = OneMore(w, T, g)
  BY DEF AddsUp
<1>2. 0 \in G
  <2>1. ASSUME NEW T \in SUBSET R, Cardinality(T) = 0 PROVE f[T] = g[T]
    <3>1. T = {}
      BY <2>1, <1>0, FS_Subset, FS_EmptySet
    <3> QED
      BY <3>1, <1>1 DEF OneMore
  <2> QED
    BY <2>1, <1>0
<1>3. ASSUME NEW n \in 1 .. N, n - 1 \in G PROVE n \in G
  <2>1. ASSUME NEW T \in SUBSET R, Cardinality(T) = n PROVE f[T] = g[T]
    <3>1. T # {} /\ IsFiniteSet(T)
      BY <2>1, <1>0, FS_EmptySet, FS_Subset
    <3>2. Cardinality(T \ {First(T)}) = n - 1 /\ T \ {First(T)} \in SUBSET R
      BY <3>1, <2>1, Rest
    <3>3. f[T \ {First(T)}] = g[T \ {First(T)}]
      BY <3>2, <1>3
    <3> QED
      BY <3>1, <3>3, <1>1 DEF OneMore
  <2> QED
    BY <2>1
<1> HIDE DEF G
<1>4. 0 .. N \subseteq G
  BY <1>0, <1>2, <1>3, EachRound
<1>5. ASSUME NEW T \in SUBSET R PROVE f[T] = g[T]
  <2>1. Cardinality(T) \in 0 .. N
    BY <1>0, CountLess
  <2>2. Cardinality(T) \in G
    BY <2>1, <1>4
  <2> QED
    BY <2>2 DEF G
<1> QED
  BY <1>5

\* The sums of the subsets of a set are the values of one function.
LEMMA SumsOfParts ==
  ASSUME NEW S, IsFiniteSet(S), NEW w, AreNumbers(w, S)
  PROVE  \E sum : HasSums(sum, w, S)
<1>1. PICK sum : AddsUp(sum, w, S) /\ sum \in [SUBSET S -> Int]
  BY SumExists
<1>2. ASSUME NEW T \in SUBSET S PROVE SumOf(w, T) = sum[T]
  <2>1. IsFiniteSet(T) /\ AreNumbers(w, T)
    BY FS_Subset DEF AreNumbers
  <2>2. \E g : AddsUp(g, w, T)
    BY <2>1, SumExists
  <2> DEFINE chosen == CHOOSE g : AddsUp(g, w, T)
  <2>3. AddsUp(chosen, w, T)
    BY <2>2
  <2>4. SumOf(w, T) = chosen[T]
    BY SumIsChosen
  <2> HIDE DEF chosen
  <2>5. sum[T] = chosen[T]
    BY <1>1, <2>3, SumIsOne
  <2> QED
    BY <2>4, <2>5
<1> QED
  BY <1>1, <1>2 DEF HasSums

LEMMA SumIsInt ==
  ASSUME NEW S, IsFiniteSet(S), NEW w, AreNumbers(w, S)
  PROVE  SumOf(w, S) \in Int /\ SumOf(w, {}) = 0
<1>0. PICK sum : HasSums(sum, w, S)
  BY SumsOfParts
<1>1. /\ AddsUp(sum, w, S) /\ sum \in [SUBSET S -> Int]
      /\ \A T \in SUBSET S : SumOf(w, T) = sum[T]
  BY <1>0 DEF HasSums
<1>2. sum[{}] = OneMore(w, {}, sum)
  BY <1>1 DEF AddsUp
<1>3. sum[{}] = 0
  BY <1>2 DEF OneMore
<1> QED
  BY <1>1, <1>3

LEMMA SumFromFirst ==
  ASSUME NEW S, IsFiniteSet(S), S # {}, NEW w, AreNumbers(w, S)
  PROVE  SumOf(w, S) = w[First(S)] + SumOf(w, S \ {First(S)})
<1>0. PICK sum : HasSums(sum, w, S)
  BY SumsOfParts
<1>1. /\ AddsUp(sum, w, S) /\ sum \in [SUBSET S -> Int]
      /\ \A T \in SUBSET S : SumOf(w, T) = sum[T]
  BY <1>0 DEF HasSums
<1>2. sum[S] = OneMore(w, S, sum)
  BY <1>1 DEF AddsUp
<1>3. S \ {First(S)} \in SUBSET S /\ S \in SUBSET S
  OBVIOUS
<1>4. sum[S] = w[First(S)] + sum[S \ {First(S)}]
  BY <1>2 DEF OneMore
<1> QED
  BY <1>1, <1>3, <1>4

\* The sum of a set is that of any member's value and of the others.
LEMMA SumFromAny ==
  ASSUME NEW S, IsFiniteSet(S), NEW w, AreNumbers(w, S)
  PROVE  \A T \in SUBSET S : \A x \in T : SumOf(w, T) = w[x] + SumOf(w, T \ {x})
<1> DEFINE N == Cardinality(S)
           AnyFirst(T) == \A x \in T : SumOf(w, T) = w[x] + SumOf(w, T \ {x})
           G == {n \in 0 .. N : \A T \in SUBSET S : Cardinality(T) = n => AnyFirst(T)}
<1>0. N \in Nat
  BY CountIsNat
<1>1. ASSUME NEW T \in SUBSET S PROVE IsFiniteSet(T) /\ AreNumbers(w, T) /\ SumOf(w, T) \in Int
  <2>1. IsFiniteSet(T) /\ AreNumbers(w, T)
    BY FS_Subset DEF AreNumbers
  <2> QED
    BY <2>1, SumIsInt
<1>2. 0 \in G
  <2>1. ASSUME NEW T \in SUBSET S, Cardinality(T) = 0 PROVE AnyFirst(T)
    <3>1. T = {}
      BY <2>1, <1>1, FS_EmptySet
    <3> QED
      BY <3>1
  <2> HIDE DEF AnyFirst
  <2> QED
    BY <2>1, <1>0
<1>3. ASSUME NEW n \in 1 .. N, n - 1 \in G PROVE n \in G
  <2>1. ASSUME NEW T \in SUBSET S, Cardinality(T) = n, NEW x \in T
        PROVE  SumOf(w, T) = w[x] + SumOf(w, T \ {x})
    <3> DEFINE f == First(T)
    <3>1. T # {} /\ IsFiniteSet(T) /\ AreNumbers(w, T)
      BY <1>1
    <3>2. f \in T /\ SumOf(w, T) = w[f] + SumOf(w, T \ {f})
      BY <3>1, FirstIsIn, SumFromFirst
    <3> HIDE DEF f
    <3>3. CASE x = f
      BY <3>2, <3>3
    <3>4. CASE x # f
      <4>1. x \in T \ {f} /\ f \in T \ {x} /\ (T \ {f}) \ {x} = (T \ {x}) \ {f}
        BY <3>2, <3>4
      <4>2. /\ T \ {f} \in SUBSET S /\ Cardinality(T \ {f}) = n - 1
            /\ T \ {x} \in SUBSET S /\ Cardinality(T \ {x}) = n - 1
        BY <3>1, <3>2, <2>1, FS_RemoveElement
      <4>3. AnyFirst(T \ {f}) /\ AnyFirst(T \ {x})
        <5> HIDE DEF AnyFirst
        <5> QED
          BY <4>2, <1>3
      <4> DEFINE R == (T \ {x}) \ {f}
      <4>4. SumOf(w, T \ {f}) = w[x] + SumOf(w, R)
        BY <4>1, <4>3
      <4>5. SumOf(w, T \ {x}) = w[f] + SumOf(w, R)
        BY <4>1, <4>3
      <4>6. w[x] \in Int /\ w[f] \in Int /\ SumOf(w, R) \in Int
        BY <3>1, <3>2, <1>1 DEF AreNumbers
      <4> HIDE DEF R
      <4> QED
        BY <3>2, <4>4, <4>5, <4>6
    <3> QED
      BY <3>3, <3>4
  <2> QED
    BY <2>1
<1> HIDE DEF G
<1>4. 0 .. N \subseteq G
  BY <1>0, <1>2, <1>3, EachRound
<1>5. ASSUME NEW T \in SUBSET S PROVE AnyFirst(T)
  <2>1. Cardinality(T) \in 0 .. N
    BY <1>0, CountLess
  <2>2. Cardinality(T) \in G
    BY <2>1, <1>4
  <2> HIDE DEF AnyFirst
  <2> QED
    BY <2>2 DEF G
<1> QED
  BY <1>5

LEMMA SumOfMore ==
  ASSUME NEW S, IsFiniteSet(S), NEW w, AreNumbers(w, S), NEW T \in SUBSET S, NEW x \in S, x \notin T
  PROVE  SumOf(w, T \cup {x}) = SumOf(w, T) + w[x] /\ SumOf(w, T) \in Int /\ w[x] \in Int
<1>1. T \cup {x} \in SUBSET S /\ x \in T \cup {x} /\ (T \cup {x}) \ {x} = T
  OBVIOUS
<1>2. SumOf(w, T \cup {x}) = w[x] + SumOf(w, T)
  BY <1>1, SumFromAny
<1>3. w[x] \in Int /\ IsFiniteSet(T) /\ AreNumbers(w, T)
  BY FS_Subset DEF AreNumbers
<1>4. SumOf(w, T) \in Int
  BY <1>3, SumIsInt
<1> QED
  BY <1>2, <1>3, <1>4

\* Sums keep the order of what is summed.
LEMMA SumAtMost ==
  ASSUME NEW S, IsFiniteSet(S), NEW v, AreNumbers(v, S), NEW w, AreNumbers(w, S), \A x \in S : v[x] <= w[x]
  PROVE  SumOf(v, S) <= SumOf(w, S)
<1> DEFINE P == {T \in SUBSET S : SumOf(v, T) <= SumOf(w, T)}
<1>1. {} \in P
  BY SumIsInt
<1>2. ASSUME NEW T \in SUBSET S, NEW x \in S, T \in P, x \notin T PROVE T \cup {x} \in P
  <2>1. /\ SumOf(v, T \cup {x}) = SumOf(v, T) + v[x] /\ SumOf(v, T) \in Int /\ v[x] \in Int
        /\ SumOf(w, T \cup {x}) = SumOf(w, T) + w[x] /\ SumOf(w, T) \in Int /\ w[x] \in Int
    BY <1>2, SumOfMore
  <2>2. SumOf(v, T) <= SumOf(w, T) /\ v[x] <= w[x]
    BY <1>2
  <2>3. SumOf(v, T \cup {x}) <= SumOf(w, T \cup {x})
    BY <2>1, <2>2
  <2> QED
    BY <2>3
<1> HIDE DEF P
<1>3. S \in P
  BY <1>1, <1>2, EachSubset
<1> QED
  BY <1>3 DEF P

LEMMA SumSame ==
  ASSUME NEW S, IsFiniteSet(S), NEW v, AreNumbers(v, S), NEW w, \A x \in S : v[x] = w[x]
  PROVE  SumOf(v, S) = SumOf(w, S)
<1>1. AreNumbers(w, S) /\ \A x \in S : v[x] <= w[x] /\ w[x] <= v[x]
  BY DEF AreNumbers
<1>2. SumOf(v, S) <= SumOf(w, S) /\ SumOf(w, S) <= SumOf(v, S)
  BY <1>1, SumAtMost
<1>3. SumOf(v, S) \in Int /\ SumOf(w, S) \in Int
  BY <1>1, SumIsInt
<1> QED
  BY <1>2, <1>3

\* What is left out can only be missing, and nothing is if it is zero.
LEMMA SumWithin ==
  ASSUME NEW S, IsFiniteSet(S), NEW w, \A x \in S : w[x] \in Nat, NEW R \in SUBSET S
  PROVE  SumOf(w, R) <= SumOf(w, S) /\ ((\A x \in S \ R : w[x] = 0) => SumOf(w, R) = SumOf(w, S))
<1> DEFINE none == \A x \in S \ R : w[x] = 0
           P == {T \in SUBSET S : SumOf(w, T \cap R) <= SumOf(w, T) /\ (none => SumOf(w, T \cap R) = SumOf(w, T))}
<1>0. AreNumbers(w, S)
  BY DEF AreNumbers
<1>1. {} \in P
  <2>1. {} \cap R = {} /\ SumOf(w, {}) = 0
    BY <1>0, SumIsInt
  <2> HIDE DEF none
  <2>2. SumOf(w, {} \cap R) <= SumOf(w, {}) /\ SumOf(w, {} \cap R) = SumOf(w, {})
    BY <2>1
  <2> QED
    BY <2>2
<1>2. ASSUME NEW T \in SUBSET S, NEW x \in S, T \in P, x \notin T PROVE T \cup {x} \in P
  <2>1. SumOf(w, T \cup {x}) = SumOf(w, T) + w[x] /\ SumOf(w, T) \in Int /\ w[x] \in Int
    BY <1>0, <1>2, SumOfMore
  <2>2. SumOf(w, T \cap R) <= SumOf(w, T) /\ (none => SumOf(w, T \cap R) = SumOf(w, T))
    BY <1>2
  <2>3. w[x] >= 0
    OBVIOUS
  <2>4. CASE x \in R
    <3>1. (T \cup {x}) \cap R = (T \cap R) \cup {x} /\ T \cap R \in SUBSET S /\ x \notin T \cap R
      BY <2>4, <1>2
    <3>2. SumOf(w, (T \cap R) \cup {x}) = SumOf(w, T \cap R) + w[x] /\ SumOf(w, T \cap R) \in Int
      <4> DEFINE U == T \cap R
      <4> HIDE DEF none, P
      <4>1. U \in SUBSET S /\ x \notin U
        BY <3>1
      <4> HIDE DEF U
      <4>2. SumOf(w, U \cup {x}) = SumOf(w, U) + w[x] /\ SumOf(w, U) \in Int
        BY <4>1, <1>0, SumOfMore
      <4> QED
        BY <4>2 DEF U
    <3> DEFINE a == SumOf(w, T \cap R)
               b == SumOf(w, T)
    <3>3. /\ SumOf(w, (T \cup {x}) \cap R) = a + w[x] /\ SumOf(w, T \cup {x}) = b + w[x]
          /\ a \in Int /\ b \in Int /\ w[x] \in Int /\ a <= b /\ (none => a = b)
      BY <2>1, <2>2, <3>1, <3>2
    <3> HIDE DEF none, a, b
    <3>4. SumOf(w, (T \cup {x}) \cap R) <= SumOf(w, T \cup {x})
      BY <3>3
    <3>5. none => SumOf(w, (T \cup {x}) \cap R) = SumOf(w, T \cup {x})
      BY <3>3
    <3> QED
      BY <3>4, <3>5
  <2>5. CASE x \notin R
    <3>1. (T \cup {x}) \cap R = T \cap R /\ T \cap R \in SUBSET S
      BY <2>5
    <3>2. SumOf(w, T \cap R) \in Int
      <4>1. IsFiniteSet(T \cap R) /\ AreNumbers(w, T \cap R)
        BY <3>1, <1>0, FS_Subset DEF AreNumbers
      <4> QED
        BY <4>1, SumIsInt
    <3>3. none => w[x] = 0
      BY <2>5
    <3> HIDE DEF none
    <3>4. /\ SumOf(w, (T \cup {x}) \cap R) <= SumOf(w, T \cup {x})
          /\ none => SumOf(w, (T \cup {x}) \cap R) = SumOf(w, T \cup {x})
      BY <2>1, <2>2, <2>3, <3>1, <3>2, <3>3
    <3> QED
      BY <3>4
  <2> QED
    BY <2>4, <2>5
<1> HIDE DEF P, none
<1>3. S \in P
  BY <1>1, <1>2, EachSubset
<1>4. S \cap R = R
  OBVIOUS
<1> QED
  BY <1>3, <1>4 DEF P, none

LEMMA SumIsNat ==
  ASSUME NEW S, IsFiniteSet(S), NEW w, \A x \in S : w[x] \in Nat
  PROVE  SumOf(w, S) \in Nat
<1>1. AreNumbers(w, S) /\ {} \in SUBSET S
  BY DEF AreNumbers
<1>2. SumOf(w, S) \in Int /\ SumOf(w, {}) = 0
  BY <1>1, SumIsInt
<1>3. SumOf(w, {}) <= SumOf(w, S)
  BY <1>1, SumWithin
<1> QED
  BY <1>2, <1>3

\* The sum of one.
LEMMA SumOfOne ==
  ASSUME NEW x, NEW w, w[x] \in Int PROVE SumOf(w, {x}) = w[x]
<1>1. IsFiniteSet({x}) /\ AreNumbers(w, {x}) /\ {} \in SUBSET {x} /\ x \in {x} /\ {} \cup {x} = {x}
  BY FS_Singleton DEF AreNumbers
<1>2. SumOf(w, {} \cup {x}) = SumOf(w, {}) + w[x]
  BY <1>1, SumOfMore
<1>3. SumOf(w, {}) = 0
  BY <1>1, SumIsInt
<1> QED
  BY <1>1, <1>2, <1>3

\* Sums of what lies on a line, or is put together of two.
LEMMA SumIsLinear ==
  ASSUME NEW S, IsFiniteSet(S), NEW u, AreNumbers(u, S), NEW v, AreNumbers(v, S), NEW w, AreNumbers(w, S),
         NEW c \in Int, NEW a \in Int, NEW b \in Int, \A x \in S : c * w[x] = a * u[x] + b * v[x]
  PROVE  c * SumOf(w, S) = a * SumOf(u, S) + b * SumOf(v, S)
<1> DEFINE P == {T \in SUBSET S : c * SumOf(w, T) = a * SumOf(u, T) + b * SumOf(v, T)}
<1>1. {} \in P
  <2>1. SumOf(u, {}) = 0 /\ SumOf(v, {}) = 0 /\ SumOf(w, {}) = 0
    BY SumIsInt
  <2> QED
    BY <2>1
<1>2. ASSUME NEW T \in SUBSET S, NEW x \in S, T \in P, x \notin T PROVE T \cup {x} \in P
  <2> DEFINE su == SumOf(u, T)
             sv == SumOf(v, T)
             sw == SumOf(w, T)
             ux == u[x]
             vx == v[x]
             wx == w[x]
  <2>1. SumOf(u, T \cup {x}) = su + ux /\ su \in Int /\ ux \in Int
    BY <1>2, SumOfMore
  <2>2. SumOf(v, T \cup {x}) = sv + vx /\ sv \in Int /\ vx \in Int
    BY <1>2, SumOfMore
  <2>3. SumOf(w, T \cup {x}) = sw + wx /\ sw \in Int /\ wx \in Int
    BY <1>2, SumOfMore
  <2>4. c * sw = a * su + b * sv /\ c * wx = a * ux + b * vx
    BY <1>2
  <2> HIDE DEF su, sv, sw, ux, vx, wx, P
  <2>5. c * (sw + wx) = a * (su + ux) + b * (sv + vx)
    BY <2>1, <2>2, <2>3, <2>4
  <2> QED
    BY <2>1, <2>2, <2>3, <2>5 DEF P
<1> HIDE DEF P
<1>3. S \in P
  BY <1>1, <1>2, EachSubset
<1> QED
  BY <1>3 DEF P

LEMMA SumOfOnes ==
  ASSUME NEW S, IsFiniteSet(S), NEW w, \A x \in S : w[x] = 1
  PROVE  SumOf(w, S) = Cardinality(S)
<1> DEFINE P == {T \in SUBSET S : SumOf(w, T) = Cardinality(T)}
<1>0. AreNumbers(w, S)
  BY DEF AreNumbers
<1>1. {} \in P
  BY <1>0, SumIsInt, FS_EmptySet
<1>2. ASSUME NEW T \in SUBSET S, NEW x \in S, T \in P, x \notin T PROVE T \cup {x} \in P
  <2>1. SumOf(w, T \cup {x}) = SumOf(w, T) + w[x] /\ SumOf(w, T) = Cardinality(T) /\ w[x] = 1
    BY <1>0, <1>2, SumOfMore
  <2>2. Cardinality(T \cup {x}) = Cardinality(T) + 1
    BY <1>2, FS_Subset, FS_AddElement
  <2> QED
    BY <2>1, <2>2
<1> HIDE DEF P
<1>3. S \in P
  BY <1>1, <1>2, EachSubset
<1> QED
  BY <1>3 DEF P

-----------------------------------------------------------------------------
(* Reports: the figures of one table.                                      *)

\* A day's row is a number or there is none, and the log tells of a ride in its order.
ReportsInv ==
  /\ today \in Nat /\ clock \in Nat
  /\ daily \in [Places -> [Dates -> Nat \cup {NoRow}]]
  /\ hourly \in [Places -> [DayHours -> [Dates -> Nat \cup {NoRow}]]]
  /\ begun \in [Rides -> Nat \cup {NoRow}] /\ ended \in [Rides -> Nat \cup {NoRow}]
  /\ \A r \in Rides :
       /\ begun[r] # NoRow => begun[r] <= clock
       /\ ended[r] # NoRow => begun[r] # NoRow /\ begun[r] <= ended[r] /\ ended[r] <= clock

LEMMA MaxIsIn ==
  ASSUME NEW S \in SUBSET Int, IsFiniteSet(S), S # {}
  PROVE  Max(S) \in S /\ \A y \in S : y <= Max(S)
<1> DEFINE P == {T \in SUBSET S : T # {} => \E m \in T : \A y \in T : m >= y}
<1>1. {} \in P
  OBVIOUS
<1>2. ASSUME NEW T \in SUBSET S, NEW x \in S, T \in P, x \notin T PROVE T \cup {x} \in P
  <2>1. CASE T = {}
    <3>1. x \in T \cup {x} /\ \A y \in T \cup {x} : x >= y
      BY <2>1
    <3> QED
      BY <3>1
  <2>2. CASE T # {}
    <3>1. PICK m \in T : \A y \in T : m >= y
      BY <2>2, <1>2
    <3>2. CASE m >= x
      <4>1. m \in T \cup {x} /\ \A y \in T \cup {x} : m >= y
        BY <3>1, <3>2
      <4> QED
        BY <4>1
    <3>3. CASE ~(m >= x)
      <4>1. ASSUME NEW y \in T \cup {x} PROVE x >= y
        <5>1. y # x => m >= y
          BY <3>1
        <5>2. m \in Int /\ x \in Int /\ y \in Int
          OBVIOUS
        <5> QED
          BY <5>1, <5>2, <3>3
      <4> QED
        BY <4>1
    <3> QED
      BY <3>2, <3>3
  <2> QED
    BY <2>1, <2>2
<1> HIDE DEF P
<1>3. S \in P
  BY <1>1, <1>2, EachSubset
<1>4. \E m \in S : \A y \in S : m >= y
  BY <1>3 DEF P
<1>5. Max(S) \in S /\ \A y \in S : Max(S) >= y
  BY <1>4 DEF Max
<1> QED
  BY <1>5

\* The least is the greatest of what is left when all is turned round.
LEMMA MinIsIt ==
  ASSUME NEW S \in SUBSET Int, NEW m \in S, \A y \in S : m <= y
  PROVE  Min(S) = m
<1>1. \A y \in S : y \in Int /\ m \in Int
  OBVIOUS
<1>0. \E x \in S : \A y \in S : x =< y
  OBVIOUS
<1>2. Min(S) \in S /\ \A y \in S : Min(S) =< y
  BY <1>0 DEF Min
<1>3. Min(S) \in Int /\ m \in Int
  BY <1>1, <1>2
<1>4. Min(S) <= m /\ m <= Min(S)
  BY <1>2
<1> QED
  BY <1>3, <1>4

LEMMA DatesAreDays == Dates \subseteq Nat \ {0} /\ Max(Dates) \in Dates /\ \A d \in Dates : d <= Max(Dates)
<1>1. Dates \subseteq Nat \ {0} /\ Dates \in SUBSET Int
  <2>1. Cardinality(Dates) \in Nat /\ Dates = 1 .. Cardinality(Dates)
    BY ReportsAssumption, CountIsNat
  <2> QED
    BY <2>1
<1> QED
  BY <1>1, ReportsAssumption, MaxIsIn

LEMMA ReportsStarts == ASSUME ReportsInit PROVE ReportsInv
<1> USE DEF ReportsInit
<1>1. today \in Nat
  BY DatesAreDays
<1>2. NoDays \in [Places -> [Dates -> Nat \cup {NoRow}]]
  BY DEF NoDays
<1>3. NoHours \in [Places -> [DayHours -> [Dates -> Nat \cup {NoRow}]]]
  BY DEF NoHours
<1>4. daily \in [Places -> [Dates -> Nat \cup {NoRow}]] /\ hourly \in [Places -> [DayHours -> [Dates -> Nat \cup {NoRow}]]]
  BY <1>2, <1>3, ReportsAssumption
<1>5. begun \in [Rides -> Nat \cup {NoRow}] /\ ended \in [Rides -> Nat \cup {NoRow}] /\ clock \in Nat
  OBVIOUS
<1>6. \A r \in Rides : begun[r] = NoRow /\ ended[r] = NoRow
  OBVIOUS
<1> QED
  BY <1>1, <1>4, <1>5, <1>6 DEF ReportsInv

LEMMA ReportsStep == ASSUME ReportsInv, [ReportsNext]_reports PROVE ReportsInv'
<1> USE DEF ReportsInv
<1>0. NoRow \notin Nat
  BY ReportsAssumption
<1>1. CASE NextDay
  BY <1>1 DEF NextDay
<1>2. CASE NextHour
  <2>1. clock' = clock + 1 /\ UNCHANGED <<today, daily, hourly, begun, ended>>
    BY <1>2 DEF NextHour
  <2>2. ASSUME NEW r \in Rides, NEW at, at = begun[r] \/ at = ended[r], at # NoRow, at <= clock PROVE at <= clock + 1
    <3>1. at \in Nat
      BY <2>2
    <3> QED
      BY <3>1, <2>2
  <2> QED
    BY <2>1, <2>2
<1>3. ASSUME NEW r \in Rides, LogStarted(r) PROVE ReportsInv'
  <2>1. /\ begun[r] = NoRow /\ begun' = [begun EXCEPT ![r] = clock]
        /\ UNCHANGED <<today, daily, hourly, ended, clock>>
    BY <1>3 DEF LogStarted
  <2>2. begun' \in [Rides -> Nat \cup {NoRow}]
    BY <2>1
  <2>3. ASSUME NEW q \in Rides
        PROVE  /\ begun'[q] # NoRow => begun'[q] <= clock
               /\ ended[q] # NoRow => begun'[q] # NoRow /\ begun'[q] <= ended[q] /\ ended[q] <= clock
    <3>1. CASE q = r
      BY <3>1, <2>1, <1>0
    <3>2. CASE q # r
      BY <3>2, <2>1
    <3> QED
      BY <3>1, <3>2
  <2> QED
    BY <2>1, <2>2, <2>3
<1>4. ASSUME NEW r \in Rides, LogCompleted(r) PROVE ReportsInv'
  <2>1. /\ begun[r] # NoRow /\ ended' = [ended EXCEPT ![r] = clock]
        /\ UNCHANGED <<today, daily, hourly, begun, clock>>
    BY <1>4 DEF LogCompleted
  <2>2. ended' \in [Rides -> Nat \cup {NoRow}]
    BY <2>1
  <2>3. ASSUME NEW q \in Rides
        PROVE  ended'[q] # NoRow => begun[q] # NoRow /\ begun[q] <= ended'[q] /\ ended'[q] <= clock
    <3>1. CASE q = r
      BY <3>1, <2>1
    <3>2. CASE q # r
      BY <3>2, <2>1
    <3> QED
      BY <3>1, <3>2
  <2> QED
    BY <2>1, <2>2, <2>3
<1>5. CASE UNCHANGED reports
  BY <1>5 DEF reports
<1> QED
  BY <1>1, <1>2, <1>3, <1>4, <1>5 DEF ReportsNext

-----------------------------------------------------------------------------
(* Reports by the day.                                                     *)

LEMMA DaysAreDates == ASSUME NEW s PROVE DaysOf(s) \subseteq Dates /\ IsFiniteSet(DaysOf(s))
<1>1. DaysOf(s) \subseteq Dates
  BY DEF DaysOf
<1> QED
  BY <1>1, ReportsAssumption, FS_Subset

LEMMA RowIsNat == ASSUME ReportsInv, NEW s \in Places PROVE \A d \in DaysOf(s) : daily[s][d] \in Nat
  BY DEF ReportsInv, DaysOf

\* What more days show is no less.
LEMMA TotalGrows ==
  ASSUME ReportsInv, NEW s \in Places, NEW A, NEW B, A \cap DaysOf(s) \subseteq B
  PROVE  Total(s, A) \in Nat /\ Total(s, B) \in Nat /\ Total(s, A) <= Total(s, B)
<1> DEFINE a == A \cap DaysOf(s)
           b == B \cap DaysOf(s)
           w == daily[s]
<1>1. IsFiniteSet(a) /\ IsFiniteSet(b) /\ a \in SUBSET b
  BY DaysAreDates, FS_Subset
<1>2. (\A d \in a : w[d] \in Nat) /\ (\A d \in b : w[d] \in Nat)
  BY RowIsNat
<1> HIDE DEF a, b, w
<1>3. SumOf(w, a) \in Nat /\ SumOf(w, b) \in Nat /\ SumOf(w, a) <= SumOf(w, b)
  BY <1>1, <1>2, SumIsNat, SumWithin
<1> QED
  BY <1>3 DEF Total, a, b, w

LEMMA TotalIsNat == ASSUME ReportsInv, NEW s \in Places, NEW A PROVE Total(s, A) \in Nat
  BY TotalGrows

LEMMA LatestIsInt == ASSUME ReportsInv PROVE LatestDay \in Int /\ \A s \in Places : \A d \in DaysOf(s) : d <= LatestDay
<1> DEFINE all == UNION {DaysOf(s) : s \in Places}
<1>1. all \subseteq Dates /\ IsFiniteSet(all) /\ all \in SUBSET Int
  <2>1. all \subseteq Dates
    BY DaysAreDates
  <2> HIDE DEF all
  <2>2. IsFiniteSet(all)
    BY <2>1, ReportsAssumption, FS_Subset
  <2>3. Dates \subseteq Int
    BY DatesAreDays
  <2> QED
    BY <2>1, <2>2, <2>3
<1>2. LatestDay = IF all = {} THEN today ELSE Max(all)
  BY DEF LatestDay
<1>3. \A s \in Places : \A d \in DaysOf(s) : d \in all
  OBVIOUS
<1> HIDE DEF all
<1>4. CASE all = {}
  BY <1>2, <1>3, <1>4 DEF ReportsInv
<1>5. CASE all # {}
  BY <1>1, <1>2, <1>3, <1>5, MaxIsIn
<1> QED
  BY <1>4, <1>5

Lines(n) == [s \in Places |-> UsageLine(s, n)]

LEMMA LinesAreNat == ASSUME ReportsInv, NEW n PROVE \A s \in Places : Lines(n)[s] \in Nat
  BY TotalIsNat DEF Lines, UsageLine

LEMMA LinesAddUp == \A S, n : DailyRevenue(S, n) = SumOf(Lines(n), S)
  BY DEF DailyRevenue, Lines

LEMMA SystemIsTheSum == SystemRevenue = SumOf(Lines(Window), Places)
  BY DEF SystemRevenue, Lines

LEMMA TotalsDo == ASSUME ReportsInv PROVE TotalsAgree
<1> DEFINE seen == [s \in Places |-> Total(s, Since(today, Window))]
           itsLine == Lines(Window)
<1>1. IsFiniteSet(Places)
  BY ReportsAssumption
<1>2. DashboardRevenue = SumOf(seen, Places) /\ SystemRevenue = SumOf(itsLine, Places)
  BY SystemIsTheSum DEF DashboardRevenue
<1>3. LatestDay = today => DashboardRevenue = SystemRevenue
  BY <1>2 DEF Lines, UsageLine
<1>4. ASSUME today >= LatestDay PROVE DashboardRevenue <= SystemRevenue
  <2>1. Since(today, Window) \subseteq Since(LatestDay, Window)
    <3>1. ASSUME NEW d \in Dates, d >= today - Window PROVE d >= LatestDay - Window
      <4>1. d \in Int /\ today \in Int /\ LatestDay \in Int /\ Window \in Int
        BY DatesAreDays, LatestIsInt, ReportsAssumption DEF ReportsInv
      <4> QED
        BY <4>1, <3>1, <1>4
    <3> QED
      BY <3>1 DEF Since
  <2>2. ASSUME NEW s \in Places PROVE seen[s] \in Nat /\ itsLine[s] \in Nat /\ seen[s] <= itsLine[s]
    <3>1. /\ Total(s, Since(today, Window)) \in Nat /\ Total(s, Since(LatestDay, Window)) \in Nat
          /\ Total(s, Since(today, Window)) <= Total(s, Since(LatestDay, Window))
      BY <2>1, TotalGrows
    <3> QED
      BY <3>1 DEF Lines, UsageLine
  <2> HIDE DEF seen, itsLine
  <2>3. AreNumbers(seen, Places) /\ AreNumbers(itsLine, Places) /\ \A s \in Places : seen[s] <= itsLine[s]
    BY <2>2 DEF AreNumbers
  <2> QED
    BY <1>1, <1>2, <2>3, SumAtMost
<1>5. DailyRevenue(Places, Window) = SystemRevenue
  BY LinesAddUp, SystemIsTheSum
<1> QED
  BY <1>3, <1>4, <1>5 DEF TotalsAgree

LEMMA ListIs == ASSUME ReportsInv PROVE ListIsPartOfTotal
<1> SUFFICES ASSUME NEW list \in SUBSET Places, IsTopList(list, Window)
             PROVE  /\ DailyRevenue(list, Window) <= SystemRevenue
                    /\ Listed(Window) = list => DailyRevenue(list, Window) = SystemRevenue
  BY DEF ListIsPartOfTotal
<1> DEFINE itsLine == Lines(Window)
<1>1. IsFiniteSet(Places) /\ \A s \in Places : itsLine[s] \in Nat
  BY ReportsAssumption, LinesAreNat
<1>2. DailyRevenue(list, Window) = SumOf(itsLine, list) /\ SystemRevenue = SumOf(itsLine, Places)
  BY LinesAddUp, SystemIsTheSum
<1>3. ASSUME Listed(Window) = list, NEW s \in Places \ list PROVE itsLine[s] = 0
  <2>1. Since(LatestDay, Window) \cap DaysOf(s) = {}
    BY <1>3 DEF Listed
  <2>2. itsLine[s] = SumOf(daily[s], {})
    BY <2>1 DEF Lines, UsageLine, Total
  <2>3. IsFiniteSet({}) /\ AreNumbers(daily[s], {})
    BY FS_EmptySet DEF AreNumbers
  <2>4. SumOf(daily[s], {}) = 0
    BY <2>3, SumIsInt
  <2> QED
    BY <2>2, <2>4
<1> HIDE DEF itsLine
<1>4. SumOf(itsLine, list) <= SumOf(itsLine, Places)
  BY <1>1, SumWithin
<1>5. (\A s \in Places \ list : itsLine[s] = 0) => SumOf(itsLine, list) = SumOf(itsLine, Places)
  BY <1>1, SumWithin
<1> QED
  BY <1>2, <1>3, <1>4, <1>5

\* The numbers from one to another.
LEMMA CountUpTo == ASSUME NEW a \in Int, NEW b \in Int, a <= b PROVE IsFiniteSet(a .. b) /\ Cardinality(a .. b) = b - a + 1
  BY FS_Interval

LEMMA ReportIsWithin == ASSUME ReportsInv PROVE ReportWithinLine
<1> SUFFICES ASSUME NEW s \in Places, Gapless(s), LatestDay \in DaysOf(s)
             PROVE  StationUsage(s, Window) <= UsageLine(s, Window)
  BY DEF ReportWithinLine
<1>1. ASSUME NEW d \in Newest(s, Window) PROVE d >= LatestDay - Window
  <2>1. SUFFICES ASSUME ~(d >= LatestDay - Window) PROVE FALSE
    OBVIOUS
  <2>0. d \in DaysOf(s)
    BY DEF Newest
  <2>2. d \in DaysOf(s) /\ d \in Int /\ LatestDay \in Int /\ Window \in Nat
    <3>1. d \in Dates
      BY <2>0, DaysAreDates
    <3>2. d \in Int /\ LatestDay \in Int
      BY <3>1, DatesAreDays, LatestIsInt
    <3>3. Window \in Nat
      BY ReportsAssumption
    <3> QED
      BY <2>0, <3>2, <3>3
  <2>3. d + 1 <= LatestDay /\ LatestDay - (d + 1) + 1 > Window
    BY <2>1, <2>2
  <2> DEFINE newer == {e \in DaysOf(s) : e > d}
  <2>4. (d + 1) .. LatestDay \subseteq newer
    <3>1. ASSUME NEW m \in (d + 1) .. LatestDay PROVE m \in DaysOf(s) /\ m > d
      <4>1. m \in d .. LatestDay /\ m > d
        BY <2>2
      <4> QED
        BY <4>1, <2>2 DEF Gapless
    <3> QED
      BY <3>1
  <2>5. IsFiniteSet(newer)
    BY DaysAreDates, FS_Subset
  <2>6. Cardinality(newer) < Window
    BY DEF Newest
  <2> HIDE DEF newer
  <2>7. Cardinality((d + 1) .. LatestDay) <= Cardinality(newer) /\ Cardinality(newer) \in Nat
    BY <2>4, <2>5, CountLess, CountIsNat
  <2>8. Cardinality((d + 1) .. LatestDay) = LatestDay - (d + 1) + 1
    BY <2>2, <2>3, CountUpTo
  <2> QED
    BY <2>2, <2>3, <2>6, <2>7, <2>8
<1>2. Newest(s, Window) \cap DaysOf(s) \subseteq Since(LatestDay, Window)
  BY <1>1, DaysAreDates DEF Since, Newest
<1>3. Total(s, Newest(s, Window)) <= Total(s, Since(LatestDay, Window))
  BY <1>2, TotalGrows
<1> QED
  BY <1>3 DEF StationUsage, UsageLine

\* What staff are told.
LEMMA StaffDoSee == StaffSeeTheirStation
<1>1. ASSUME NEW u \in Callers, "staff" \in u.roles, ~IsAdmin(u)
      PROVE  /\ \A at \in Places \cup {NoPlace} : AnsweredOf(u, at) \subseteq u.stations
             /\ u.stations # {} => AnsweredOf(u, NoPlace) # {}
  <2>1. u.stations \subseteq Places /\ NoPlace \notin u.stations
    BY ReportsAssumption DEF Callers
  <2>2. CASE u.stations = {}
    <3>0. ~(IsAdmin(u) \/ "staff" \notin u.roles)
      BY <1>1
    <3>1. ASSUME NEW at \in Places \cup {NoPlace} PROVE AnsweredOf(u, at) = {}
      <4>1. StationFor(u, at) = [ok |-> FALSE, station |-> NoPlace]
        BY <3>0, <2>2 DEF StationFor
      <4>2. ~StationFor(u, at).ok
        BY <4>1
      <4> QED
        BY <4>2 DEF AnsweredOf
    <3> QED
      BY <3>1, <2>2
  <2>3. CASE u.stations # {}
    <3> DEFINE own == CHOOSE s \in u.stations : TRUE
    <3>1. own \in u.stations
      BY <2>3
    <3>2. StationFor(u, NoPlace) = [ok |-> TRUE, station |-> own]
      BY <1>1, <2>3 DEF StationFor
    <3> HIDE DEF own
    <3>3. AnsweredOf(u, NoPlace) = {own}
      BY <3>1, <3>2, <2>1 DEF AnsweredOf
    <3>4. ASSUME NEW at \in Places PROVE AnsweredOf(u, at) \subseteq u.stations
      <4>1. at # NoPlace
        BY ReportsAssumption
      <4>2. StationFor(u, at) = [ok |-> at \in u.stations, station |-> at]
        BY <1>1, <2>3, <4>1 DEF StationFor
      <4>3. StationFor(u, at).station = at
        BY <4>2
      <4>4. CASE at \in u.stations
        BY <4>1, <4>3, <4>4 DEF AnsweredOf
      <4>5. CASE at \notin u.stations
        <5>1. StationFor(u, at).ok = (at \in u.stations)
          BY <4>2
        <5>2. ~StationFor(u, at).ok
          BY <5>1, <4>5
        <5> QED
          BY <5>2 DEF AnsweredOf
      <4> QED
        BY <4>4, <4>5
    <3> QED
      BY <3>1, <3>3, <3>4
  <2> QED
    BY <2>2, <2>3
<1> QED
  BY <1>1 DEF StaffSeeTheirStation

-----------------------------------------------------------------------------
(* Reports of the last hour.                                               *)

LEMMA CountWithout ==
  ASSUME NEW A, NEW B, IsFiniteSet(A), IsFiniteSet(B)
  PROVE  /\ Cardinality(A) \in Nat /\ Cardinality(B) \in Nat /\ Cardinality(A \ B) \in Nat /\ IsFiniteSet(A \ B)
         /\ Cardinality(A) - Cardinality(B) <= Cardinality(A \ B)
         /\ B \subseteq A => Cardinality(A) - Cardinality(B) = Cardinality(A \ B)
<1>1. IsFiniteSet(A \ B) /\ Cardinality(A \ B) = Cardinality(A) - Cardinality(A \cap B)
  BY FS_Difference
<1>2. Cardinality(A \cap B) <= Cardinality(B) /\ Cardinality(A \cap B) \in Nat
  BY CountLess
<1>3. B \subseteq A => A \cap B = B
  OBVIOUS
<1>4. Cardinality(A) \in Nat /\ Cardinality(B) \in Nat /\ Cardinality(A \ B) \in Nat
  BY <1>1, CountIsNat
<1> QED
  BY <1>1, <1>2, <1>3, <1>4

LEMMA NoMoreDo == ASSUME ReportsInv PROVE NoMoreThanCharge
<1> DEFINE A == {r \in Rides : InWindow(begun[r])}
           B == {r \in Rides : InWindow(ended[r])}
<1>1. IsFiniteSet(A) /\ IsFiniteSet(B) /\ IsFiniteSet(Charging)
  BY ReportsAssumption, FS_Subset DEF Charging
<1>2. ASSUME NEW r \in Rides
      PROVE  /\ begun[r] # NoRow => begun[r] \in Nat
             /\ ended[r] # NoRow => ended[r] \in Nat /\ begun[r] # NoRow /\ begun[r] <= ended[r]
             /\ clock \in Nat
  BY DEF ReportsInv
<1>3. A \ B \subseteq Charging
  <2>1. ASSUME NEW r \in Rides, InWindow(begun[r]), ~InWindow(ended[r]) PROVE begun[r] # NoRow /\ ended[r] = NoRow
    BY <2>1, <1>2 DEF InWindow
  <2> QED
    BY <2>1 DEF Charging
<1>4. ASSUME \A r \in Rides : begun[r] # NoRow => InWindow(begun[r]) PROVE B \subseteq A /\ A \ B = Charging
  <2>1. ASSUME NEW r \in Rides PROVE (r \in B <=> ended[r] # NoRow) /\ (r \in A <=> begun[r] # NoRow)
    BY <1>2, <1>4 DEF InWindow
  <2>2. ASSUME NEW r \in Rides PROVE r \in B => r \in A
    BY <2>1, <1>2
  <2> QED
    BY <2>1, <2>2 DEF Charging
<1> DEFINE more == Cardinality(A) - Cardinality(B)
<1>5. ActiveChargers = (IF more > 0 THEN more ELSE 0) /\ ActiveSessions = Cardinality(A)
  BY DEF ActiveChargers, ActiveSessions
<1> HIDE DEF A, B
<1>6. /\ Cardinality(A) \in Nat /\ Cardinality(B) \in Nat /\ Cardinality(A \ B) \in Nat
      /\ Cardinality(A) - Cardinality(B) <= Cardinality(A \ B)
      /\ B \subseteq A => Cardinality(A) - Cardinality(B) = Cardinality(A \ B)
  BY <1>1, CountWithout
<1>7. Cardinality(A \ B) <= Cardinality(Charging) /\ Cardinality(Charging) \in Nat
  BY <1>1, <1>3, CountLess, CountIsNat
<1>8. ActiveChargers <= ActiveSessions /\ ActiveChargers <= Cardinality(Charging)
  BY <1>5, <1>6, <1>7
<1>9. ASSUME \A r \in Rides : begun[r] # NoRow => InWindow(begun[r]) PROVE ActiveChargers = Cardinality(Charging)
  <2>1. more = Cardinality(Charging)
    BY <1>4, <1>9, <1>6
  <2> QED
    BY <2>1, <1>5, <1>7
<1> QED
  BY <1>8, <1>9 DEF NoMoreThanCharge

-----------------------------------------------------------------------------
(* Reports by the hour.                                                    *)

LEMMA HourRowsAre ==
  ASSUME ReportsInv, NEW s \in Places, NEW h \in DayHours
  PROVE  /\ Recent(s, h) \subseteq HourRows(s, h) /\ Recent(s, h) \subseteq Dates
         /\ IsFiniteSet(Recent(s, h)) /\ Cardinality(Recent(s, h)) \in Nat
         /\ (\A d \in Recent(s, h) : hourly[s][h][d] \in Nat) /\ SumOfHour(s, h) \in Nat
<1>1. Recent(s, h) \subseteq HourRows(s, h) /\ HourRows(s, h) \subseteq Dates
  BY DEF Recent, HourRows
<1>2. IsFiniteSet(Recent(s, h)) /\ Cardinality(Recent(s, h)) \in Nat
  BY <1>1, ReportsAssumption, FS_Subset, CountIsNat
<1>3. \A d \in HourRows(s, h) : hourly[s][h][d] \in Nat
  BY DEF HourRows, ReportsInv
<1>4. SumOf(hourly[s][h], Recent(s, h)) \in Nat
  BY <1>1, <1>2, <1>3, SumIsNat
<1> QED
  BY <1>1, <1>2, <1>3, <1>4 DEF SumOfHour

\* The average of a station alone.
LEMMA AverageOfOne ==
  ASSUME ReportsInv, NEW s \in Places, NEW h \in DayHours
  PROVE  Average({s}, h) = [sum |-> SumOfHour(s, h), count |-> Cardinality(Recent(s, h))]
<1> DEFINE sums == [r \in Places |-> SumOfHour(r, h)]
           counts == [r \in Places |-> Cardinality(Recent(r, h))]
<1>1. sums[s] = SumOfHour(s, h) /\ counts[s] = Cardinality(Recent(s, h))
  OBVIOUS
<1>2. Average({s}, h) = [sum |-> SumOf(sums, {s}), count |-> SumOf(counts, {s})]
  BY DEF Average
<1>3. sums[s] \in Int /\ counts[s] \in Int
  BY <1>1, HourRowsAre
<1> HIDE DEF sums, counts
<1>4. SumOf(sums, {s}) = sums[s] /\ SumOf(counts, {s}) = counts[s]
  BY <1>3, SumOfOne
<1> QED
  BY <1>1, <1>2, <1>4

LEMMA PeaksAre == ASSUME ReportsInv PROVE PeaksAreBusiest
<1> SUFFICES ASSUME NEW s \in Places,
                    \A h, k \in DayHours : Cardinality(Recent(s, h)) = Cardinality(Recent(s, k)),
                    NEW peaks \in SUBSET DayHours, AreStationPeaks(peaks, s),
                    NEW p \in peaks, NEW h \in DayHours \ peaks
             PROVE  SumOfHour(s, p) >= SumOfHour(s, h)
  BY DEF PeaksAreBusiest
<1> DEFINE c == Cardinality(Recent(s, p))
           x == SumOfHour(s, p)
           y == SumOfHour(s, h)
<1>1. /\ Average({s}, p) = [sum |-> x, count |-> c] /\ Average({s}, h) = [sum |-> y, count |-> c]
      /\ c \in Nat /\ x \in Nat /\ y \in Nat
  BY AverageOfOne, HourRowsAre
<1>2. ArePeaks(peaks, {s})
  BY DEF AreStationPeaks
<1>3. p \in Ranked({s}) /\ c > 0
  <2>1. p \in Ranked({s})
    BY <1>2 DEF ArePeaks
  <2> QED
    BY <2>1, <1>1 DEF Ranked
<1>4. h \in Ranked({s})
  BY <1>1, <1>3 DEF Ranked
<1>5. AtLeast(Average({s}, p), Average({s}, h))
  BY <1>2, <1>4 DEF ArePeaks
<1>6. x * c >= y * c
  BY <1>1, <1>5 DEF AtLeast
<1> HIDE DEF x, y, c
<1>7. x >= y
  BY <1>1, <1>3, <1>6
<1> QED
  BY <1>7 DEF x, y

LEMMA OneIsThePlatform == ASSUME ReportsInv PROVE OneStationIsThePlatform
<1> SUFFICES ASSUME NEW s \in Places, \A r \in Places \ {s} : \A h \in DayHours : HourRows(r, h) = {},
                    NEW peaks \in SUBSET DayHours
             PROVE  AreStationPeaks(peaks, s) <=> ArePlatformPeaks(peaks)
  BY DEF OneStationIsThePlatform
<1>1. ASSUME NEW h \in DayHours PROVE Average(Places, h) = Average({s}, h)
  <2> DEFINE sums == [r \in Places |-> SumOfHour(r, h)]
             counts == [r \in Places |-> Cardinality(Recent(r, h))]
  <2>1. ASSUME NEW r \in Places \ {s} PROVE sums[r] = 0 /\ counts[r] = 0
    <3>1. Recent(r, h) = {}
      BY HourRowsAre
    <3>2. IsFiniteSet({}) /\ AreNumbers(hourly[r][h], {}) /\ Cardinality({}) = 0
      BY FS_EmptySet DEF AreNumbers
    <3>3. SumOf(hourly[r][h], {}) = 0
      BY <3>2, SumIsInt
    <3> QED
      BY <3>1, <3>2, <3>3 DEF SumOfHour
  <2>2. \A r \in Places : sums[r] \in Nat /\ counts[r] \in Nat
    BY HourRowsAre
  <2>3. /\ Average(Places, h) = [sum |-> SumOf(sums, Places), count |-> SumOf(counts, Places)]
        /\ Average({s}, h) = [sum |-> SumOf(sums, {s}), count |-> SumOf(counts, {s})]
    BY DEF Average
  <2> HIDE DEF sums, counts
  <2>4. {s} \in SUBSET Places /\ IsFiniteSet(Places)
    BY ReportsAssumption
  <2>5. SumOf(sums, {s}) = SumOf(sums, Places)
    BY <2>1, <2>2, <2>4, SumWithin
  <2>6. SumOf(counts, {s}) = SumOf(counts, Places)
    BY <2>1, <2>2, <2>4, SumWithin
  <2> QED
    BY <2>3, <2>5, <2>6
<1>2. Ranked(Places) = Ranked({s})
  BY <1>1 DEF Ranked
<1>3. \A p \in peaks, h \in Ranked({s}) \ peaks :
        AtLeast(Average(Places, p), Average(Places, h)) <=> AtLeast(Average({s}, p), Average({s}, h))
  <2>1. ASSUME NEW p \in peaks, NEW h \in Ranked({s}) PROVE Average(Places, p) = Average({s}, p) /\ Average(Places, h) = Average({s}, h)
    <3>1. p \in DayHours /\ h \in DayHours
      BY DEF Ranked
    <3> QED
      BY <3>1, <1>1
  <2> QED
    BY <2>1
<1> QED
  BY <1>2, <1>3 DEF AreStationPeaks, ArePlatformPeaks, ArePeaks

-----------------------------------------------------------------------------
(* The forecast: a line through points that lie on one.                    *)

LEMMA SquareGrows ==
  ASSUME NEW n \in Int, NEW sx \in Int, NEW sxx \in Int, NEW y \in Int, NEW z \in Int, y # z
  PROVE  (sxx + y * y) - 2 * (z * (sx + y)) + (n + 1) * (z * z) >= sxx - 2 * (z * sx) + n * (z * z) + 1
<1>1. (sxx + y * y) - 2 * (z * (sx + y)) + (n + 1) * (z * z)
        = (sxx - 2 * (z * sx) + n * (z * z)) + (y - z) * (y - z)
  OBVIOUS
<1> DEFINE c == y - z
<1>2. c \in Int /\ c # 0
  OBVIOUS
<1> HIDE DEF c
<1>3. c * c >= 1
  BY <1>2
<1>4. (y - z) * (y - z) >= 1
  BY <1>3 DEF c
<1> DEFINE a == sxx - 2 * (z * sx) + n * (z * z)
           b == (y - z) * (y - z)
           e == (sxx + y * y) - 2 * (z * (sx + y)) + (n + 1) * (z * z)
<1>5. a \in Int /\ b \in Int /\ e = a + b /\ b >= 1
  BY <1>1, <1>4
<1> HIDE DEF a, b, e
<1>6. e >= a + 1
  BY <1>5
<1> QED
  BY <1>6 DEF a, e

LEMMA SpreadGrows ==
  ASSUME NEW n \in Int, NEW sx \in Int, NEW sxx \in Int, NEW z \in Int
  PROVE  (n + 1) * (sxx + z * z) - (sx + z) * (sx + z)
           = (n * sxx - sx * sx) + (sxx - 2 * (z * sx) + n * (z * z))
  OBVIOUS

\* Points whose places differ are spread: by Cauchy and Schwarz, one point at a time.
LEMMA PointsAreSpread ==
  ASSUME NEW S, IsFiniteSet(S), NEW x, AreNumbers(x, S), \A d, e \in S : d # e => x[d] # x[e],
         NEW sq, \A d \in S : sq[d] = x[d] * x[d], Cardinality(S) > 1
  PROVE  Cardinality(S) * SumOf(sq, S) - SumOf(x, S) * SumOf(x, S) > 0
<1> DEFINE n(T) == Cardinality(T)
           sx(T) == SumOf(x, T)
           sxx(T) == SumOf(sq, T)
           far(T, z) == sxx(T) - 2 * (x[z] * sx(T)) + n(T) * (x[z] * x[z])
           spread(T) == n(T) * sxx(T) - sx(T) * sx(T)
<1>0. AreNumbers(sq, S)
  BY DEF AreNumbers
<1>1. ASSUME NEW T \in SUBSET S PROVE n(T) \in Nat /\ sx(T) \in Int /\ sxx(T) \in Int
  <2>1. IsFiniteSet(T) /\ AreNumbers(x, T) /\ AreNumbers(sq, T)
    BY <1>0, FS_Subset DEF AreNumbers
  <2> QED
    BY <2>1, SumIsInt, CountIsNat
<1>2. n({}) = 0 /\ sx({}) = 0 /\ sxx({}) = 0
  BY <1>0, SumIsInt, FS_EmptySet
<1>3. ASSUME NEW T \in SUBSET S, NEW y \in S, y \notin T
      PROVE  n(T \cup {y}) = n(T) + 1 /\ sx(T \cup {y}) = sx(T) + x[y] /\ sxx(T \cup {y}) = sxx(T) + x[y] * x[y]
  <2>1. n(T \cup {y}) = n(T) + 1
    BY <1>3, FS_Subset, FS_AddElement
  <2>2. sx(T \cup {y}) = sx(T) + x[y] /\ sxx(T \cup {y}) = sxx(T) + sq[y]
    BY <1>0, <1>3, SumOfMore
  <2> QED
    BY <2>1, <2>2
<1>4. \A d \in S : x[d] \in Int
  BY DEF AreNumbers
<1> HIDE DEF n, sx, sxx
<1>5. ASSUME NEW z \in S PROVE \A T \in SUBSET S : z \notin T => far(T, z) \in Int /\ far(T, z) >= n(T)
  <2> SUFFICES ASSUME NEW R \in SUBSET S, z \notin R PROVE far(R, z) \in Int /\ far(R, z) >= n(R)
    OBVIOUS
  <2> DEFINE P == {T \in SUBSET R : far(T, z) >= n(T)}
  <2>1. {} \in P
    BY <1>2, <1>4
  <2>2. ASSUME NEW T \in SUBSET R, NEW y \in R, T \in P, y \notin T PROVE T \cup {y} \in P
    <3>1. T \in SUBSET S /\ y \in S /\ y # z
      OBVIOUS
    <3>2. x[y] # x[z] /\ x[y] \in Int /\ x[z] \in Int
      BY <3>1, <1>4
    <3>3. n(T) \in Nat /\ sx(T) \in Int /\ sxx(T) \in Int
      BY <3>1, <1>1
    <3>4. n(T \cup {y}) = n(T) + 1 /\ sx(T \cup {y}) = sx(T) + x[y] /\ sxx(T \cup {y}) = sxx(T) + x[y] * x[y]
      BY <3>1, <2>2, <1>3
    <3>5. far(T \cup {y}, z) >= far(T, z) + 1
      <4> DEFINE a == n(T)
                 b == sx(T)
                 c == sxx(T)
                 u == x[y]
                 v == x[z]
      <4>1. /\ far(T \cup {y}, z) = (c + u * u) - 2 * (v * (b + u)) + (a + 1) * (v * v)
            /\ far(T, z) = c - 2 * (v * b) + a * (v * v)
        BY ONLY <3>4
      <4>2. a \in Int /\ b \in Int /\ c \in Int /\ u \in Int /\ v \in Int /\ u # v
        BY <3>2, <3>3
      <4> HIDE DEF a, b, c, u, v, far
      <4>3. (c + u * u) - 2 * (v * (b + u)) + (a + 1) * (v * v) >= c - 2 * (v * b) + a * (v * v) + 1
        BY <4>2, SquareGrows
      <4> QED
        BY <4>1, <4>3
    <3>6. far(T, z) >= n(T)
      BY <2>2
    <3>7. far(T, z) \in Int /\ far(T \cup {y}, z) \in Int
      BY <3>2, <3>3, <3>4
    <3> HIDE DEF far
    <3>8. far(T \cup {y}, z) >= n(T \cup {y})
      BY <3>3, <3>4, <3>5, <3>6, <3>7
    <3> QED
      BY <3>8
  <2> HIDE DEF P
  <2>3. R \in P
    BY <2>1, <2>2, FS_Subset, EachSubset
  <2>4. n(R) \in Nat /\ sx(R) \in Int /\ sxx(R) \in Int /\ x[z] \in Int
    BY <1>1, <1>4
  <2> QED
    BY <2>3, <2>4 DEF P
<1> DEFINE P == {T \in SUBSET S : spread(T) >= 0 /\ (n(T) > 1 => spread(T) > 0)}
<1>6. {} \in P
  BY <1>2
<1>7. ASSUME NEW T \in SUBSET S, NEW z \in S, T \in P, z \notin T PROVE T \cup {z} \in P
  <2>1. x[z] \in Int /\ n(T) \in Nat /\ sx(T) \in Int /\ sxx(T) \in Int
    BY <1>1, <1>4
  <2>2. spread(T \cup {z}) = spread(T) + far(T, z)
    <3> DEFINE a == n(T)
               b == sx(T)
               c == sxx(T)
               v == x[z]
    <3>1. n(T \cup {z}) = a + 1 /\ sx(T \cup {z}) = b + v /\ sxx(T \cup {z}) = c + v * v
      BY <1>3, <1>7
    <3>2. spread(T \cup {z}) = (a + 1) * (c + v * v) - (b + v) * (b + v)
      BY ONLY <3>1
    <3>3. spread(T) = a * c - b * b /\ far(T, z) = c - 2 * (v * b) + a * (v * v)
      OBVIOUS
    <3>4. a \in Int /\ b \in Int /\ c \in Int /\ v \in Int
      BY <2>1
    <3> HIDE DEF a, b, c, v, far, spread
    <3>5. (a + 1) * (c + v * v) - (b + v) * (b + v) = (a * c - b * b) + (c - 2 * (v * b) + a * (v * v))
      BY <3>4, SpreadGrows
    <3> QED
      BY <3>2, <3>3, <3>5
  <2>3. far(T, z) \in Int /\ far(T, z) >= n(T)
    BY <1>5, <1>7
  <2>4. spread(T) \in Int /\ spread(T) >= 0
    BY <2>1, <1>7
  <2>5. n(T \cup {z}) = n(T) + 1
    BY <1>3, <1>7
  <2> HIDE DEF far, spread
  <2>6. spread(T \cup {z}) >= 0
    BY <2>1, <2>2, <2>3, <2>4
  <2>7. n(T \cup {z}) > 1 => spread(T \cup {z}) > 0
    BY <2>1, <2>2, <2>3, <2>4, <2>5
  <2> QED
    BY <2>6, <2>7
<1> HIDE DEF P
<1>8. S \in P
  BY <1>6, <1>7, EachSubset
<1> QED
  BY <1>8 DEF P, n, sx, sxx

LEMMA FactorIsPositive == ASSUME NEW k \in Nat \ {0}, NEW z \in Int, z * k > 0 PROVE z > 0
<1>1. CASE z = 0
  BY <1>1
<1>2. CASE z < 0
  <2>1. (0 - z) * k >= 0
    BY <1>2
  <2> QED
    BY <2>1
<1> QED
  BY <1>1, <1>2

LEMMA ProductIsPositive == ASSUME NEW a \in Int, NEW b \in Int, a > 0, b > 0 PROVE a * b \in Int /\ a * b > 0
  OBVIOUS

\* What the fitted line has for the place p, when the points lie on it.
LEMMA LineGoesOn ==
  ASSUME NEW n \in Int, NEW sx \in Int, NEW sxx \in Int, NEW sy \in Int, NEW sxy \in Int,
         NEW D \in Int, NEW base \in Int, NEW A \in Int, NEW p \in Int,
         D * sy = base * n + A * sx, D * sxy = base * sx + A * sxx
  PROVE  D * (sy * (n * sxx - sx * sx) + (n * sxy - sx * sy) * (n * p - sx)) = (n * (n * sxx - sx * sx)) * (base + A * p)
<1> DEFINE slope == n * sxy - sx * sy
           spread == n * sxx - sx * sx
<1>1. D * slope = A * spread
  <2>1. D * slope = n * (D * sxy) - sx * (D * sy)
    OBVIOUS
  <2>2. n * (base * sx + A * sxx) - sx * (base * n + A * sx) = A * spread
    OBVIOUS
  <2> QED
    BY <2>1, <2>2
<1>2. slope \in Int /\ spread \in Int
  OBVIOUS
<1>3. D * (sy * spread + slope * (n * p - sx)) = (D * sy) * spread + (D * slope) * (n * p - sx)
  <2> HIDE DEF slope, spread
  <2> QED
    BY <1>2
<1>4. (base * n + A * sx) * spread + (A * spread) * (n * p - sx) = (n * spread) * (base + A * p)
  <2> HIDE DEF spread
  <2> QED
    BY <1>2
<1> QED
  BY <1>1, <1>3, <1>4

LEMMA HoursOfDay ==
  /\ Cardinality(DayHours) \in Nat \ {0}
  /\ \A h \in DayHours : h \in Nat /\ h <= Cardinality(DayHours) - 1
<1>1. Cardinality(DayHours) \in Nat /\ Cardinality(DayHours) # 0
  BY ReportsAssumption, FS_EmptySet, FS_CardinalityType
<1> QED
  BY <1>1, ReportsAssumption

LEMMA LatestBucketIsInt == ASSUME ReportsInv PROVE LatestBucket \in Int
<1> DEFINE k == Cardinality(DayHours)
           last == Max(Dates)
           all == UNION {{Bucket(d, h) : d \in HourRows(s, h)} : s \in Places, h \in DayHours}
           room == 0 .. (last * k + k)
<1>1. k \in Nat /\ last \in Nat /\ \A d \in Dates : d \in Nat /\ d <= last
  BY HoursOfDay, DatesAreDays
<1>2. ASSUME NEW d \in Dates, NEW h \in DayHours PROVE Bucket(d, h) \in room
  <2>1. h \in Nat /\ h <= k - 1 /\ d \in Nat /\ d <= last
    BY <1>1, HoursOfDay
  <2> HIDE DEF k, last
  <2>2. d * k \in Nat /\ (last - d) * k \in Nat /\ last * k = d * k + (last - d) * k
    BY <1>1, <2>1
  <2>3. Bucket(d, h) = d * k + h
    BY DEF Bucket, k
  <2> QED
    BY <1>1, <2>1, <2>2, <2>3
<1>3. all \subseteq room
  <2>1. \A s, h : HourRows(s, h) \subseteq Dates
    BY DEF HourRows
  <2> HIDE DEF room
  <2> QED
    BY <1>2, <2>1
<1>4. IsFiniteSet(room) /\ room \subseteq Int
  <2>1. last * k + k \in Int
    BY <1>1
  <2> HIDE DEF last, k
  <2> QED
    BY <2>1, FS_Interval
<1>5. LatestBucket = IF all = {} THEN Bucket(today, 0) ELSE Max(all)
  BY DEF LatestBucket
<1>6. Bucket(today, 0) \in Int
  BY <1>1 DEF Bucket, ReportsInv
<1> HIDE DEF all, room
<1>7. IsFiniteSet(all) /\ all \in SUBSET Int
  BY <1>3, <1>4, FS_Subset
<1> QED
  BY <1>5, <1>6, <1>7, MaxIsIn

LEMMA Divided ==
  ASSUME NEW b \in Int, NEW k \in Nat \ {0}
  PROVE  b \div k \in Int /\ b % k \in 0 .. k - 1 /\ b = k * (b \div k) + (b % k)
  OBVIOUS

\* No row of the window is older than Window days before the latest date.
LEMMA WindowIsDays ==
  ASSUME ReportsInv, NEW s \in Places, NEW h \in DayHours
  PROVE  LatestDate \in Int /\ \A d \in Recent(s, h) : d >= LatestDate - Window
<1> DEFINE k == Cardinality(DayHours)
           b == LatestBucket
           m == b % k
<1>1. k \in Nat \ {0} /\ h \in Nat /\ h <= k - 1 /\ b \in Int /\ Window \in Nat
  BY HoursOfDay, LatestBucketIsInt, ReportsAssumption
<1>2. LatestDate = b \div k
  BY DEF LatestDate
<1> HIDE DEF k, b
<1>3. LatestDate \in Int /\ m \in 0 .. k - 1 /\ b = k * LatestDate + m
  BY <1>1, <1>2, Divided
<1> HIDE DEF m
<1>4. ASSUME NEW d \in Recent(s, h) PROVE d >= LatestDate - Window
  <2>0. d \in Dates
    BY HourRowsAre
  <2>1. d \in Int
    BY <2>0, DatesAreDays
  <2>2. d * k + h >= b - Window * k
    BY DEF Recent, Bucket, k, b
  <2> DEFINE z == d - (LatestDate - Window) + 1
  <2>3. z \in Int /\ z * k = d * k - LatestDate * k + Window * k + k
    BY <1>1, <1>3, <2>1
  <2>4. d * k \in Int /\ LatestDate * k \in Int /\ Window * k \in Int /\ k * LatestDate = LatestDate * k
    BY <1>1, <1>3, <2>1
  <2> HIDE DEF z
  <2>5. z * k > 0
    BY <1>1, <1>3, <2>2, <2>3, <2>4
  <2>6. z > 0
    BY <1>1, <2>3, <2>5, FactorIsPositive
  <2> QED
    BY <2>6, <2>1, <1>1, <1>3 DEF z
<1> QED
  BY <1>3, <1>4

OnLine(S, w, a, b) ==
  /\ Cardinality(S) > 1 /\ a \in S
  /\ \A d \in S : (w[d] - w[a]) * (b - a) = (w[b] - w[a]) * (d - a)

NextOnLine(w, a, b, next) == w[a] * (b - a) + (w[b] - w[a]) * (next - a)

\* What the forecast divides is what the line has, as often as it is divided by.
LEMMA FitIsTheLine ==
  ASSUME ReportsInv, NEW s \in Places, NEW h \in DayHours,
         OnLine(Recent(s, h), hourly[s][h], LatestDate - Window, Max(Recent(s, h)))
  PROVE  LET f == Fit(s, h)
             first == LatestDate - Window
             last == Max(Recent(s, h)) IN
         /\ f.n \in Int /\ f.n > 0 /\ f.spread \in Int /\ f.spread > 0
         /\ f.sy * f.spread + f.slope * (f.n * NextOrdinal - f.sx) \in Int
         /\ last - first \in Int /\ last - first > 0
         /\ NextOnLine(hourly[s][h], first, last, LatestDate + 1) \in Int
         /\ (last - first) * (f.sy * f.spread + f.slope * (f.n * NextOrdinal - f.sx))
              = (f.n * f.spread) * NextOnLine(hourly[s][h], first, last, LatestDate + 1)
<1> DEFINE days == Recent(s, h)
           y == hourly[s][h]
           first == LatestDate - Window
           last == Max(days)
           x == [d \in days |-> Ordinal(s, h, d)]
           sq == [d \in days |-> x[d] * x[d]]
           xy == [d \in days |-> x[d] * y[d]]
           ones == [d \in days |-> 1]
           n == Cardinality(days)
           sx == SumOf(x, days)
           sxx == SumOf(sq, days)
           sxy == SumOf(xy, days)
           sy == SumOf(y, days)
           D == last - first
           base == y[first] * D
           A == y[last] - y[first]
           p == Window + 1
           spread == n * sxx - sx * sx
<1>1. /\ days \subseteq Dates /\ IsFiniteSet(days) /\ n \in Nat /\ \A d \in days : y[d] \in Nat
      /\ n > 1 /\ first \in days /\ \A d \in days : (y[d] - y[first]) * D = A * (d - first)
  BY HourRowsAre DEF OnLine
<1>2. LatestDate \in Int /\ Window \in Nat /\ \A d \in days : d >= first
  BY WindowIsDays, ReportsAssumption
<1>3. days \in SUBSET Int
  <2>1. Dates \subseteq Int
    BY DatesAreDays
  <2> HIDE DEF days
  <2> QED
    BY <2>1, <1>1
<1>4. last \in days /\ \A d \in days : d <= last
  BY <1>1, <1>3, MaxIsIn
<1>5. Min(days) = first
  BY <1>1, <1>2, <1>3, MinIsIt
<1>6. \A d \in days : x[d] = d - first
  BY <1>5 DEF Ordinal
<1>7. Fit(s, h) = [n |-> n, sx |-> sx, sy |-> sy, slope |-> n * sxy - sx * sy, spread |-> spread]
  BY DEF Fit, SumOfHour
<1>8. \A d \in days : sq[d] = x[d] * x[d] /\ xy[d] = x[d] * y[d] /\ ones[d] = 1
  OBVIOUS
<1>9. D \in Int /\ D > 0
  <2>1. last # first
    <3>1. ASSUME last = first PROVE FALSE
      <4>1. ASSUME NEW d \in days PROVE d = first
        <5>1. d \in Int /\ first \in Int
          BY <1>1, <1>3
        <5>2. d >= first /\ d <= first
          BY <1>2, <1>4, <3>1
        <5> HIDE DEF first, days
        <5> QED
          BY <5>1, <5>2
      <4>2. days = {first}
        BY <1>1, <4>1
      <4> HIDE DEF days, first
      <4>3. Cardinality(days) = 1
        BY <4>2, FS_Singleton
      <4> QED
        BY <4>3, <1>1
    <3> QED
      BY <3>1
  <2>2. last \in Int /\ first \in Int /\ last >= first
    BY <1>1, <1>2, <1>3, <1>4
  <2> HIDE DEF last, first
  <2> QED
    BY <2>1, <2>2
<1>10. base \in Int /\ A \in Int /\ p \in Int /\ y[first] \in Int /\ y[last] \in Int
  <2>1. y[first] \in Nat /\ y[last] \in Nat
    BY <1>1, <1>4
  <2> HIDE DEF y, D, first, last
  <2> QED
    BY <2>1, <1>2, <1>9
<1>11. NextOnLine(y, first, last, LatestDate + 1) = base + A * p
  <2>1. (LatestDate + 1) - first = p
    BY <1>2
  <2> HIDE DEF y, last
  <2> QED
    BY <2>1 DEF NextOnLine
<1>12. \A d \in days : x[d] \in Int /\ y[d] \in Int /\ d \in Int /\ first \in Int
  BY <1>1, <1>2, <1>3, <1>6
<1> HIDE DEF x, sq, xy, ones, y
<1>13. AreNumbers(x, days) /\ AreNumbers(y, days) /\ AreNumbers(sq, days) /\ AreNumbers(xy, days) /\ AreNumbers(ones, days)
  <2>1. ASSUME NEW d \in days PROVE x[d] \in Int /\ y[d] \in Int /\ sq[d] \in Int /\ xy[d] \in Int /\ ones[d] \in Int
    BY <1>8, <1>12
  <2> QED
    BY <2>1 DEF AreNumbers
<1>14. \A d, e \in days : d # e => x[d] # x[e]
  <2>1. ASSUME NEW d \in days, NEW e \in days, x[d] = x[e] PROVE d = e
    <3>1. x[d] = d - first /\ x[e] = e - first /\ d \in Int /\ e \in Int /\ first \in Int
      BY <1>6, <1>12
    <3> HIDE DEF first
    <3> QED
      BY <3>1, <2>1
  <2> QED
    BY <2>1
<1> HIDE DEF days, first, last, D, base, A
<1>15. spread > 0
  BY <1>1, <1>8, <1>13, <1>14, PointsAreSpread
<1>16. n \in Int /\ sx \in Int /\ sxx \in Int /\ sy \in Int /\ sxy \in Int /\ SumOf(ones, days) = n
  BY <1>1, <1>8, <1>13, SumIsInt, SumOfOnes
<1>17. ASSUME NEW d \in days
       PROVE  D * y[d] = base * ones[d] + A * x[d] /\ D * xy[d] = base * x[d] + A * sq[d]
  <2> DEFINE u == x[d]
             v == y[d]
             c == y[first]
  <2>1. (v - c) * D = A * u /\ u \in Int /\ v \in Int /\ c \in Int
    <3>1. (y[d] - y[first]) * D = A * (d - first) /\ x[d] = d - first
      BY <1>1, <1>6
    <3> QED
      BY <3>1, <1>1, <1>12
  <2>2. base = c * D
    BY DEF base
  <2>3. ones[d] = 1 /\ xy[d] = u * v /\ sq[d] = u * u
    BY <1>8
  <2> HIDE DEF u, v, c
  <2>4. D * v = base + A * u
    BY <2>1, <2>2, <1>9, <1>10
  <2>5. D * (u * v) = base * u + A * (u * u)
    <3>1. D * (u * v) = u * (D * v)
      BY <2>1, <1>9
    <3>2. u * (base + A * u) = base * u + A * (u * u)
      BY <2>1, <1>10
    <3> QED
      BY <3>1, <3>2, <2>4
  <2> QED
    BY <2>3, <2>4, <2>5, <1>10 DEF u, v
<1>18. D * sy = base * n + A * sx
  BY <1>1, <1>9, <1>10, <1>13, <1>16, <1>17, SumIsLinear
<1>19. D * sxy = base * sx + A * sxx
  BY <1>1, <1>9, <1>10, <1>13, <1>17, SumIsLinear
<1> HIDE DEF n, sx, sxx, sxy, sy, p
<1> DEFINE top == sy * spread + (n * sxy - sx * sy) * (n * p - sx)
<1>20. D * top = (n * spread) * (base + A * p)
  BY <1>9, <1>10, <1>16, <1>18, <1>19, LineGoesOn
<1>21. top \in Int /\ spread \in Int /\ base + A * p \in Int
  BY <1>10, <1>16
<1>22. NextOrdinal = p
  BY DEF NextOrdinal, p
<1> DEFINE f == Fit(s, h)
<1>23. f.n = n /\ f.sx = sx /\ f.sy = sy /\ f.slope = n * sxy - sx * sy /\ f.spread = spread
  BY <1>7
<1> HIDE DEF f, spread
<1>24. f.sy * f.spread + f.slope * (f.n * NextOrdinal - f.sx) = top
  BY <1>22, <1>23
<1> HIDE DEF top
<1>25. n > 0
  BY <1>1, <1>16
<1>26. /\ f.n \in Int /\ f.n > 0 /\ f.spread \in Int /\ f.spread > 0
       /\ f.sy * f.spread + f.slope * (f.n * NextOrdinal - f.sx) \in Int
       /\ D \in Int /\ D > 0
       /\ NextOnLine(y, first, last, LatestDate + 1) \in Int
       /\ D * (f.sy * f.spread + f.slope * (f.n * NextOrdinal - f.sx))
            = (f.n * f.spread) * NextOnLine(y, first, last, LatestDate + 1)
  BY <1>9, <1>11, <1>15, <1>16, <1>20, <1>21, <1>23, <1>24, <1>25
<1> QED
  BY <1>26 DEF f, D, first, last, days, y

LEMMA SameSign ==
  ASSUME NEW D \in Int, D > 0, NEW N \in Int, N > 0, NEW top \in Int, NEW value \in Int, D * top = N * value
  PROVE  (IF top > 0 THEN top ELSE 0) * D = N * (IF value > 0 THEN value ELSE 0)
<1>1. CASE top > 0
  <2>1. D * top > 0
    BY <1>1, ProductIsPositive
  <2>2. value > 0
    <3>1. value * N = N * value
      OBVIOUS
    <3>2. value * N > 0 /\ N \in Nat \ {0}
      BY <2>1, <3>1
    <3> QED
      BY <3>2, FactorIsPositive
  <2>3. top * D = D * top
    OBVIOUS
  <2> QED
    BY <1>1, <2>2, <2>3
<1>2. CASE ~(top > 0)
  <2>1. ~(value > 0)
    <3>1. ASSUME value > 0 PROVE FALSE
      <4>1. N * value > 0
        BY <3>1, ProductIsPositive
      <4>2. top * D = D * top
        OBVIOUS
      <4>3. top * D > 0 /\ D \in Nat \ {0}
        BY <4>1, <4>2
      <4>4. top > 0
        BY <4>3, FactorIsPositive
      <4> QED
        BY <4>4, <1>2
    <3> QED
      BY <3>1
  <2> QED
    BY <1>2, <2>1
<1> QED
  BY <1>1, <1>2

LEMMA ForecastGoesOn == ASSUME ReportsInv PROVE ForecastIsNextOnLine
<1>1. ASSUME NEW s \in Places, NEW h \in DayHours,
             OnLine(Recent(s, h), hourly[s][h], LatestDate - Window, Max(Recent(s, h)))
      PROVE  LET first == LatestDate - Window
                 last == Max(Recent(s, h))
                 f == Forecast(s, h)
                 value == NextOnLine(hourly[s][h], first, last, LatestDate + 1) IN
             f.top * (last - first) = f.bottom * (IF value > 0 THEN value ELSE 0)
  <2> DEFINE g == Fit(s, h)
             D == Max(Recent(s, h)) - (LatestDate - Window)
             N == g.n * g.spread
             top == g.sy * g.spread + g.slope * (g.n * NextOrdinal - g.sx)
             value == NextOnLine(hourly[s][h], LatestDate - Window, Max(Recent(s, h)), LatestDate + 1)
  <2>1. /\ g.n \in Int /\ g.n > 0 /\ g.spread \in Int /\ g.spread > 0 /\ top \in Int
        /\ D \in Int /\ D > 0 /\ value \in Int /\ D * top = N * value
    BY <1>1, FitIsTheLine
  <2>2. Forecast(s, h) = [top |-> IF top > 0 THEN top ELSE 0, bottom |-> N]
    BY <2>1 DEF Forecast
  <2>3. N \in Int /\ N > 0
    BY <2>1, ProductIsPositive
  <2> HIDE DEF N, top, value, D
  <2>4. (IF top > 0 THEN top ELSE 0) * D = N * (IF value > 0 THEN value ELSE 0)
    BY <2>1, <2>3, SameSign
  <2> QED
    BY <2>2, <2>4 DEF D, value
<1>2. ASSUME NEW s \in Places, NEW h \in DayHours
      PROVE  LET days == Recent(s, h)
                 first == LatestDate - Window
                 at(d) == hourly[s][h][d]
                 last == Max(days)
                 f == Forecast(s, h) IN
             /\ Cardinality(days) > 1 /\ first \in days
             /\ \A d \in days : (at(d) - at(first)) * (last - first) = (at(last) - at(first)) * (d - first)
             => LET value == at(first) * (last - first) + (at(last) - at(first)) * (LatestDate + 1 - first) IN
                f.top * (last - first) = f.bottom * (IF value > 0 THEN value ELSE 0)
  <2> DEFINE days == Recent(s, h)
             first == LatestDate - Window
             y == hourly[s][h]
             last == Max(days)
             f == Forecast(s, h)
             value == NextOnLine(y, first, last, LatestDate + 1)
             lineValue == y[first] * (last - first) + (y[last] - y[first]) * (LatestDate + 1 - first)
  <2>1. OnLine(days, y, first, last) => f.top * (last - first) = f.bottom * (IF value > 0 THEN value ELSE 0)
    BY <1>1
  <2>2. value = lineValue
    <3>1. (LatestDate + 1) - first = LatestDate + 1 - first
      BY WindowIsDays, ReportsAssumption
    <3> QED
      BY ONLY <3>1 DEF NextOnLine
  <2> SUFFICES OnLine(days, y, first, last) => f.top * (last - first) = f.bottom * (IF lineValue > 0 THEN lineValue ELSE 0)
    BY Zenon DEF OnLine
  <2> HIDE DEF days, first, y, last, f, value, lineValue
  <2> QED
    BY <2>1, <2>2
<1> QED
  BY <1>2, Zenon DEF ForecastIsNextOnLine

LEMMA ReportsDoAgree == ASSUME ReportsInv PROVE ReportsAgree
  BY TotalsDo, ListIs, ReportIsWithin, NoMoreDo, StaffDoSee, PeaksAre, OneIsThePlatform, ForecastGoesOn DEF ReportsAgree

-----------------------------------------------------------------------------
(* The theorems.                                                           *)

ObserversInv == MailInv /\ PhoneInv /\ UsageInv /\ ReadingInv /\ ArchiveInv /\ ReportsInv

\* Notices, metrics, readings and reports share no row, so each keeps its own part of the invariant
\* (notification-service, analytics-service, telemetry-ingestion-service).
THEOREM ObserversInvariant == ObserversSpec => []ObserversInv
<1>1. ObserversInit => ObserversInv
  BY MailStarts, PhoneStarts, UsageStarts, ReadingStarts, ArchiveStarts, ReportsStarts DEF ObserversInit, ObserversInv
<1>2. ObserversInv /\ [ObserversNext]_<<notices, usage, telemetry, reports, part>> => ObserversInv'
  <2> SUFFICES ASSUME ObserversInv, [ObserversNext]_<<notices, usage, telemetry, reports, part>> PROVE ObserversInv'
    OBVIOUS
  <2>1. [NoticesNext]_notices /\ [UsageNext]_usage /\ [TelemetryNext]_telemetry /\ [ReportsNext]_reports
    BY DEF ObserversNext
  <2> QED
    BY <2>1, MailStep, PhoneStep, UsageStep, ReadingStep, ArchiveStep, ReportsStep DEF ObserversInv
<1> QED
  BY <1>1, <1>2, PTL DEF ObserversSpec

\* The tables of notification-service, analytics-service and telemetry-ingestion-service
\* have their types.
THEOREM ObserversTypesCorrect == ObserversSpec => []ObserversTypeOK
<1>1. ObserversInv => ObserversTypeOK
  BY NoticesTyped, UsageTyped, TelemetryTyped DEF ObserversInv, ObserversTypeOK
<1> QED
  BY <1>1, ObserversInvariant, PTL

\* An event that was marked is stored for its customer, or about to be, unless its handler
\* died; it is stored twice only if two handlers looked it up before either marked it; and a
\* registered phone stays its customer's (notification.consumers.ts, device.use-cases.ts).
THEOREM NoticesAreKeptCorrect == ObserversSpec => []NoticesAreKept
<1>1. ObserversInv => NoticesAreKept
  BY DEF ObserversInv, MailInv, PhoneInv, NoticesAreKept
<1> QED
  BY <1>1, ObserversInvariant, PTL

\* However often an event is delivered, a failed transaction's event included, it is logged
\* once unless two copies were looked up before one was marked (analytics-service's
\* consumers).  Whatever the tables of days and hours hold, the totals of the reports are
\* the sums of their lines, staff see their stations alone, the peaks are the hours with
\* most charges if all have as many rows, and a forecast from a full window goes on along
\* the line its points are on (its use cases and peak-hour-detector.ts).
THEOREM MetricsAreSoundCorrect == ObserversSpec => []MetricsAreSound
<1>1. ObserversInv => MetricsAreSound
  BY UsageTyped, ReportsDoAgree DEF ObserversInv, MetricsAreSound
<1> QED
  BY <1>1, ObserversInvariant, PTL

\* A reading is stored under another session only if it came by OCPP and was looked at late,
\* it is stored and told once unless its handler died in between, and what is archived is in
\* one place at a time, a buffer, a batch or the table (telemetry-ingestion-service).
THEOREM ReadingsAreKeptCorrect == ObserversSpec => []ReadingsAreKept
<1>1. ObserversInv => ReadingsAreKept
  BY TelemetryTyped DEF ObserversInv
<1> QED
  BY <1>1, ObserversInvariant, PTL
=============================================================================
