----------------------- MODULE PasswordRecoveryProofs -----------------------
(***************************************************************************)
(* What TLAPS proves of PasswordRecovery for any number of links, users    *)
(* and concurrent calls, any size of the map and any clock: its types,     *)
(* that a link sets a password at most once, that only the newest link of  *)
(* a user can work, and that it does.  The second part is about the flows  *)
(* of AuthFlows that lead here.                                            *)
(*                                                                         *)
(* A link goes from the request that drew it to a ticket and from the      *)
(* ticket to the call that took it, and is never in two of these places.   *)
(***************************************************************************)
EXTENDS PasswordRecovery, AuthFlows, FiniteSetTheorems, SequenceTheorems, TLAPS

RequestsHoldNewLinks ==
  \A r \in DOMAIN requests :
    /\ used[requests[r].id] = 0
    /\ requests[r].id \notin DOMAIN published
    /\ \A q \in DOMAIN requests : q # r => requests[q].id # requests[r].id

TicketsArePublished ==
  \A id \in DOMAIN tickets : id \in DOMAIN published /\ tickets[id] = published[id]

CallsHoldTakenLinks ==
  \A c \in DOMAIN calls :
    /\ used[calls[c].id] = 0
    /\ calls[c].id \in DOMAIN published
    /\ calls[c].id \notin DOMAIN tickets
    /\ \A d \in DOMAIN calls : d # c => calls[d].id # calls[c].id

PlacesAreCounted ==
  \A id \in DOMAIN published : published[id].place < Cardinality(DOMAIN published)

LinksInv ==
  /\ TypeOK
  /\ LinksWorkOnce
  /\ OnlyNewestLinkWorks
  /\ RequestsHoldNewLinks
  /\ TicketsArePublished
  /\ CallsHoldTakenLinks
  /\ PlacesAreCounted

-----------------------------------------------------------------------------
\* What cleanup() leaves is a part of the map.
LEMMA CleanedPart ==
  ASSUME NEW t, t = Cleaned
  PROVE  DOMAIN t \subseteq DOMAIN tickets /\ \A id \in DOMAIN t : t[id] = tickets[id]
BY DEF Cleaned, Newest, Restrict

\* The next place is a number above every place given so far.
LEMMA PublishedFinite ==
  ASSUME TypeOK
  PROVE  IsFiniteSet(DOMAIN published) /\ Cardinality(DOMAIN published) \in Nat
<1>1. DOMAIN published \in SUBSET Token
  BY DEF TypeOK
<1> QED
  BY <1>1, RequestAssumption, FS_Subset, FS_CardinalityType

LEMMA InitLinks == Init => LinksInv
<1> SUFFICES ASSUME Init PROVE LinksInv
  OBVIOUS
<1> USE DEF Init
<1>1. TypeOK
  BY SizeAssumption DEF TypeOK
<1>2. LinksWorkOnce /\ OnlyNewestLinkWorks
  BY DEF LinksWorkOnce, OnlyNewestLinkWorks
<1>3. RequestsHoldNewLinks /\ TicketsArePublished /\ CallsHoldTakenLinks /\ PlacesAreCounted
  BY DEF RequestsHoldNewLinks, TicketsArePublished, CallsHoldTakenLinks, PlacesAreCounted
<1> QED
  BY <1>1, <1>2, <1>3 DEF LinksInv

\* A step that takes tickets away and touches nothing else of the links.
LEMMA FewerTickets ==
  ASSUME LinksInv,
         DOMAIN tickets' \subseteq DOMAIN tickets,
         \A id \in DOMAIN tickets' : tickets'[id] = tickets[id],
         UNCHANGED <<now, accounts, calls, sent, published, used, reset>>,
         DOMAIN requests' \subseteq DOMAIN requests,
         \A r \in DOMAIN requests' : requests'[r] = requests[r]
  PROVE  LinksInv'
<1> USE DEF LinksInv
<1>1. TypeOK'
  BY DEF TypeOK
<1>2. LinksWorkOnce' /\ OnlyNewestLinkWorks'
  BY DEF LinksWorkOnce, OnlyNewestLinkWorks, PublishedFor
<1>3. RequestsHoldNewLinks' /\ TicketsArePublished' /\ CallsHoldTakenLinks' /\ PlacesAreCounted'
  BY DEF RequestsHoldNewLinks, TicketsArePublished, CallsHoldTakenLinks, PlacesAreCounted
<1> QED
  BY <1>1, <1>2, <1>3

LEMMA StartRequestLinks ==
  ASSUME LinksInv, NEW r \in Request, NEW u \in User, NEW id \in Token, StartRequest(r, u, id)
  PROVE  LinksInv'
<1> USE DEF LinksInv
<1>1. DOMAIN tickets' \subseteq DOMAIN tickets /\ \A k \in DOMAIN tickets' : tickets'[k] = tickets[k]
  BY CleanedPart DEF StartRequest
<1>2. /\ DOMAIN requests' = DOMAIN requests \cup {r}
      /\ requests'[r] = [id |-> id, user |-> u]
      /\ \A k \in DOMAIN requests : requests'[k] = requests[k]
  BY DEF StartRequest
<1>3. UNCHANGED <<now, accounts, calls, sent, published, used, reset>>
  BY DEF StartRequest
<1>4. TypeOK'
  BY <1>1, <1>2, <1>3 DEF TypeOK, Work
<1>5. LinksWorkOnce' /\ OnlyNewestLinkWorks'
  BY <1>1, <1>3 DEF LinksWorkOnce, OnlyNewestLinkWorks, PublishedFor
<1>6. RequestsHoldNewLinks'
  BY <1>2, <1>3 DEF StartRequest, RequestsHoldNewLinks
<1>7. TicketsArePublished' /\ CallsHoldTakenLinks' /\ PlacesAreCounted'
  BY <1>1, <1>3 DEF TicketsArePublished, CallsHoldTakenLinks, PlacesAreCounted
<1> QED
  BY <1>4, <1>5, <1>6, <1>7

LEMMA DeliverLinks ==
  ASSUME LinksInv, NEW r \in Request, Deliver(r)
  PROVE  LinksInv'
<1> USE DEF LinksInv, Deliver
<1>1. TypeOK'
  BY DEF TypeOK, Work
<1>2. LinksWorkOnce' /\ OnlyNewestLinkWorks'
  BY DEF LinksWorkOnce, OnlyNewestLinkWorks, PublishedFor
<1>3. RequestsHoldNewLinks' /\ TicketsArePublished' /\ CallsHoldTakenLinks' /\ PlacesAreCounted'
  BY DEF RequestsHoldNewLinks, TicketsArePublished, CallsHoldTakenLinks, PlacesAreCounted
<1> QED
  BY <1>1, <1>2, <1>3

\* The link that is published takes the highest place, and the user's other
\* links are gone.
LEMMA PublishLinks ==
  ASSUME LinksInv, NEW r \in Request, Publish(r)
  PROVE  LinksInv'
<1> DEFINE new == requests[r].id
           owner == requests[r].user
           n == Cardinality(DOMAIN published)
<1> USE DEF LinksInv
<1>1. /\ r \in DOMAIN requests /\ new \in Token /\ owner \in User /\ new \in sent
      /\ new \notin DOMAIN published /\ used[new] = 0
  BY DEF Publish, TypeOK, Work, RequestsHoldNewLinks
<1>2. New(r) = [user |-> owner, at |-> now, place |-> n]
  BY DEF New
<1>3. n \in Nat /\ IsFiniteSet(DOMAIN published)
  BY PublishedFinite
<1>4. New(r) \in Ticket /\ New(r).place = n /\ New(r).user = owner /\ New(r).at = now
  BY <1>1, <1>2, <1>3 DEF Ticket, TypeOK
<1>5. /\ DOMAIN tickets' = (DOMAIN tickets \ Of(owner)) \cup {new}
      /\ tickets'[new] = New(r)
      /\ \A k \in DOMAIN tickets' \ {new} : k \in DOMAIN tickets /\ tickets'[k] = tickets[k]
  BY DEF Publish, Replaced
<1>6. /\ DOMAIN published' = DOMAIN published \cup {new}
      /\ published'[new] = New(r)
      /\ \A k \in DOMAIN published : published'[k] = published[k]
  BY <1>1 DEF Publish
<1>7. /\ DOMAIN requests' = DOMAIN requests \ {r}
      /\ \A q \in DOMAIN requests' : requests'[q] = requests[q]
  BY DEF Publish, Without, Restrict
<1>8. UNCHANGED <<now, accounts, calls, sent, used, reset>>
  BY DEF Publish
<1>9. Cardinality(DOMAIN published') = n + 1
  BY <1>1, <1>3, <1>6, FS_AddElement
<1>10. TypeOK'
  BY <1>1, <1>3, <1>4, <1>5, <1>6, <1>7, <1>8, SizeAssumption DEF TypeOK
<1>11. LinksWorkOnce'
  BY <1>8 DEF LinksWorkOnce
<1>12. PlacesAreCounted'
  BY <1>3, <1>4, <1>6, <1>9 DEF PlacesAreCounted, TypeOK, Ticket
<1>13. RequestsHoldNewLinks'
  BY <1>1, <1>6, <1>7, <1>8 DEF RequestsHoldNewLinks
<1>14. TicketsArePublished'
  BY <1>1, <1>5, <1>6 DEF TicketsArePublished
<1>15. CallsHoldTakenLinks'
  BY <1>1, <1>5, <1>6, <1>8 DEF CallsHoldTakenLinks
<1>16. OnlyNewestLinkWorks'
  <2> SUFFICES ASSUME NEW id \in DOMAIN tickets'
               PROVE  /\ id \in sent' /\ used'[id] = 0 /\ id \notin reset'
                      /\ \A k \in PublishedFor(tickets[id].user)' : published'[k].place <= tickets'[id].place
    BY DEF OnlyNewestLinkWorks
  <2>1. CASE id = new
    <3>1. new \notin reset
      BY <1>1 DEF TypeOK
    <3>2. \A k \in DOMAIN published' : published'[k].place <= n
      BY <1>3, <1>4, <1>6 DEF PlacesAreCounted, TypeOK, Ticket
    <3> QED
      BY <1>1, <1>4, <1>5, <1>8, <2>1, <3>1, <3>2 DEF PublishedFor
  <2>2. CASE id # new
    <3>1. id \in DOMAIN tickets \ Of(owner) /\ tickets'[id] = tickets[id]
      BY <1>5, <2>2
    <3>2. tickets[id].user # owner
      BY <3>1 DEF Of
    <3>3. \A k \in PublishedFor(tickets[id].user)' : k \in PublishedFor(tickets[id].user) /\ published'[k] = published[k]
      BY <1>4, <1>6, <3>1, <3>2 DEF PublishedFor
    <3> QED
      BY <1>8, <3>1, <3>3 DEF OnlyNewestLinkWorks
  <2> QED
    BY <2>1, <2>2
<1> QED
  BY <1>10, <1>11, <1>12, <1>13, <1>14, <1>15, <1>16

LEMMA StartCompleteLinks ==
  ASSUME LinksInv, NEW c \in Call, NEW id \in Token, StartComplete(c, id)
  PROVE  LinksInv'
<1> USE DEF LinksInv
<1>1. id \in DOMAIN tickets /\ c \notin DOMAIN calls
  BY DEF StartComplete, Lookup
<1>2. /\ DOMAIN tickets' = DOMAIN tickets \ {id}
      /\ \A k \in DOMAIN tickets' : tickets'[k] = tickets[k]
  BY DEF StartComplete, Reserved, Without, Restrict
<1>3. /\ DOMAIN calls' = DOMAIN calls \cup {c}
      /\ calls'[c].id = id /\ calls'[c].user = tickets[id].user
      /\ \A k \in DOMAIN calls : calls'[k] = calls[k]
      /\ calls'[c] = [id |-> id, user |-> tickets[id].user]
  BY <1>1 DEF StartComplete
<1>4. UNCHANGED <<now, accounts, requests, sent, published, used, reset>>
  BY DEF StartComplete
<1>5. TypeOK'
  BY <1>1, <1>2, <1>3, <1>4 DEF TypeOK, Work, Ticket
<1>6. LinksWorkOnce' /\ OnlyNewestLinkWorks'
  BY <1>2, <1>4 DEF LinksWorkOnce, OnlyNewestLinkWorks, PublishedFor
<1>7. RequestsHoldNewLinks' /\ TicketsArePublished' /\ PlacesAreCounted'
  BY <1>2, <1>4 DEF RequestsHoldNewLinks, TicketsArePublished, PlacesAreCounted
<1>8. CallsHoldTakenLinks'
  <2>1. used[id] = 0 /\ id \in DOMAIN published
    BY <1>1 DEF OnlyNewestLinkWorks, TicketsArePublished
  <2>2. \A d \in DOMAIN calls : calls[d].id # id
    BY <1>1 DEF CallsHoldTakenLinks
  <2> QED
    BY <1>1, <1>2, <1>3, <1>4, <2>1, <2>2 DEF CallsHoldTakenLinks
<1> QED
  BY <1>5, <1>6, <1>7, <1>8

\* The link has been used once, and every link of its user dies.
LEMMA SetPasswordLinks ==
  ASSUME LinksInv, NEW c \in Call, SetPassword(c)
  PROVE  LinksInv'
<1> DEFINE link == calls[c].id
           owner == calls[c].user
<1> USE DEF LinksInv
<1>1. /\ c \in DOMAIN calls /\ link \in Token /\ used[link] = 0
      /\ link \in DOMAIN published /\ link \notin DOMAIN tickets
  BY DEF SetPassword, TypeOK, Work, CallsHoldTakenLinks
<1>2. used' = [used EXCEPT ![link] = @ + 1] /\ used \in [Token -> Nat]
  BY DEF SetPassword, TypeOK
<1>3. used' \in [Token -> Nat] /\ used'[link] = 1 /\ \A id \in Token \ {link} : used'[id] = used[id]
  BY <1>1, <1>2
<1>4. /\ DOMAIN tickets' = DOMAIN tickets \ Of(owner)
      /\ \A k \in DOMAIN tickets' : tickets'[k] = tickets[k]
  BY DEF SetPassword, Withdrawn, Without, Restrict
<1>5. /\ DOMAIN calls' = DOMAIN calls \ {c}
      /\ \A d \in DOMAIN calls' : calls'[d] = calls[d]
  BY DEF SetPassword, Without, Restrict
<1>6. UNCHANGED <<now, accounts, requests, sent, published>> /\ reset' = reset \cup PublishedFor(owner)
  BY DEF SetPassword
<1>7. TypeOK'
  BY <1>3, <1>4, <1>5, <1>6 DEF TypeOK, PublishedFor
<1>8. LinksWorkOnce'
  BY <1>3 DEF LinksWorkOnce
<1>9. OnlyNewestLinkWorks'
  <2> SUFFICES ASSUME NEW id \in DOMAIN tickets'
               PROVE  /\ id \in sent' /\ used'[id] = 0 /\ id \notin reset'
                      /\ \A k \in PublishedFor(tickets[id].user)' : published'[k].place <= tickets'[id].place
    BY DEF OnlyNewestLinkWorks
  <2>1. id \in DOMAIN tickets /\ id \notin Of(owner) /\ tickets'[id] = tickets[id] /\ id \in Token
    BY <1>4 DEF TypeOK
  <2>2. id \notin PublishedFor(owner)
    BY <2>1 DEF Of, PublishedFor, TicketsArePublished
  <2>3. used'[id] = 0
    BY <1>1, <1>3, <2>1 DEF OnlyNewestLinkWorks
  <2> QED
    BY <1>6, <2>1, <2>2, <2>3 DEF OnlyNewestLinkWorks, PublishedFor
<1>10. RequestsHoldNewLinks'
  BY <1>1, <1>3, <1>6 DEF RequestsHoldNewLinks, TypeOK, Work
<1>11. TicketsArePublished' /\ PlacesAreCounted'
  BY <1>4, <1>6 DEF TicketsArePublished, PlacesAreCounted
<1>12. CallsHoldTakenLinks'
  BY <1>1, <1>3, <1>4, <1>5, <1>6 DEF CallsHoldTakenLinks, TypeOK, Work
<1> QED
  BY <1>7, <1>8, <1>9, <1>10, <1>11, <1>12

LEMMA FailPasswordLinks ==
  ASSUME LinksInv, NEW c \in Call, FailPassword(c)
  PROVE  LinksInv'
<1> USE DEF LinksInv
<1>1. /\ DOMAIN calls' = DOMAIN calls \ {c}
      /\ \A d \in DOMAIN calls' : calls'[d] = calls[d]
      /\ UNCHANGED <<now, accounts, tickets, requests, sent, published, used, reset>>
  BY DEF FailPassword, Without, Restrict
<1>2. TypeOK'
  BY <1>1 DEF TypeOK
<1>3. LinksWorkOnce' /\ OnlyNewestLinkWorks'
  BY <1>1 DEF LinksWorkOnce, OnlyNewestLinkWorks, PublishedFor
<1>4. RequestsHoldNewLinks' /\ TicketsArePublished' /\ CallsHoldTakenLinks' /\ PlacesAreCounted'
  BY <1>1 DEF RequestsHoldNewLinks, TicketsArePublished, CallsHoldTakenLinks, PlacesAreCounted
<1> QED
  BY <1>2, <1>3, <1>4

\* Of the calls in progress when the API dies at most one has a given link.
LEMMA SavedOnce ==
  ASSUME LinksInv, NEW saved \in SUBSET DOMAIN calls, NEW id \in Token
  PROVE  \/ {c \in saved : calls[c].id = id} = {}
         \/ used[id] = 0 /\ \E c \in saved : {d \in saved : calls[d].id = id} = {c}
<1> SUFFICES ASSUME NEW c \in saved, calls[c].id = id
             PROVE  used[id] = 0 /\ {d \in saved : calls[d].id = id} = {c}
  OBVIOUS
<1> QED
  BY DEF LinksInv, CallsHoldTakenLinks

LEMMA RestartLinks ==
  ASSUME LinksInv, NEW saved \in SUBSET Call, Restart(saved)
  PROVE  LinksInv'
<1> USE DEF LinksInv
<1>1. saved \in SUBSET DOMAIN calls
  BY DEF Restart
<1>2. /\ tickets' = <<>> /\ requests' = <<>> /\ calls' = <<>> /\ reset' = DOMAIN published
      /\ UNCHANGED <<now, accounts, sent, published>>
  BY DEF Restart
<1>3. ASSUME NEW id \in Token PROVE used'[id] \in Nat /\ used'[id] <= 1
  <2> DEFINE spent == {c \in saved : calls[c].id = id}
  <2>1. used'[id] = used[id] + Cardinality(spent)
    BY DEF Restart
  <2>2. used[id] \in Nat /\ used[id] <= 1
    BY DEF TypeOK, LinksWorkOnce
  <2>3. spent = {} \/ (used[id] = 0 /\ \E c \in saved : spent = {c})
    BY <1>1, SavedOnce
  <2> HIDE DEF spent
  <2>4. CASE spent = {}
    BY <2>1, <2>2, <2>4, FS_EmptySet
  <2>5. CASE used[id] = 0 /\ \E c \in saved : spent = {c}
    <3>1. Cardinality(spent) = 1
      BY <2>5, FS_Singleton
    <3> QED
      BY <2>1, <2>5, <3>1
  <2> QED
    BY <2>3, <2>4, <2>5
<1>4. used' \in [Token -> Nat]
  BY <1>3 DEF Restart
<1>5. TypeOK'
  BY <1>2, <1>4 DEF TypeOK
<1>6. LinksWorkOnce' /\ OnlyNewestLinkWorks'
  BY <1>2, <1>3 DEF LinksWorkOnce, OnlyNewestLinkWorks
<1>7. RequestsHoldNewLinks' /\ TicketsArePublished' /\ CallsHoldTakenLinks' /\ PlacesAreCounted'
  BY <1>2 DEF RequestsHoldNewLinks, TicketsArePublished, CallsHoldTakenLinks, PlacesAreCounted
<1> QED
  BY <1>5, <1>6, <1>7

\* A step of somebody else: the clock, an administrator.
LEMMA OutsideLinks ==
  ASSUME LinksInv,
         Tick \/ \E u \in User, state \in {"eligible", "ineligible", "gone"} : Administer(u, state)
  PROVE  LinksInv'
<1> USE DEF LinksInv
<1>1. /\ UNCHANGED <<tickets, requests, calls, sent, published, used, reset>>
      /\ now' \in 0..MaxTime /\ now <= now'
      /\ accounts' \in [User -> {"eligible", "ineligible", "gone"}]
  BY SizeAssumption DEF Tick, Administer, TypeOK
<1>2. TypeOK'
  BY <1>1, SizeAssumption DEF TypeOK, Ticket
<1>3. LinksWorkOnce' /\ OnlyNewestLinkWorks'
  BY <1>1 DEF LinksWorkOnce, OnlyNewestLinkWorks, PublishedFor
<1>4. RequestsHoldNewLinks' /\ TicketsArePublished' /\ CallsHoldTakenLinks' /\ PlacesAreCounted'
  BY <1>1 DEF RequestsHoldNewLinks, TicketsArePublished, CallsHoldTakenLinks, PlacesAreCounted
<1> QED
  BY <1>2, <1>3, <1>4

LEMMA NextLinks ==
  ASSUME LinksInv, [Next]_vars
  PROVE  LinksInv'
<1>1. CASE \E r \in Request, u \in User, id \in Token : StartRequest(r, u, id)
  BY <1>1, StartRequestLinks
<1>2. CASE CleanUp
  BY <1>2, CleanedPart, FewerTickets DEF CleanUp
<1>3. CASE \E r \in Request : Deliver(r)
  BY <1>3, DeliverLinks
<1>4. CASE \E r \in Request : Publish(r)
  BY <1>4, PublishLinks
<1>5. CASE \E r \in Request : MailFails(r)
  BY <1>5, FewerTickets DEF MailFails, Without, Restrict
<1>6. CASE \E c \in Call, id \in Token : StartComplete(c, id)
  BY <1>6, StartCompleteLinks
<1>7. CASE \E c \in Call : SetPassword(c)
  BY <1>7, SetPasswordLinks
<1>8. CASE \E c \in Call : FailPassword(c)
  BY <1>8, FailPasswordLinks
<1>9. CASE Tick \/ \E u \in User, state \in {"eligible", "ineligible", "gone"} : Administer(u, state)
  BY <1>9, OutsideLinks
<1>10. CASE \E saved \in SUBSET Call : Restart(saved)
  BY <1>10, RestartLinks
<1>11. CASE UNCHANGED vars
  BY <1>11, FewerTickets DEF vars
<1> QED
  BY <1>1, <1>2, <1>3, <1>4, <1>5, <1>6, <1>7, <1>8, <1>9, <1>10, <1>11 DEF Next

\* Every behaviour keeps a link in one place at a time: drawn, published or
\* taken.
THEOREM LinksHold == Spec => []LinksInv
<1> QED
  BY InitLinks, NextLinks, PTL DEF Spec

\* The maps, the history and the clock keep their types.
THEOREM TypeCorrect == Spec => []TypeOK
<1>1. LinksInv => TypeOK
  BY DEF LinksInv
<1> QED
  BY <1>1, LinksHold, PTL

\* Whatever number of calls present a link together, and wherever the API
\* dies, it sets one password at most.
THEOREM LinksAreSpent == Spec => []LinksWorkOnce
<1>1. LinksInv => LinksWorkOnce
  BY DEF LinksInv
<1> QED
  BY <1>1, LinksHold, PTL

\* A link that can work is the newest of its user, was mailed, is unused and
\* not older than the user's last reset.
THEOREM NewestOnly == Spec => []OnlyNewestLinkWorks
<1>1. LinksInv => OnlyNewestLinkWorks
  BY DEF LinksInv
<1> QED
  BY <1>1, LinksHold, PTL

-----------------------------------------------------------------------------
\* Why a link that is published does not work, or does not work any more.
Lapsed(id) ==
  \/ id \in DOMAIN published \ DOMAIN tickets
  \/ ~Fresh(published'[id])
  \/ id \in reset' \cup Taken'
  \/ \E k \in DOMAIN published' :
       /\ published'[k].user = published'[id].user
       /\ published'[k].place > published'[id].place
  \/ Cardinality({k \in DOMAIN published : published[k].place > published'[id].place})
       >= MaxOutstanding

\* cleanup() takes a fresh ticket away only when the map is full of later ones.
LEMMA CleaningLapses ==
  ASSUME LinksInv, tickets' = Cleaned, UNCHANGED published,
         NEW id \in DOMAIN published' \ DOMAIN tickets'
  PROVE  Lapsed(id)
<1> DEFINE live == {k \in DOMAIN tickets : Fresh(tickets[k])}
           aboveLive == {k \in live : tickets[k].place > tickets[id].place}
           above == {k \in DOMAIN published : published[k].place > published'[id].place}
<1> SUFFICES ASSUME id \in DOMAIN tickets, Fresh(published'[id])
             PROVE  Cardinality(above) >= MaxOutstanding
  BY DEF Lapsed
<1>1. tickets[id] = published[id] /\ published'[id] = published[id]
  BY DEF LinksInv, TicketsArePublished
<1>2. id \in live
  BY <1>1
<1>3. DOMAIN tickets' = Newest(live)
  BY DEF Cleaned, Restrict, Newest
<1>4. ~(Cardinality(aboveLive) < MaxOutstanding)
  BY <1>2, <1>3 DEF Newest
<1>5. aboveLive \subseteq above
  BY <1>1 DEF LinksInv, TicketsArePublished
<1>6. IsFiniteSet(above)
  <2>1. above \subseteq DOMAIN published
    OBVIOUS
  <2> QED
    BY <2>1, PublishedFinite, FS_Subset DEF LinksInv
<1> HIDE DEF above, aboveLive, live
<1>7. IsFiniteSet(aboveLive) /\ Cardinality(aboveLive) <= Cardinality(above)
  BY <1>5, <1>6, FS_Subset
<1> QED
  BY <1>4, <1>6, <1>7, FS_CardinalityType, SizeAssumption

\* Only a later link of the same user takes an earlier one's place.
LEMMA PublishingLapses ==
  ASSUME LinksInv, NEW r \in Request, Publish(r),
         NEW id \in DOMAIN published' \ DOMAIN tickets'
  PROVE  Lapsed(id)
<1> DEFINE new == requests[r].id
           owner == requests[r].user
           n == Cardinality(DOMAIN published)
<1> USE DEF LinksInv
<1>1. new \notin DOMAIN published
  BY DEF Publish, RequestsHoldNewLinks
<1>2. /\ DOMAIN tickets' = (DOMAIN tickets \ Of(owner)) \cup {new}
      /\ DOMAIN published' = DOMAIN published \cup {new}
      /\ published'[new] = New(r)
      /\ \A k \in DOMAIN published : published'[k] = published[k]
  BY <1>1 DEF Publish, Replaced
<1>3. id \in DOMAIN published /\ published'[id] = published[id]
  BY <1>2
<1> SUFFICES ASSUME id \in DOMAIN tickets
             PROVE  /\ published'[new].user = published'[id].user
                    /\ published'[new].place > published'[id].place
  BY <1>2, <1>3 DEF Lapsed
<1>4. id \in Of(owner)
  BY <1>2
<1>5. published'[id].user = owner
  BY <1>3, <1>4 DEF Of, TicketsArePublished
<1>6. published'[id].place \in Nat /\ published'[id].place < n /\ n \in Nat
  BY <1>3, PublishedFinite DEF PlacesAreCounted, TypeOK, Ticket
<1>7. published'[new].user = owner /\ published'[new].place = n
  BY <1>2 DEF New
<1> QED
  BY <1>5, <1>6, <1>7

LEMMA LinksLapse ==
  ASSUME LinksInv, Next
  PROVE  \A id \in DOMAIN published' \ DOMAIN tickets' : Lapsed(id)
<1> SUFFICES ASSUME NEW id \in DOMAIN published' \ DOMAIN tickets'
             PROVE  Lapsed(id)
  OBVIOUS
<1>1. CASE \E r \in Request, u \in User, k \in Token : StartRequest(r, u, k)
  BY <1>1, CleaningLapses DEF StartRequest
<1>2. CASE CleanUp
  BY <1>2, CleaningLapses DEF CleanUp
<1>3. CASE \E r \in Request : Deliver(r) \/ MailFails(r)
  BY <1>3 DEF Deliver, MailFails, Lapsed
<1>4. CASE \E r \in Request : Publish(r)
  BY <1>4, PublishingLapses
<1>5. ASSUME NEW c \in Call, NEW k \in Token, StartComplete(c, k) PROVE Lapsed(id)
  <2>1. k \in Taken'
    BY <1>5 DEF StartComplete, Taken
  <2>2. DOMAIN tickets' = DOMAIN tickets \ {k} /\ UNCHANGED published
    BY <1>5 DEF StartComplete, Reserved, Without, Restrict
  <2> QED
    BY <2>1, <2>2 DEF Lapsed
<1>6. ASSUME NEW c \in Call, SetPassword(c) PROVE Lapsed(id)
  <2> DEFINE owner == calls[c].user
  <2>1. DOMAIN tickets' = DOMAIN tickets \ Of(owner) /\ UNCHANGED published
    BY <1>6 DEF SetPassword, Withdrawn, Without, Restrict
  <2>2. Of(owner) \subseteq reset'
    BY <1>6 DEF SetPassword, Of, PublishedFor, LinksInv, TicketsArePublished
  <2> QED
    BY <2>1, <2>2 DEF Lapsed
<1>7. CASE \E c \in Call : FailPassword(c)
  BY <1>7 DEF FailPassword, Lapsed
<1>8. CASE Tick \/ \E u \in User, state \in {"eligible", "ineligible", "gone"} : Administer(u, state)
  BY <1>8 DEF Tick, Administer, Lapsed
<1>9. CASE \E saved \in SUBSET Call : Restart(saved)
  BY <1>9 DEF Restart, Lapsed
<1> QED
  BY <1>1, <1>2, <1>3, <1>4, <1>5, <1>6, <1>7, <1>8, <1>9 DEF Next

\* Every link that is published and has not lapsed works: requests for one
\* user that overlap leave a link that works, however many they are.
THEOREM NewestWorks == Spec => NewestLinkWorks
<1> DEFINE Sound == \A id \in DOMAIN published' \ DOMAIN tickets' : Lapsed(id)
<1>1. ASSUME LinksInv, [Next]_vars PROVE [Sound]_vars
  BY <1>1, LinksLapse
<1>2. LinksInv /\ [Next]_vars => [Sound]_vars
  BY <1>1
<1>3. NewestLinkWorks <=> [][Sound]_vars
  BY DEF NewestLinkWorks, Lapsed
<1> HIDE DEF Sound
<1> QED
  BY <1>2, <1>3, LinksHold, PTL DEF Spec

-----------------------------------------------------------------------------
(***************************************************************************)
(* What TLAPS proves of AuthFlows, the flows that lead to a new link and   *)
(* to a new password, for any steps of the program: the types, what is on  *)
(* the surface manager in every state, and where the runner's pointer is.  *)
(*                                                                         *)
(* The argument: while a popup is open either nothing runs under it, or    *)
(* one command keeps it busy, or the message of one substep lies over it;  *)
(* what began with the popup goes on besides.                              *)
(***************************************************************************)

\* The request that runs from the opening of a popup on.
Background == "loadExternalProviders"

\* Nobody has pressed anything; a command is running; its message is up.
Quiet ==
  /\ surfaces = <<MainStep[flow]>> /\ ~busy
  /\ execution.active \subseteq {Background}
Runs(s) ==
  /\ surfaces = <<MainStep[flow]>> /\ busy
  /\ s \in Commands[flow] /\ execution.active \ {Background} = {s}
  /\ awaits[s] = "call" \/ (awaits[s] = "session" /\ s = "signIn")
Tells(s) ==
  /\ surfaces = <<MainStep[flow], s>> /\ ~busy
  /\ s \in Commands[flow] \cup {"externalProvider"}
  /\ execution.active \ {Background} = {s}
  /\ awaits[s] \in Messages

Closed == surfaces = <<>> /\ ~busy

PhaseInv ==
  /\ phase = "idle" => flow = None /\ Closed /\ Drained(execution)
  /\ phase = "inspecting" => flow = "resetPassword" /\ Closed /\ Drained(execution)
  /\ phase = "refusing" =>
       flow = "resetPassword" /\ surfaces = <<"checkToken">> /\ ~busy /\ Drained(execution)
  /\ phase = "open" => flow \in Flow /\ (Quiet \/ \E s \in Step : Runs(s) \/ Tells(s))
  /\ phase = "closing" =>
       /\ flow \in Flow /\ Closed
       /\ execution.active \subseteq {Background} \cup Commands[flow]
       /\ \A s \in Step : awaits[s] \notin Messages /\ (awaits[s] = "session" => s = "signIn")

AwaitsInv ==
  /\ \A s \in Step : awaits[s] # "nothing" <=> s \in execution.active
  /\ awaits[Background] \in {"nothing", "call"}

\* Where the pointer may go back to.
Returns(p) ==
  \/ p = MainStep[flow]
  \/ p = Background /\ Background \in execution.active \cup execution.overtaken

PointerInv ==
  /\ phase = "idle" => execution.current = None
  /\ phase \in {"inspecting", "refusing"} =>
       execution.current = "checkToken" /\ execution.status["checkToken"] = "running"
  /\ phase = "open" =>
       /\ execution.status[MainStep[flow]] = "waiting"
       /\ Background \in execution.active =>
            execution.previous[Background] = MainStep[flow] /\ execution.status[Background] = "running"
       /\ Quiet => Returns(execution.current)
       /\ \A s \in Step : Runs(s) \/ Tells(s) =>
            execution.current = s /\ execution.status[s] = "running" /\ Returns(execution.previous[s])

FlowsInv == FlowsTypeOK /\ PhaseInv /\ AwaitsInv /\ PointerInv

-----------------------------------------------------------------------------
LEMMA StepsOfFlows ==
  ASSUME NEW f \in Flow
  PROVE  /\ MainStep[f] \in Step
         /\ MainStep[f] \notin {Background, "externalProvider", "popupDisposing", "checkToken"}
         /\ Commands[f] \subseteq Step
         /\ Commands[f] \cap {Background, "externalProvider", "popupDisposing", "checkToken",
                              MainStep[f]} = {}
         /\ {Background, "externalProvider", "popupDisposing", "checkToken"} \subseteq Step
         /\ None \notin Step /\ None # f
<1>1. AllSteps \subseteq Step /\ None \notin Step \cup Flow
  BY StepsAssumption
<1>2. MainStep[f] \in AllSteps /\ Commands[f] \subseteq AllSteps
  BY DEF AllSteps
<1>3. {Background, "externalProvider", "popupDisposing", "checkToken"} \subseteq AllSteps
  BY DEF AllSteps, Background
<1>4. CASE f = "signin"
  BY <1>1, <1>2, <1>3, <1>4 DEF MainStep, Commands, Flow, Background
<1>5. CASE f = "register"
  BY <1>1, <1>2, <1>3, <1>5 DEF MainStep, Commands, Flow, Background
<1>6. CASE f = "changePassword"
  BY <1>1, <1>2, <1>3, <1>6 DEF MainStep, Commands, Flow, Background
<1>7. CASE f = "resetPassword"
  BY <1>1, <1>2, <1>3, <1>7 DEF MainStep, Commands, Flow, Background
<1> QED
  BY <1>4, <1>5, <1>6, <1>7 DEF Flow

LEMMA SubstepBegins ==
  ASSUME NEW e \in Execution, NEW s \in Step
  PROVE  LET b == Begun(e, s)
         IN  /\ b \in Execution
             /\ b.active = e.active \cup {s} /\ b.overtaken = e.overtaken \ {s}
             /\ b.current = s
             /\ b.previous[s] = e.current /\ b.status[s] = "running"
             /\ \A t \in Step \ {s} : b.previous[t] = e.previous[t] /\ b.status[t] = e.status[t]
  BY DEF Begun, Execution, Status

LEMMA SubstepEnds ==
  ASSUME NEW e \in Execution, NEW s \in Step, NEW outcome \in Over
  PROVE  LET b == Ended(e, s, outcome)
         IN  /\ b \in Execution
             /\ b.active = e.active \ {s}
             /\ e.current = s => b.current = e.previous[s] /\ b.overtaken = e.overtaken
             /\ e.current # s => b.current = e.current /\ b.overtaken = e.overtaken \cup {s}
             /\ b.previous = e.previous
             /\ \A t \in Step \ {s} : b.status[t] = e.status[t]
  BY DEF Ended, Restored, Execution, Status, Over

LEMMA StepExecutes ==
  ASSUME NEW e \in Execution, NEW s \in Step
  PROVE  /\ Executed(e, s) \in Execution
         /\ Executed(e, s).active = e.active
         /\ Executed(e, s).current = s
         /\ Executed(e, s).status[s] = "running"
  BY DEF Executed, Execution, Status

LEMMA StepWaits ==
  ASSUME NEW e \in Execution, NEW s \in Step
  PROVE  /\ Waiting(e, s) \in Execution
         /\ Waiting(e, s).active = e.active
         /\ Waiting(e, s).current = e.current
         /\ Waiting(e, s).status[s] = "waiting"
  BY DEF Waiting, Execution, Status

LEMMA StepCompletes ==
  ASSUME NEW e \in Execution, NEW s \in Step
  PROVE  Completed(e, s) \in Execution /\ Completed(e, s).active = e.active
  BY DEF Completed, Execution, Status

LEMMA NothingRuns == NewExecution \in Execution /\ NewExecution.active = {} /\ NewExecution.current = None
  BY DEF NewExecution, Execution, Status

LEMMA PopupDisposes ==
  ASSUME NEW e \in Execution, "popupDisposing" \in Step, "popupDisposing" \notin e.active
  PROVE  Disposing(e) \in Execution /\ Disposing(e).active = e.active
<1> DEFINE b == Begun(e, "popupDisposing")
<1>1. b \in Execution /\ b.active = e.active \cup {"popupDisposing"}
  BY SubstepBegins
<1>2. Disposing(e) = Ended(b, "popupDisposing", "completed")
  BY DEF Disposing
<1> HIDE DEF b
<1>3. "completed" \in Over
  BY DEF Over
<1>4. /\ Ended(b, "popupDisposing", "completed") \in Execution
      /\ Ended(b, "popupDisposing", "completed").active = b.active \ {"popupDisposing"}
  BY <1>1, <1>3, SubstepEnds
<1> QED
  BY <1>1, <1>2, <1>4

LEMMA FlowsStart == FlowsInit => FlowsInv
<1> SUFFICES ASSUME FlowsInit PROVE FlowsInv
  OBVIOUS
<1>1. Background \in Step
  BY StepsOfFlows DEF Flow
<1>2. execution \in Execution /\ execution.active = {} /\ execution.current = None
  BY NothingRuns DEF FlowsInit
<1>3. FlowsTypeOK
  <2>1. surfaces \in Seq(Step)
    BY DEF FlowsInit
  <2>2. awaits \in [Step -> Await]
    BY DEF FlowsInit, Await
  <2> QED
    BY <1>2, <2>1, <2>2 DEF FlowsInit, FlowsTypeOK
<1>4. PhaseInv
  BY <1>2 DEF FlowsInit, PhaseInv, Closed, Drained
<1>5. AwaitsInv
  BY <1>1, <1>2 DEF FlowsInit, AwaitsInv
<1>6. PointerInv
  BY <1>2 DEF FlowsInit, PointerInv
<1> QED
  BY <1>3, <1>4, <1>5, <1>6 DEF FlowsInv

\* The popup opens, its flow waits, and what it offers is being requested.
LEMMA PopupOpens ==
  ASSUME FlowsInv, NEW f \in Flow, NEW e \in Execution, e.active = {},
         Drained(execution), Opened(f, e), flow' = f, UNCHANGED <<busy, user>>, ~busy
  PROVE  FlowsInv'
<1> DEFINE m == MainStep[f]
           w == Waiting(Executed(e, m), m)
<1>1. /\ m \in Step /\ m # Background /\ Background \in Step
  BY StepsOfFlows
<1>2. /\ w \in Execution /\ w.active = {} /\ w.current = m /\ w.status[m] = "waiting"
  <2>1. Executed(e, m) \in Execution /\ Executed(e, m).active = {} /\ Executed(e, m).current = m
    BY <1>1, StepExecutes
  <2> QED
    BY <1>1, <2>1, StepWaits
<1> HIDE DEF w
<1>3. /\ phase' = "open" /\ surfaces' = <<m>> /\ flow' = f /\ ~busy' /\ user' = user
      /\ \/ execution' = Begun(w, Background) /\ awaits' = [awaits EXCEPT ![Background] = "call"]
         \/ execution' = w /\ awaits' = awaits
  BY DEF Opened, Await_, Background, w
<1>4. /\ awaits \in [Step -> Await] /\ \A s \in Step : awaits[s] = "nothing"
  BY DEF FlowsInv, AwaitsInv, FlowsTypeOK, Drained
<1>5. CASE execution' = w /\ awaits' = awaits
  <2>1. FlowsTypeOK'
    BY <1>1, <1>2, <1>3, <1>5 DEF FlowsInv, FlowsTypeOK
  <2>2. Quiet'
    BY <1>2, <1>3, <1>5 DEF Quiet
  <2>3. PhaseInv' /\ AwaitsInv'
    BY <1>1, <1>2, <1>3, <1>4, <1>5, <2>2 DEF PhaseInv, AwaitsInv
  <2>4. PointerInv'
    BY <1>1, <1>2, <1>3, <1>5 DEF PointerInv, Runs, Tells, Returns
  <2> QED
    BY <2>1, <2>3, <2>4 DEF FlowsInv
<1>6. CASE execution' = Begun(w, Background) /\ awaits' = [awaits EXCEPT ![Background] = "call"]
  <2> DEFINE b == Begun(w, Background)
  <2>1. /\ b \in Execution /\ b.active = {Background} /\ b.current = Background
        /\ b.previous[Background] = m /\ b.status[Background] = "running"
        /\ b.status[m] = "waiting"
    BY <1>1, <1>2, SubstepBegins
  <2> HIDE DEF b
  <2>2. execution' = b
    BY <1>6 DEF b
  <2>3. FlowsTypeOK'
    BY <1>1, <1>3, <1>6, <2>1, <2>2 DEF FlowsInv, FlowsTypeOK, Await
  <2>4. Quiet'
    BY <1>3, <2>1, <2>2 DEF Quiet
  <2>5. PhaseInv' /\ AwaitsInv'
    BY <1>1, <1>3, <1>4, <1>6, <2>1, <2>2, <2>4 DEF PhaseInv, AwaitsInv
  <2>6. PointerInv'
    BY <1>1, <1>3, <2>1, <2>2 DEF PointerInv, Runs, Tells, Returns
  <2> QED
    BY <2>3, <2>5, <2>6 DEF FlowsInv
<1> QED
  BY <1>3, <1>5, <1>6

LEMMA RefusalOpens ==
  ASSUME FlowsInv, NEW e \in Execution, e.active = {},
         Drained(execution), Refused(e), flow' = "resetPassword", UNCHANGED <<busy, user>>, ~busy
  PROVE  FlowsInv'
<1>1. "checkToken" \in Step
  BY StepsOfFlows DEF Flow
<1> DEFINE b == Executed(e, "checkToken")
<1>2. b \in Execution /\ b.active = {} /\ b.current = "checkToken" /\ b.status["checkToken"] = "running"
  BY <1>1, StepExecutes
<1> HIDE DEF b
<1>3. /\ phase' = "refusing" /\ surfaces' = <<"checkToken">> /\ execution' = b /\ awaits' = awaits
      /\ ~busy' /\ user' = user /\ flow' = "resetPassword"
  BY DEF Refused, b
<1> QED
  BY <1>1, <1>2, <1>3 DEF FlowsInv, FlowsTypeOK, PhaseInv, AwaitsInv, PointerInv, Drained, Flow

LEMMA RunKeeps ==
  ASSUME FlowsInv, NEW f \in Flow, Run(f)
  PROVE  FlowsInv'
<1>1. phase = "idle" /\ Drained(execution) /\ ~busy /\ surfaces = <<>>
  <2>1. phase # "idle" => flow \in Flow
    BY DEF FlowsInv, PhaseInv, FlowsTypeOK, Flow
  <2> QED
    BY <2>1, StepsAssumption DEF FlowsInv, PhaseInv, Run, Closed
<1>2. NewExecution \in Execution /\ NewExecution.active = {}
  BY NothingRuns
<1>3. CASE f # "resetPassword"
  BY <1>1, <1>2, <1>3, PopupOpens DEF Run
<1>4. CASE f = "resetPassword" /\ Refused(NewExecution)
  BY <1>1, <1>2, <1>4, RefusalOpens DEF Run
<1>5. CASE f = "resetPassword" /\ phase' = "inspecting"
  <2> DEFINE b == Executed(NewExecution, "checkToken")
  <2>1. "checkToken" \in Step
    BY StepsOfFlows
  <2>2. b \in Execution /\ b.active = {} /\ b.current = "checkToken" /\ b.status["checkToken"] = "running"
    BY <1>2, <2>1, StepExecutes
  <2> HIDE DEF b
  <2>3. /\ execution' = b /\ awaits' = awaits /\ surfaces' = <<>> /\ ~busy' /\ UNCHANGED <<busy, user>>
        /\ flow' = f
    BY <1>1, <1>5 DEF Run, b, Refused
  <2>4. FlowsTypeOK'
    <3>1. surfaces' \in Seq(Step)
      BY <2>3
    <3> QED
      BY <1>5, <2>2, <2>3, <3>1 DEF FlowsInv, FlowsTypeOK
  <2>5. PhaseInv'
    BY <1>5, <2>2, <2>3 DEF PhaseInv, Drained, Closed
  <2>6. AwaitsInv'
    BY <1>1, <2>2, <2>3 DEF FlowsInv, AwaitsInv, Drained
  <2>7. PointerInv'
    BY <1>5, <2>2, <2>3 DEF PointerInv
  <2> QED
    BY <2>4, <2>5, <2>6, <2>7 DEF FlowsInv
<1> QED
  BY <1>3, <1>4, <1>5 DEF Run

-----------------------------------------------------------------------------
\* What the guards of the actions say of the flow.
LEMMA PopupIsQuiet ==
  ASSUME FlowsInv, PopupOnTop, ~busy
  PROVE  phase = "open" /\ flow \in Flow /\ Quiet
<1>1. flow \in Flow
  BY DEF FlowsInv, FlowsTypeOK, PopupOnTop
<1>2. /\ surfaces # <<>> /\ surfaces[Len(surfaces)] = MainStep[flow]
      /\ MainStep[flow] # "checkToken" /\ MainStep[flow] # "externalProvider"
      /\ MainStep[flow] \notin Commands[flow]
  BY <1>1, StepsOfFlows DEF PopupOnTop, Top
<1>3. phase = "open"
  BY <1>2 DEF FlowsInv, FlowsTypeOK, PhaseInv, Closed
<1>4. ~\E s \in Step : Runs(s) \/ Tells(s)
  BY <1>2 DEF Runs, Tells
<1> QED
  BY <1>1, <1>3, <1>4 DEF FlowsInv, PhaseInv

LEMMA MessageIsUp ==
  ASSUME FlowsInv, NEW s \in Step, Top(s), awaits[s] \in Messages
  PROVE  phase = "open" /\ flow \in Flow /\ Tells(s)
<1>1. surfaces # <<>> /\ surfaces[Len(surfaces)] = s
  BY DEF Top
<1>2. s \in execution.active /\ s # Background
  BY DEF FlowsInv, AwaitsInv, Messages
<1>3. phase = "open" /\ flow \in Flow
  BY <1>1, <1>2 DEF FlowsInv, FlowsTypeOK, PhaseInv, Closed, Drained
<1>4. s # MainStep[flow]
  <2>1. Quiet => s # MainStep[flow]
    BY <1>2, <1>3, StepsOfFlows DEF Quiet
  <2>2. \A t \in Step : Runs(t) \/ Tells(t) => s # MainStep[flow]
    BY <1>2, <1>3, StepsOfFlows DEF Runs, Tells
  <2> QED
    BY <1>3, <2>1, <2>2 DEF FlowsInv, PhaseInv
<1>5. ~Quiet /\ \A t \in Step : ~Runs(t) /\ (Tells(t) => t = s)
  BY <1>1, <1>4 DEF Quiet, Runs, Tells
<1> QED
  BY <1>3, <1>5 DEF FlowsInv, PhaseInv

LEMMA CommandIsRunning ==
  ASSUME FlowsInv, NEW s \in Step, Calling(s) \/ (awaits[s] = "session")
  PROVE  /\ flow \in Flow /\ s # Background /\ s \in execution.active
         /\ s \in Commands[flow]
         /\ IsOpen => Runs(s)
         /\ ~IsOpen => phase = "closing"
<1>1. s \in execution.active /\ s # Background /\ awaits[s] \in {"call", "session"}
  BY DEF FlowsInv, AwaitsInv, Calling, Background
<1>2. phase \in {"open", "closing"} /\ flow \in Flow
  BY <1>1 DEF FlowsInv, FlowsTypeOK, PhaseInv, Drained
<1>3. CASE phase = "open"
  <2>1. ~Quiet /\ \A t \in Step : ~(Tells(t) /\ t = s)
    BY <1>1 DEF Quiet, Tells, Messages
  <2>2. \A t \in Step : Runs(t) \/ Tells(t) => t = s
    BY <1>1 DEF Runs, Tells
  <2> QED
    BY <1>1, <1>2, <1>3, <2>1, <2>2 DEF FlowsInv, PhaseInv, IsOpen, Runs
<1>4. CASE phase = "closing"
  BY <1>1, <1>2, <1>4 DEF FlowsInv, PhaseInv, IsOpen
<1> QED
  BY <1>2, <1>3, <1>4

-----------------------------------------------------------------------------
\* The popup closes.
LEMMA PopupCloses ==
  ASSUME FlowsInv, flow \in Flow, flow' = flow, NEW e \in Execution, ClosePopup(e),
         awaits' \in [Step -> Await], user' \in BOOLEAN,
         e.active \subseteq {Background} \cup Commands[flow],
         \A s \in Step :
           /\ awaits'[s] # "nothing" <=> s \in e.active
           /\ awaits'[s] \notin Messages /\ (awaits'[s] = "session" => s = "signIn"),
         awaits'[Background] \in {"nothing", "call"}
  PROVE  FlowsInv'
<1>1. phase' = "closing" /\ surfaces' = <<>> /\ busy' = FALSE /\ execution' = e
  BY DEF ClosePopup
<1>2. surfaces' \in Seq(Step)
  BY <1>1
<1>3. FlowsTypeOK'
  BY <1>1, <1>2 DEF FlowsTypeOK
<1>4. PhaseInv' /\ AwaitsInv' /\ PointerInv'
  BY <1>1 DEF PhaseInv, AwaitsInv, PointerInv, Closed
<1> QED
  BY <1>3, <1>4 DEF FlowsInv

\* What is in flight under an open popup.
LEMMA InFlight ==
  ASSUME FlowsInv, phase = "open"
  PROVE  /\ flow \in Flow
         /\ execution \in Execution /\ awaits \in [Step -> Await]
         /\ execution.active \subseteq {Background, "externalProvider"} \cup Commands[flow]
         /\ "popupDisposing" \notin execution.active
         /\ Disposing(execution) \in Execution
         /\ Disposing(execution).active = execution.active
<1>1. flow \in Flow /\ execution \in Execution /\ awaits \in [Step -> Await]
  BY DEF FlowsInv, FlowsTypeOK, PhaseInv
<1>2. execution.active \subseteq {Background, "externalProvider"} \cup Commands[flow]
  <2>1. Quiet => execution.active \subseteq {Background}
    BY DEF Quiet
  <2>2. \A s \in Step : Runs(s) \/ Tells(s) =>
          /\ execution.active \ {Background} = {s}
          /\ s \in Commands[flow] \cup {"externalProvider"}
    BY DEF Runs, Tells
  <2> QED
    BY <2>1, <2>2 DEF FlowsInv, PhaseInv
<1>3. "popupDisposing" \in Step /\ "popupDisposing" \notin execution.active
  BY <1>1, <1>2, StepsOfFlows DEF Background
<1> QED
  BY <1>1, <1>2, <1>3, PopupDisposes

LEMMA DismissKeeps == ASSUME FlowsInv, Dismiss PROVE FlowsInv'
<1>1. phase = "open" /\ flow \in Flow /\ Quiet
  BY PopupIsQuiet DEF Dismiss
<1>2. ClosePopup(Disposing(execution)) /\ UNCHANGED <<flow, awaits, user>>
  BY DEF Dismiss
<1>3. /\ Disposing(execution) \in Execution /\ Disposing(execution).active \subseteq {Background}
      /\ Disposing(execution).active = execution.active
  BY <1>1, InFlight DEF Quiet
<1>4. \A s \in Step :
        /\ awaits'[s] # "nothing" <=> s \in Disposing(execution).active
        /\ awaits'[s] \notin Messages /\ (awaits'[s] = "session" => s = "signIn")
  BY <1>2, <1>3 DEF FlowsInv, AwaitsInv, Messages
<1> QED
  BY <1>1, <1>2, <1>3, <1>4, PopupCloses DEF FlowsInv, FlowsTypeOK, AwaitsInv

\* The popup closes with the message, or with the command, of a substep.
LEMMA ClosesWithSubstep ==
  ASSUME FlowsInv, NEW s \in Step, phase = "open", Runs(s) \/ Tells(s),
         ClosePopup(Ended(Disposing(execution), s, "completed")), Await_(s, "nothing"),
         flow' = flow, user' \in BOOLEAN
  PROVE  FlowsInv'
<1> DEFINE d == Disposing(execution)
           e == Ended(d, s, "completed")
<1>1. /\ flow \in Flow /\ d \in Execution /\ d.active = execution.active
      /\ awaits \in [Step -> Await]
  BY InFlight
<1> HIDE DEF d
<1>2. e \in Execution /\ e.active = execution.active \ {s}
  BY <1>1, SubstepEnds DEF Over
<1>3. execution.active \ {Background} = {s} /\ s \in Step \ {Background}
  BY DEF Runs, Tells
<1>4. ClosePopup(e)
  BY DEF d
<1> HIDE DEF e
<1>5. awaits' = [awaits EXCEPT ![s] = "nothing"]
  BY DEF Await_
<1>6. awaits' \in [Step -> Await]
  BY <1>1, <1>5 DEF Await
<1>7. \A t \in Step :
        /\ awaits'[t] # "nothing" <=> t \in e.active
        /\ awaits'[t] \notin Messages /\ (awaits'[t] = "session" => t = "signIn")
  BY <1>1, <1>2, <1>3, <1>5 DEF FlowsInv, AwaitsInv, Messages
<1>8. awaits'[Background] \in {"nothing", "call"} /\ e.active \subseteq {Background}
  BY <1>1, <1>2, <1>3, <1>5, StepsOfFlows DEF FlowsInv, AwaitsInv
<1> QED
  BY <1>1, <1>2, <1>4, <1>6, <1>7, <1>8, PopupCloses

LEMMA HostClosesKeeps == ASSUME FlowsInv, HostCloses PROVE FlowsInv'
<1> DEFINE top == surfaces[Len(surfaces)]
           closed == IF IsOpen THEN Disposing(execution) ELSE execution
<1>1. /\ surfaces # <<>> /\ flow' = flow /\ user' = user
      /\ IF awaits[top] \in Messages
         THEN ClosePopup(Ended(closed, top, "completed")) /\ Await_(top, "nothing")
         ELSE ClosePopup(closed) /\ UNCHANGED awaits
  BY DEF HostCloses
<1>2. user' \in BOOLEAN /\ top \in Step /\ Top(top)
  BY <1>1 DEF FlowsInv, FlowsTypeOK, Top
<1>3. phase \in {"open", "refusing"} /\ flow \in Flow
  BY <1>1 DEF FlowsInv, FlowsTypeOK, PhaseInv, Closed, Flow
<1>4. CASE awaits[top] \in Messages
  <2>1. phase = "open" /\ Tells(top)
    BY <1>2, <1>4, MessageIsUp
  <2> QED
    BY <1>1, <1>2, <1>4, <2>1, ClosesWithSubstep DEF IsOpen
<1>5. CASE awaits[top] \notin Messages
  <2> HIDE DEF top
  <2>1. ClosePopup(closed) /\ awaits' = awaits
    BY <1>1, <1>5
  <2>2. /\ closed \in Execution /\ closed.active = execution.active
    BY <1>3, InFlight DEF IsOpen, FlowsInv, FlowsTypeOK
  <2>3. /\ execution.active \subseteq {Background} \cup Commands[flow]
        /\ \A s \in Step : awaits[s] \notin Messages /\ (awaits[s] = "session" => s = "signIn")
    <3>1. CASE phase = "refusing"
      BY <3>1 DEF FlowsInv, PhaseInv, AwaitsInv, Drained, Messages
    <3>2. CASE phase = "open" /\ Quiet
      BY <3>2 DEF FlowsInv, AwaitsInv, Messages, Quiet
    <3>3. ASSUME phase = "open", NEW s \in Step, Runs(s)
          PROVE  <2>3!1 /\ <2>3!2
      BY <3>3 DEF FlowsInv, AwaitsInv, Messages, Runs
    <3>4. ASSUME phase = "open", NEW s \in Step, Tells(s) PROVE FALSE
      BY <1>5, <3>4 DEF Tells, top
    <3> QED
      BY <1>3, <3>1, <3>2, <3>3, <3>4 DEF FlowsInv, PhaseInv
  <2> HIDE DEF closed
  <2> QED
    BY <1>2, <1>3, <1>1, <2>1, <2>2, <2>3, PopupCloses DEF FlowsInv, FlowsTypeOK, AwaitsInv
<1> QED
  BY <1>4, <1>5

LEMMA InspectionKeeps ==
  ASSUME FlowsInv, NEW answer \in {"valid", "invalid", "error"}, InspectionSettles(answer)
  PROVE  FlowsInv'
<1>1. /\ flow = "resetPassword" /\ flow' = flow /\ surfaces = <<>> /\ ~busy
      /\ execution.active = {} /\ Drained(execution) /\ execution \in Execution
      /\ UNCHANGED <<busy, user>> /\ "checkToken" \in Step /\ flow \in Flow
  BY StepsOfFlows DEF InspectionSettles, FlowsInv, FlowsTypeOK, PhaseInv, Closed, Drained, Flow
<1>2. CASE answer = "valid"
  <2>1. Completed(execution, "checkToken") \in Execution /\ Completed(execution, "checkToken").active = {}
    BY <1>1, StepCompletes
  <2> QED
    BY <1>1, <1>2, <2>1, PopupOpens DEF InspectionSettles
<1>3. CASE answer = "invalid"
  BY <1>1, <1>3, RefusalOpens DEF InspectionSettles
<1>4. CASE answer = "error"
  <2>1. /\ phase' = "closing" /\ awaits' = awaits /\ surfaces' = surfaces
        /\ execution' = [execution EXCEPT !.status["checkToken"] = "failed"]
    BY <1>4 DEF InspectionSettles
  <2>2. execution' \in Execution /\ execution'.active = {}
    BY <1>1, <2>1 DEF Execution, Status
  <2>3. FlowsTypeOK'
    BY <1>1, <2>1, <2>2 DEF FlowsInv, FlowsTypeOK
  <2>4. AwaitsInv' /\ PointerInv'
    BY <1>1, <2>1, <2>2 DEF FlowsInv, AwaitsInv, PointerInv
  <2>5. PhaseInv'
    BY <1>1, <2>1, <2>2 DEF FlowsInv, PhaseInv, AwaitsInv, Messages, Closed
  <2> QED
    BY <2>3, <2>4, <2>5 DEF FlowsInv
<1> QED
  BY <1>2, <1>3, <1>4

LEMMA EndFlowKeeps == ASSUME FlowsInv, EndFlow PROVE FlowsInv'
<1>1. /\ phase' = "idle" /\ flow' = None /\ execution' = NewExecution
      /\ UNCHANGED <<awaits, surfaces, busy, user>>
      /\ surfaces = <<>> /\ ~busy /\ execution.active = {}
  BY DEF EndFlow, FlowsInv, PhaseInv, Closed, Drained
<1> QED
  BY <1>1, NothingRuns
  DEF FlowsInv, FlowsTypeOK, PhaseInv, AwaitsInv, PointerInv, Closed, Drained

LEMMA AnswerRefusalKeeps == ASSUME FlowsInv, AnswerRefusal PROVE FlowsInv'
<1>1. /\ phase = "refusing" /\ phase' = "closing" /\ surfaces' = <<>>
      /\ UNCHANGED <<flow, execution, awaits, busy, user>>
  BY DEF AnswerRefusal
<1>2. surfaces' \in Seq(Step)
  BY <1>1
<1> QED
  BY <1>1, <1>2
  DEF FlowsInv, FlowsTypeOK, PhaseInv, AwaitsInv, PointerInv, Closed, Drained, Flow, Messages

LEMMA StillKeeps ==
  ASSUME FlowsInv, UNCHANGED <<flow, phase, execution, awaits, surfaces, busy>>, user' \in BOOLEAN
  PROVE  FlowsInv'
  BY DEF FlowsInv, FlowsTypeOK, PhaseInv, AwaitsInv, PointerInv, Closed, Quiet, Runs, Tells, Returns

\* What opening the popup started is answered, or aborted.
LEMMA ProvidersSettleKeeps == ASSUME FlowsInv, ProvidersSettle PROVE FlowsInv'
<1> DEFINE b == Ended(execution, Background, "completed")
<1>1. /\ awaits[Background] = "call" /\ execution' = b
      /\ awaits' = [awaits EXCEPT ![Background] = "nothing"]
      /\ UNCHANGED <<flow, phase, surfaces, busy, user>>
  BY DEF ProvidersSettle, Await_, Background
<1>2. /\ execution \in Execution /\ awaits \in [Step -> Await]
      /\ Background \in execution.active /\ Background \in Step
  BY <1>1, StepsOfFlows DEF FlowsInv, FlowsTypeOK, AwaitsInv, Flow
<1>3. /\ b \in Execution /\ b.active = execution.active \ {Background}
      /\ execution.current = Background =>
           b.current = execution.previous[Background] /\ b.overtaken = execution.overtaken
      /\ execution.current # Background =>
           b.current = execution.current /\ b.overtaken = execution.overtaken \cup {Background}
      /\ b.previous = execution.previous
      /\ \A t \in Step \ {Background} : b.status[t] = execution.status[t]
  BY <1>2, SubstepEnds DEF Over
<1> HIDE DEF b
<1>4. FlowsTypeOK' /\ AwaitsInv'
  BY <1>1, <1>2, <1>3 DEF FlowsInv, FlowsTypeOK, AwaitsInv, Await
<1>5. phase \in {"open", "closing"} /\ flow \in Flow
  BY <1>2 DEF FlowsInv, FlowsTypeOK, PhaseInv, Drained
<1>6. CASE phase = "closing"
  <2>1. PhaseInv' /\ PointerInv'
    BY <1>1, <1>2, <1>3, <1>6 DEF FlowsInv, PhaseInv, PointerInv, Closed, Messages
  <2> QED
    BY <1>4, <2>1 DEF FlowsInv
<1>7. CASE phase = "open"
  <2>1. /\ Quiet => Quiet'
        /\ \A s \in Step : (Runs(s) <=> Runs(s)') /\ (Tells(s) <=> Tells(s)')
    <3>1. Quiet => Quiet'
      BY <1>1, <1>3 DEF Quiet
    <3>2. ASSUME NEW s \in Step PROVE (Runs(s) <=> Runs(s)') /\ (Tells(s) <=> Tells(s)')
      BY <1>1, <1>2, <1>3, <1>5, StepsOfFlows DEF Runs, Tells, Messages, Background
    <3> QED
      BY <3>1, <3>2
  <2>2. PhaseInv'
    BY <1>1, <1>5, <1>7, <2>1 DEF FlowsInv, PhaseInv
  <2>3. MainStep[flow] \in Step \ {Background}
    BY <1>5, StepsOfFlows
  <2>4. Quiet' => Returns(execution.current)
    <3>1. ASSUME Quiet', NEW s \in Step, Runs(s) \/ Tells(s) PROVE FALSE
      BY <1>1, <1>3, <3>1 DEF Runs, Tells, Quiet
    <3> QED
      BY <1>7, <3>1 DEF FlowsInv, PhaseInv, PointerInv
  <2>5. /\ execution'.status[MainStep[flow]] = "waiting"
        /\ Background \notin execution'.active
        /\ execution.previous[Background] = MainStep[flow]
    BY <1>1, <1>2, <1>3, <1>7, <2>3 DEF FlowsInv, PointerInv
  <2>6. Quiet' => Returns(execution.current)'
    BY <1>1, <1>3, <2>3, <2>4, <2>5 DEF Returns
  <2>7. ASSUME NEW s \in Step, Runs(s)' \/ Tells(s)'
        PROVE  execution'.current = s /\ execution'.status[s] = "running"
               /\ Returns(execution.previous[s])'
    <3>1. execution.current = s /\ execution.status[s] = "running" /\ Returns(execution.previous[s])
      BY <1>7, <2>1, <2>7 DEF FlowsInv, PointerInv
    <3>2. s # Background
      BY <2>1, <2>7 DEF Runs, Tells
    <3> QED
      BY <1>1, <1>3, <3>1, <3>2 DEF Returns
  <2>8. PointerInv'
    BY <1>1, <1>7, <2>5, <2>6, <2>7 DEF PointerInv
  <2> QED
    BY <1>4, <2>2, <2>8 DEF FlowsInv
<1> QED
  BY <1>5, <1>6, <1>7

\* A substep begins under an open popup.
LEMMA SubstepUnderPopup ==
  ASSUME FlowsInv, phase = "open", Quiet,
         NEW s \in Commands[flow] \cup {"externalProvider"}
  PROVE  LET b == Begun(execution, s)
         IN  /\ s \in Step /\ s # Background /\ s \notin execution.active
             /\ s # MainStep[flow] /\ flow \in Flow
             /\ b \in Execution /\ b.active = execution.active \cup {s}
             /\ b.active \ {Background} = {s}
             /\ b.current = s /\ b.status[s] = "running"
             /\ b.status[MainStep[flow]] = "waiting"
             /\ Background \in b.active =>
                  b.previous[Background] = MainStep[flow] /\ b.status[Background] = "running"
             /\ \/ b.previous[s] = MainStep[flow]
                \/ b.previous[s] = Background /\ Background \in b.active \cup b.overtaken
<1> DEFINE b == Begun(execution, s)
<1>1. flow \in Flow /\ execution \in Execution
  BY InFlight
<1>2. /\ s \in Step /\ s # Background /\ s # MainStep[flow]
      /\ MainStep[flow] \in Step /\ Background \in Step
  BY <1>1, StepsOfFlows DEF Background
<1>3. execution.active \subseteq {Background}
  BY DEF Quiet
<1>4. /\ b \in Execution
      /\ b.active = execution.active \cup {s} /\ b.overtaken = execution.overtaken \ {s}
      /\ b.current = s
      /\ b.previous[s] = execution.current /\ b.status[s] = "running"
      /\ \A t \in Step \ {s} : b.previous[t] = execution.previous[t] /\ b.status[t] = execution.status[t]
  BY <1>1, <1>2, SubstepBegins
<1> HIDE DEF b
<1>5. /\ execution.status[MainStep[flow]] = "waiting"
      /\ Background \in execution.active =>
            execution.previous[Background] = MainStep[flow] /\ execution.status[Background] = "running"
      /\ Returns(execution.current)
  BY DEF FlowsInv, PointerInv
<1>6. /\ b.active \ {Background} = {s} /\ s \notin execution.active
      /\ b.status[MainStep[flow]] = "waiting"
      /\ Background \in b.active =>
           b.previous[Background] = MainStep[flow] /\ b.status[Background] = "running"
      /\ \/ b.previous[s] = MainStep[flow]
         \/ b.previous[s] = Background /\ Background \in b.active \cup b.overtaken
  BY <1>2, <1>3, <1>4, <1>5 DEF Returns
<1> QED
  BY <1>1, <1>2, <1>4, <1>6 DEF b

\* ... and ends, with the popup as it was before.
LEMMA PopupIsBack ==
  ASSUME FlowsInv, phase = "open", flow \in Flow,
         NEW b \in Execution, NEW s \in Step, s # Background, s # MainStep[flow],
         NEW outcome \in Over,
         b.active \ {Background} = {s}, b.current = s,
         b.status[MainStep[flow]] = "waiting",
         Background \in b.active =>
           b.previous[Background] = MainStep[flow] /\ b.status[Background] = "running",
         \/ b.previous[s] = MainStep[flow]
         \/ b.previous[s] = Background /\ Background \in b.active \cup b.overtaken,
         execution' = Ended(b, s, outcome),
         surfaces' = <<MainStep[flow]>>, ~busy', busy' \in BOOLEAN,
         UNCHANGED <<flow, phase, user>>,
         awaits' \in [Step -> Await],
         \A t \in Step : awaits'[t] # "nothing" <=> t \in b.active \ {s},
         awaits'[Background] \in {"nothing", "call"}
  PROVE  FlowsInv'
<1> DEFINE e == Ended(b, s, outcome)
<1>1. MainStep[flow] \in Step /\ MainStep[flow] # Background /\ Background \in Step
  BY StepsOfFlows
<1>2. /\ e \in Execution /\ e.active = b.active \ {s}
      /\ e.current = b.previous[s] /\ e.overtaken = b.overtaken
      /\ e.previous = b.previous
      /\ \A t \in Step \ {s} : e.status[t] = b.status[t]
  BY SubstepEnds
<1> HIDE DEF e
<1>3. execution' = e
  BY DEF e
<1>4. surfaces' \in Seq(Step)
  BY <1>1
<1>5. FlowsTypeOK'
  BY <1>2, <1>3, <1>4 DEF FlowsInv, FlowsTypeOK
<1>6. Quiet' /\ \A t \in Step : ~Runs(t)' /\ ~Tells(t)'
  <2>1. Quiet'
    BY <1>2, <1>3 DEF Quiet
  <2>2. ASSUME NEW t \in Step PROVE ~Runs(t)' /\ ~Tells(t)'
    BY <1>2, <1>3 DEF Runs, Tells
  <2> QED
    BY <2>1, <2>2
<1>7. PhaseInv' /\ AwaitsInv'
  BY <1>2, <1>3, <1>6 DEF PhaseInv, AwaitsInv
<1>8. PointerInv'
  BY <1>1, <1>2, <1>3, <1>6 DEF PointerInv, Returns
<1> QED
  BY <1>5, <1>7, <1>8 DEF FlowsInv

\* A substep that stops at once: what was entered does not do, or the page is
\* on its way to the provider.
LEMMA AtOnce ==
  ASSUME FlowsInv, phase = "open", Quiet,
         NEW s \in Commands[flow] \cup {"externalProvider"},
         execution' = Ended(Begun(execution, s), s, "completed"),
         UNCHANGED <<flow, phase, surfaces, busy, awaits, user>>
  PROVE  FlowsInv'
<1> DEFINE b == Begun(execution, s)
<1>1. /\ s \in Step /\ s # Background /\ s \notin execution.active
      /\ s # MainStep[flow] /\ flow \in Flow
      /\ b \in Execution /\ b.active = execution.active \cup {s}
      /\ b.active \ {Background} = {s}
      /\ b.current = s /\ b.status[s] = "running"
      /\ b.status[MainStep[flow]] = "waiting"
      /\ Background \in b.active =>
           b.previous[Background] = MainStep[flow] /\ b.status[Background] = "running"
      /\ \/ b.previous[s] = MainStep[flow]
         \/ b.previous[s] = Background /\ Background \in b.active \cup b.overtaken
  BY SubstepUnderPopup
<1> HIDE DEF b
<1>2. execution' = Ended(b, s, "completed") /\ "completed" \in Over
  BY DEF b, Over
<1>3. /\ surfaces' = <<MainStep[flow]>> /\ ~busy' /\ busy' \in BOOLEAN
      /\ awaits' \in [Step -> Await]
      /\ \A t \in Step : awaits'[t] # "nothing" <=> t \in b.active \ {s}
      /\ awaits'[Background] \in {"nothing", "call"}
  BY <1>1 DEF Quiet, FlowsInv, FlowsTypeOK, AwaitsInv
<1> QED
  BY <1>1, <1>2, <1>3, PopupIsBack

\* A substep that goes on: a running command, or a message over the popup.
LEMMA GoesOn ==
  ASSUME FlowsInv, phase = "open", flow \in Flow, UNCHANGED <<flow, phase>>, user' \in BOOLEAN,
         NEW s \in Step, (Runs(s) \/ Tells(s))', busy' \in BOOLEAN,
         execution' \in Execution, awaits' \in [Step -> Await],
         execution'.current = s, execution'.status[s] = "running",
         execution'.status[MainStep[flow]] = "waiting",
         Background \in execution'.active =>
           execution'.previous[Background] = MainStep[flow]
             /\ execution'.status[Background] = "running",
         Returns(execution.previous[s])',
         \A t \in Step : awaits'[t] # "nothing" <=> t \in execution'.active,
         awaits'[Background] \in {"nothing", "call"}
  PROVE  FlowsInv'
<1>1. ~Quiet' /\ \A t \in Step : (Runs(t) \/ Tells(t))' => t = s
  BY DEF Quiet, Runs, Tells
<1>2. surfaces' \in Seq(Step)
  <2>1. MainStep[flow] \in Step
    BY StepsOfFlows
  <2>2. surfaces' = <<MainStep[flow]>> \/ surfaces' = <<MainStep[flow], s>>
    BY DEF Runs, Tells
  <2>3. <<MainStep[flow]>> \in Seq(Step) /\ <<MainStep[flow], s>> \in Seq(Step)
    BY <2>1
  <2> QED
    BY <2>2, <2>3
<1>3. FlowsTypeOK'
  BY <1>2 DEF FlowsInv, FlowsTypeOK
<1>4. PhaseInv' /\ AwaitsInv'
  BY DEF PhaseInv, AwaitsInv
<1>5. PointerInv'
  BY <1>1 DEF PointerInv
<1> QED
  BY <1>3, <1>4, <1>5 DEF FlowsInv

LEMMA BeginsAndGoesOn ==
  ASSUME FlowsInv, phase = "open", Quiet,
         NEW s \in Commands[flow] \cup {"externalProvider"},
         NEW what \in {"call"} \cup Messages, what = "call" => s \in Commands[flow],
         execution' = Begun(execution, s), Await_(s, what), UNCHANGED <<flow, phase, user>>,
         \/ what = "call" /\ busy' = TRUE /\ UNCHANGED surfaces
         \/ what \in Messages /\ busy' = FALSE /\ surfaces' = Append(surfaces, s)
  PROVE  FlowsInv'
<1> DEFINE b == Begun(execution, s)
<1>1. /\ s \in Step /\ s # Background /\ s \notin execution.active
      /\ s # MainStep[flow] /\ flow \in Flow
      /\ b \in Execution /\ b.active = execution.active \cup {s}
      /\ b.active \ {Background} = {s}
      /\ b.current = s /\ b.status[s] = "running"
      /\ b.status[MainStep[flow]] = "waiting"
      /\ Background \in b.active =>
           b.previous[Background] = MainStep[flow] /\ b.status[Background] = "running"
      /\ \/ b.previous[s] = MainStep[flow]
         \/ b.previous[s] = Background /\ Background \in b.active \cup b.overtaken
  BY SubstepUnderPopup
<1>2. execution' = b
  OBVIOUS
<1> HIDE DEF b
<1>3. awaits \in [Step -> Await] /\ awaits' = [awaits EXCEPT ![s] = what]
  BY DEF FlowsInv, FlowsTypeOK, Await_
<1>4. awaits' \in [Step -> Await] /\ awaits'[s] = what
  BY <1>1, <1>3 DEF Await, Messages
<1>5. \A t \in Step : awaits'[t] # "nothing" <=> t \in execution'.active
  BY <1>1, <1>2, <1>3, <1>4 DEF FlowsInv, AwaitsInv, Messages
<1>6. awaits'[Background] \in {"nothing", "call"}
  BY <1>1, <1>3, StepsOfFlows DEF FlowsInv, AwaitsInv
<1>7. (Runs(s) \/ Tells(s))' /\ busy' \in BOOLEAN
  <2>1. surfaces = <<MainStep[flow]>>
    BY DEF Quiet
  <2>2. what \in Messages => surfaces' = <<MainStep[flow], s>>
    BY <2>1 DEF Messages
  <2> QED
    BY <1>1, <1>2, <1>4, <2>1, <2>2 DEF Runs, Tells, Messages
<1>8. Returns(execution.previous[s])'
  BY <1>1, <1>2 DEF Returns
<1>9. user' \in BOOLEAN
  BY DEF FlowsInv, FlowsTypeOK
<1> QED
  BY <1>1, <1>2, <1>4, <1>5, <1>6, <1>7, <1>8, <1>9, GoesOn

LEMMA CommandKeeps ==
  ASSUME FlowsInv, NEW s \in Step, NEW filledIn \in BOOLEAN, Command(s, filledIn)
  PROVE  FlowsInv'
<1>1. phase = "open" /\ flow \in Flow /\ Quiet /\ s \in Commands[flow]
  BY PopupIsQuiet DEF Command
<1>2. CASE filledIn
  BY <1>1, <1>2, BeginsAndGoesOn DEF Command
<1>3. CASE ~filledIn
  BY <1>1, <1>3, AtOnce DEF Command
<1> QED
  BY <1>2, <1>3

LEMMA ChooseProviderKeeps ==
  ASSUME FlowsInv, NEW starts \in BOOLEAN, ChooseProvider(starts)
  PROVE  FlowsInv'
<1>1. phase = "open" /\ flow \in Flow /\ Quiet
  BY PopupIsQuiet DEF ChooseProvider
<1>2. CASE starts
  BY <1>1, <1>2, AtOnce DEF ChooseProvider
<1>3. CASE ~starts
  <2> DEFINE what == IF flow = "signin" THEN "decide" ELSE "stay"
  <2>1. /\ what \in Messages /\ what # "call"
        /\ execution' = Begun(execution, "externalProvider") /\ UNCHANGED <<flow, phase, user>>
        /\ Await_("externalProvider", what)
        /\ busy' = FALSE /\ surfaces' = Append(surfaces, "externalProvider")
    BY <1>3 DEF ChooseProvider, Tell, Messages
  <2> HIDE DEF what
  <2> QED
    BY <1>1, <2>1, BeginsAndGoesOn
<1> QED
  BY <1>2, <1>3

\* The substep under an open popup goes on, with another thing to wait for.
LEMMA WaitsForMore ==
  ASSUME FlowsInv, phase = "open", NEW s \in Step, Runs(s) \/ Tells(s),
         NEW what \in Await, what # "nothing", (Runs(s) \/ Tells(s))',
         UNCHANGED <<flow, phase, execution>>, Await_(s, what),
         busy' \in BOOLEAN, user' \in BOOLEAN
  PROVE  FlowsInv'
<1>1. /\ flow \in Flow /\ awaits \in [Step -> Await] /\ execution \in Execution
      /\ s # Background /\ s \in execution.active
  BY InFlight DEF Runs, Tells
<1>2. awaits' = [awaits EXCEPT ![s] = what]
  BY DEF Await_
<1>3. /\ awaits' \in [Step -> Await]
      /\ \A t \in Step : awaits'[t] # "nothing" <=> t \in execution.active
      /\ awaits'[Background] \in {"nothing", "call"}
  BY <1>1, <1>2, StepsOfFlows DEF FlowsInv, AwaitsInv
<1>4. /\ execution.current = s /\ execution.status[s] = "running"
      /\ execution.status[MainStep[flow]] = "waiting"
      /\ Background \in execution.active =>
            execution.previous[Background] = MainStep[flow] /\ execution.status[Background] = "running"
      /\ Returns(execution.previous[s])
  BY DEF FlowsInv, PointerInv
<1>5. Returns(execution.previous[s])'
  BY <1>4 DEF Returns
<1> QED
  BY <1>1, <1>3, <1>4, <1>5, GoesOn

\* ... and ends there.
LEMMA EndsUnderPopup ==
  ASSUME FlowsInv, phase = "open", NEW s \in Step, Runs(s) \/ Tells(s),
         NEW outcome \in Over, execution' = Ended(execution, s, outcome),
         Await_(s, "nothing"), surfaces' = <<MainStep[flow]>>, ~busy', busy' \in BOOLEAN,
         UNCHANGED <<flow, phase, user>>
  PROVE  FlowsInv'
<1>1. /\ flow \in Flow /\ awaits \in [Step -> Await] /\ execution \in Execution
      /\ s # Background /\ execution.active \ {Background} = {s} /\ s \in execution.active
      /\ s # MainStep[flow]
  BY InFlight, StepsOfFlows DEF Runs, Tells
<1>2. awaits' = [awaits EXCEPT ![s] = "nothing"]
  BY DEF Await_
<1>3. /\ awaits' \in [Step -> Await]
      /\ \A t \in Step : awaits'[t] # "nothing" <=> t \in execution.active \ {s}
      /\ awaits'[Background] \in {"nothing", "call"}
  BY <1>1, <1>2, StepsOfFlows DEF FlowsInv, AwaitsInv, Await
<1>4. /\ execution.current = s
      /\ execution.status[MainStep[flow]] = "waiting"
      /\ Background \in execution.active =>
            execution.previous[Background] = MainStep[flow] /\ execution.status[Background] = "running"
      /\ \/ execution.previous[s] = MainStep[flow]
         \/ /\ execution.previous[s] = Background
            /\ Background \in execution.active \cup execution.overtaken
  BY DEF FlowsInv, PointerInv, Returns
<1> QED
  BY <1>1, <1>3, <1>4, PopupIsBack

\* A command settles after its popup has gone.
LEMMA SettlesLate ==
  ASSUME FlowsInv, phase = "closing", NEW s \in Step, s # Background,
         \/ GivesUp(s)
         \/ /\ s = "signIn" /\ awaits[s] # "nothing" /\ Await_(s, "session")
            /\ UNCHANGED <<phase, execution, surfaces, busy>>,
         UNCHANGED flow, user' \in BOOLEAN
  PROVE  FlowsInv'
<1>1. awaits \in [Step -> Await] /\ execution \in Execution /\ flow \in Flow
  BY DEF FlowsInv, FlowsTypeOK, PhaseInv
<1>2. /\ UNCHANGED <<flow, phase, surfaces, busy>>
      /\ \/ /\ execution' = Ended(execution, s, "completed")
            /\ awaits' = [awaits EXCEPT ![s] = "nothing"]
         \/ /\ s = "signIn" /\ awaits[s] # "nothing" /\ execution' = execution
            /\ awaits' = [awaits EXCEPT ![s] = "session"]
  BY DEF GivesUp, Await_
<1>3. awaits' \in [Step -> Await]
  BY <1>1, <1>2 DEF Await
<1>4. \/ /\ execution' \in Execution /\ execution'.active = execution.active \ {s}
         /\ awaits' = [awaits EXCEPT ![s] = "nothing"]
      \/ /\ s = "signIn" /\ awaits[s] # "nothing" /\ execution' = execution
         /\ awaits' = [awaits EXCEPT ![s] = "session"]
  BY <1>1, <1>2, SubstepEnds DEF Over
<1>5. execution' \in Execution /\ execution'.active \subseteq execution.active
  BY <1>1, <1>4
<1>6. FlowsTypeOK'
  BY <1>2, <1>3, <1>5 DEF FlowsInv, FlowsTypeOK
<1>7. AwaitsInv'
  BY <1>1, <1>4, StepsOfFlows DEF FlowsInv, AwaitsInv
<1>8. \A t \in Step : awaits'[t] \notin Messages /\ (awaits'[t] = "session" => t = "signIn")
  BY <1>1, <1>4 DEF FlowsInv, PhaseInv, Messages
<1>9. PhaseInv' /\ PointerInv'
  BY <1>2, <1>5, <1>8 DEF FlowsInv, PhaseInv, PointerInv, Closed
<1> QED
  BY <1>6, <1>7, <1>9 DEF FlowsInv

LEMMA OnTopOfOne ==
  ASSUME NEW S, NEW a \in S, NEW b \in S
  PROVE  Append(<<a>>, b) = <<a, b>>
<1>1. <<a>> \in Seq(S) /\ <<a, b>> \in Seq(S) /\ Len(<<a, b>>) = 2 /\ Len(<<a>>) = 1
  OBVIOUS
<1>2. /\ Append(<<a>>, b) \in Seq(S) /\ Len(Append(<<a>>, b)) = 2
      /\ Append(<<a>>, b)[1] = a /\ Append(<<a>>, b)[2] = b
  BY <1>1
<1>3. \A i \in 1..2 : Append(<<a>>, b)[i] = <<a, b>>[i]
  BY <1>2
<1> QED
  BY <1>1, <1>2, <1>3, SeqEqual

\* A message over the popup of a running command.
LEMMA CommandTells ==
  ASSUME FlowsInv, phase = "open", NEW s \in Step, Runs(s), NEW what \in Messages,
         Tell(s, what), UNCHANGED <<flow, phase, execution, user>>
  PROVE  FlowsInv'
<1>1. /\ awaits \in [Step -> Await] /\ surfaces = <<MainStep[flow]>>
      /\ s \in Commands[flow] /\ execution.active \ {Background} = {s}
  BY InFlight DEF Runs
<1>2. Await_(s, what) /\ busy' = FALSE /\ surfaces' = <<MainStep[flow], s>>
  <2>1. Await_(s, what) /\ busy' = FALSE /\ surfaces' = Append(surfaces, s)
    BY DEF Tell
  <2>2. surfaces' = Append(<<MainStep[flow]>>, s)
    BY <1>1, <2>1
  <2>3. Append(<<MainStep[flow]>>, s) = <<MainStep[flow], s>>
    BY StepsOfFlows, InFlight, OnTopOfOne
  <2> QED
    BY <2>1, <2>2, <2>3
<1>3. awaits'[s] = what
  BY <1>1, <1>2 DEF Await_
<1>4. Tells(s)'
  BY <1>1, <1>2, <1>3 DEF Tells
<1>5. what \in Await /\ what # "nothing"
  BY DEF Messages, Await
<1>6. busy' \in BOOLEAN /\ user' \in BOOLEAN
  BY <1>2 DEF FlowsInv, FlowsTypeOK
<1> QED
  BY <1>2, <1>4, <1>5, <1>6, WaitsForMore

LEMMA CallSucceedsKeeps ==
  ASSUME FlowsInv, NEW s \in Step, CallSucceeds(s)
  PROVE  FlowsInv'
<1>1. /\ flow \in Flow /\ s # Background /\ s \in execution.active /\ s \in Commands[flow]
      /\ IsOpen => Runs(s)
      /\ ~IsOpen => phase = "closing"
  BY CommandIsRunning DEF CallSucceeds
<1>2. awaits[s] = "call" /\ user \in BOOLEAN
  BY DEF CallSucceeds, Calling, FlowsInv, FlowsTypeOK
<1>3. CASE s = "signIn" /\ IsOpen
  <2>1. /\ user' = TRUE /\ Await_(s, "session")
        /\ UNCHANGED <<flow, phase, execution, surfaces, busy>>
    BY <1>3 DEF CallSucceeds
  <2>2. awaits'[s] = "session" /\ Runs(s)
    BY <1>1, <1>3, <2>1 DEF Await_, FlowsInv, FlowsTypeOK
  <2>3. Runs(s)'
    BY <1>3, <2>1, <2>2 DEF Runs
  <2>4. "session" \in Await /\ "session" # "nothing" /\ busy' \in BOOLEAN /\ user' \in BOOLEAN
    BY <2>1 DEF Await, FlowsInv, FlowsTypeOK
  <2> QED
    BY <1>3, <2>1, <2>2, <2>3, <2>4, WaitsForMore DEF IsOpen
<1>4. CASE s = "signIn" /\ ~IsOpen
  BY <1>1, <1>2, <1>4, SettlesLate DEF CallSucceeds
<1>5. CASE s # "signIn" /\ IsOpen
  <2>1. Tell(s, "close") /\ UNCHANGED <<flow, phase, execution, user>>
    BY <1>5 DEF CallSucceeds
  <2> QED
    BY <1>1, <1>5, <2>1, CommandTells DEF IsOpen, Messages
<1>6. CASE s # "signIn" /\ ~IsOpen
  BY <1>1, <1>2, <1>6, SettlesLate DEF CallSucceeds
<1> QED
  BY <1>3, <1>4, <1>5, <1>6

LEMMA CallFailsKeeps ==
  ASSUME FlowsInv, NEW s \in Step, CallFails(s)
  PROVE  FlowsInv'
<1>1. /\ flow \in Flow /\ s # Background
      /\ IsOpen => Runs(s)
      /\ ~IsOpen => phase = "closing"
  BY CommandIsRunning DEF CallFails
<1>2. user' = user /\ user \in BOOLEAN /\ flow' = flow
  BY DEF CallFails, FlowsInv, FlowsTypeOK
<1>3. CASE IsOpen
  <2> DEFINE what == IF flow = "signin" THEN "decide" ELSE "stay"
  <2>1. what \in Messages /\ Tell(s, what) /\ UNCHANGED <<phase, execution>>
    BY <1>3 DEF CallFails, Messages
  <2> HIDE DEF what
  <2> QED
    BY <1>1, <1>2, <1>3, <2>1, CommandTells DEF IsOpen
<1>4. CASE ~IsOpen
  BY <1>1, <1>2, <1>4, SettlesLate DEF CallFails
<1> QED
  BY <1>3, <1>4

LEMMA SessionSettlesKeeps ==
  ASSUME FlowsInv, NEW expired \in BOOLEAN, SessionSettles(expired)
  PROVE  FlowsInv'
<1>1. awaits["signIn"] = "session" /\ flow' = flow /\ user' \in BOOLEAN
  BY DEF SessionSettles, FlowsInv, FlowsTypeOK
<1>2. "signIn" \in Step
  BY StepsAssumption DEF AllSteps, Commands, Flow
<1>3. /\ "signIn" # Background
      /\ IsOpen => Runs("signIn")
      /\ ~IsOpen => phase = "closing"
  BY <1>1, <1>2, CommandIsRunning
<1>4. CASE IsOpen
  BY <1>1, <1>2, <1>3, <1>4, ClosesWithSubstep DEF SessionSettles, IsOpen
<1>5. CASE ~IsOpen
  BY <1>1, <1>2, <1>3, <1>5, SettlesLate DEF SessionSettles
<1> QED
  BY <1>4, <1>5

LEMMA CloseMessageKeeps ==
  ASSUME FlowsInv, NEW s \in Step, CloseMessage(s)
  PROVE  FlowsInv'
<1>1. phase = "open" /\ Tells(s)
  BY MessageIsUp DEF CloseMessage, Messages
<1>2. user' \in BOOLEAN
  BY DEF CloseMessage, FlowsInv, FlowsTypeOK
<1> QED
  BY <1>1, <1>2, ClosesWithSubstep DEF CloseMessage

LEMMA AcknowledgeKeeps ==
  ASSUME FlowsInv, NEW s \in Step, Acknowledge(s)
  PROVE  FlowsInv'
<1>1. phase = "open" /\ Tells(s) /\ ~busy /\ busy \in BOOLEAN /\ "completed" \in Over
  BY MessageIsUp DEF Acknowledge, Messages, Tells, FlowsInv, FlowsTypeOK, Over
<1> QED
  BY <1>1, EndsUnderPopup DEF Acknowledge, BackToPopup

LEMMA RetryKeeps ==
  ASSUME FlowsInv, NEW s \in Step, NEW goes \in BOOLEAN, Retry(s, goes)
  PROVE  FlowsInv'
<1>1. /\ phase = "open" /\ Tells(s) /\ ~busy /\ busy \in BOOLEAN
      /\ UNCHANGED <<flow, phase, user>>
  BY MessageIsUp DEF Retry, Messages, Tells, FlowsInv, FlowsTypeOK
<1>2. CASE /\ s \in Commands[flow] /\ surfaces' = <<MainStep[flow]>>
           /\ busy' = TRUE /\ Await_(s, "call") /\ UNCHANGED execution
  <2>1. awaits'[s] = "call"
    BY <1>2 DEF Await_, FlowsInv, FlowsTypeOK
  <2>2. Runs(s)'
    BY <1>1, <1>2, <2>1 DEF Runs, Tells
  <2> QED
    BY <1>1, <1>2, <2>2, WaitsForMore DEF Await, FlowsInv, FlowsTypeOK
<1>3. ASSUME NEW outcome \in Over, BackToPopup(s, outcome), UNCHANGED busy
      PROVE  FlowsInv'
  BY <1>1, <1>3, EndsUnderPopup DEF BackToPopup
<1> QED
  BY <1>2, <1>3 DEF Retry, Over

-----------------------------------------------------------------------------
LEMMA FlowStepKeeps == FlowsInv /\ [FlowsNext]_flowVars => FlowsInv'
<1> SUFFICES ASSUME FlowsInv, [FlowsNext]_flowVars PROVE FlowsInv'
  OBVIOUS
<1>1. CASE \E f \in Flow : Run(f)
  BY <1>1, RunKeeps
<1>2. CASE EndFlow
  BY <1>2, EndFlowKeeps
<1>3. CASE \E s \in Step, filledIn \in BOOLEAN : Command(s, filledIn)
  BY <1>3, CommandKeeps
<1>4. CASE \E starts \in BOOLEAN : ChooseProvider(starts)
  BY <1>4, ChooseProviderKeeps
<1>5. CASE \E s \in Step : CallSettles(s)
  BY <1>5, CallSucceedsKeeps, CallFailsKeeps DEF CallSettles
<1>6. CASE Settles
  BY <1>6, InspectionKeeps, ProvidersSettleKeeps DEF Settles
<1>7. CASE \E s \in Step : CloseMessage(s) \/ Acknowledge(s)
  BY <1>7, CloseMessageKeeps, AcknowledgeKeeps
<1>8. CASE \E s \in Step, goes \in BOOLEAN : Retry(s, goes)
  BY <1>8, RetryKeeps
<1>9. CASE AnswerRefusal
  BY <1>9, AnswerRefusalKeeps
<1>10. CASE Dismiss
  BY <1>10, DismissKeeps
<1>11. CASE HostCloses
  BY <1>11, HostClosesKeeps
<1>12. CASE SessionEnds
  BY <1>12, StillKeeps DEF SessionEnds
<1>13. CASE UNCHANGED flowVars
  BY <1>13, StillKeeps DEF flowVars, FlowsInv, FlowsTypeOK
<1>14. CASE \E expired \in BOOLEAN : SessionSettles(expired)
  BY <1>14, SessionSettlesKeeps
<1> QED
  BY <1>1, <1>2, <1>3, <1>4, <1>5, <1>6, <1>7, <1>8, <1>9, <1>10, <1>11, <1>12, <1>13,
     <1>14
  DEF FlowsNext

\* What a browser session goes through: no popup, a popup, or a popup under a
\* command or its message.
LEMMA FlowsInvariance == FlowsSpec => []FlowsInv
  BY FlowsStart, FlowStepKeeps, PTL DEF FlowsSpec

\* The flow, its steps, their promises and the surfaces keep their types.
THEOREM FlowsTypeCorrect == FlowsSpec => []FlowsTypeOK
<1>1. FlowsInv => FlowsTypeOK
  BY DEF FlowsInv
<1> QED
  BY <1>1, FlowsInvariance, PTL

\* In every order of clicks, answers and closings a message is on top of the
\* popup whose substep awaits it, one command at most keeps the popup busy, and
\* a flow that has ended leaves nothing behind.
THEOREM SurfacesBelong == FlowsSpec => []SurfacesBelongToSteps
<1>1. FlowsInv => SurfacesBelongToSteps
  <2> SUFFICES ASSUME FlowsInv PROVE SurfacesBelongToSteps
    OBVIOUS
  <2>1. CASE phase # "open"
    <3>1. surfaces = <<>> \/ (phase = "refusing" /\ surfaces = <<"checkToken">>)
      <4>1. phase \in {"idle", "inspecting", "refusing", "closing"}
        BY <2>1 DEF FlowsInv, FlowsTypeOK
      <4> QED
        BY <4>1 DEF FlowsInv, PhaseInv, Closed
    <3>2. /\ ~busy /\ (flow = None => surfaces = <<>> /\ Drained(execution))
          /\ \A s \in Step : awaits[s] # "nothing" <=> s \in execution.active
      BY <2>1, StepsAssumption
      DEF FlowsInv, FlowsTypeOK, PhaseInv, AwaitsInv, Closed, Flow
    <3>3. \A s \in Step : awaits[s] \notin Messages
      BY <2>1 DEF FlowsInv, FlowsTypeOK, PhaseInv, AwaitsInv, Drained, Messages
    <3>4. Len(surfaces) # 2
      BY <3>1
    <3> QED
      BY <2>1, <3>1, <3>2, <3>3, <3>4 DEF SurfacesBelongToSteps
  <2>2. CASE phase = "open"
    <3>1. flow \in Flow /\ flow # None
      BY <2>2, InFlight, StepsAssumption
    <3>2. CASE Quiet
      <4>1. surfaces = <<MainStep[flow]>> /\ ~busy
        BY <3>2 DEF Quiet
      <4>2. \A s \in Step :
              /\ awaits[s] # "nothing" <=> s \in execution.active
              /\ awaits[s] \notin Messages /\ ~Calling(s) /\ awaits[s] # "session"
        BY <3>2 DEF Quiet, FlowsInv, AwaitsInv, Messages, Calling, Background
      <4>3. Len(surfaces) = 1
        BY <4>1
      <4> QED
        BY <2>2, <3>1, <4>1, <4>2, <4>3 DEF SurfacesBelongToSteps
    <3>3. ASSUME NEW s \in Step, Runs(s) PROVE SurfacesBelongToSteps
      <4>1. surfaces = <<MainStep[flow]>> /\ busy /\ (Calling(s) \/ awaits[s] = "session")
        BY <3>3 DEF Runs, Calling, Background
      <4>2. \A t \in Step :
              /\ awaits[t] # "nothing" <=> t \in execution.active
              /\ awaits[t] \notin Messages
        BY <3>3 DEF Runs, FlowsInv, AwaitsInv, Messages
      <4>3. Len(surfaces) = 1
        BY <4>1
      <4> QED
        BY <2>2, <3>1, <4>1, <4>2, <4>3 DEF SurfacesBelongToSteps
    <3>4. ASSUME NEW s \in Step, Tells(s) PROVE SurfacesBelongToSteps
      <4>1. /\ surfaces = <<MainStep[flow], s>> /\ ~busy /\ awaits[s] \in Messages
            /\ s \in execution.active
        BY <3>4 DEF Tells
      <4>2. Len(surfaces) = 2 /\ \A t \in Step : Top(t) <=> t = s
        BY <4>1 DEF Top
      <4>3. \A t \in Step :
              /\ awaits[t] # "nothing" <=> t \in execution.active
              /\ t # s => awaits[t] \notin Messages
              /\ ~Calling(t) /\ awaits[t] # "session"
        BY <3>4 DEF Tells, FlowsInv, AwaitsInv, Messages, Calling, Background
      <4> QED
        BY <2>2, <3>1, <4>1, <4>2, <4>3 DEF SurfacesBelongToSteps
    <3> QED
      BY <2>2, <3>2, <3>3, <3>4 DEF FlowsInv, PhaseInv
  <2> QED
    BY <2>1, <2>2
<1> QED
  BY <1>1, FlowsInvariance, PTL

\* The runner's pointer comes back to a step that goes on, or to one whose end
\* another substep has overtaken.
THEOREM PointerGoesOn == FlowsSpec => []CurrentStepGoesOn
<1>1. FlowsInv => CurrentStepGoesOn
  <2> SUFFICES ASSUME FlowsInv, phase # "closing", execution.current # None,
                      execution.status[execution.current] \in Over
               PROVE  execution.current \in execution.overtaken
    BY DEF CurrentStepGoesOn
  <2>1. phase = "open"
    BY DEF FlowsInv, FlowsTypeOK, PointerInv, Over
  <2>2. ~\E s \in Step : Runs(s) \/ Tells(s)
    BY <2>1 DEF FlowsInv, PointerInv, Over
  <2> QED
    BY <2>1, <2>2 DEF FlowsInv, PhaseInv, PointerInv, Returns, Over
<1> QED
  BY <1>1, FlowsInvariance, PTL
=============================================================================
