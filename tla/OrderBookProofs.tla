--------------------------- MODULE OrderBookProofs ---------------------------
(***************************************************************************)
(* Proofs about OrderBook, for any traders, timeout and message delays:    *)
(* the book is well typed, its queue of update events covers it, a run of  *)
(* the timeouter leaves nothing stale, and a trader who keeps refreshing   *)
(* stays on the book.                                                      *)
(***************************************************************************)
EXTENDS OrderBook, TLAPS

(* TypeOK without its existential quantifier.  *)
LEMMA TypeParts ==
    TypeOK <=> /\ now \in Nat
               /\ DOMAIN orders \subseteq Account
               /\ orders \in [DOMAIN orders -> AccountOrders]
               /\ updates \in Seq(UpdateEvent)
               /\ online \in [Account -> Nat \cup {Offline, Silent}]
               /\ latest \in [Account -> SUBSET Order]
               /\ wire \subseteq [account : Account, offers : SUBSET Order, sent : Nat]
BY DEF TypeOK

LEMMA TypePartsNext ==
    ASSUME now' \in Nat,
           DOMAIN orders' \subseteq Account,
           orders' \in [DOMAIN orders' -> AccountOrders],
           updates' \in Seq(UpdateEvent),
           online' \in [Account -> Nat \cup {Offline, Silent}],
           latest' \in [Account -> SUBSET Order],
           wire' \subseteq [account : Account, offers : SUBSET Order, sent : Nat]
    PROVE  TypeOK'
BY DEF TypeOK

(* The queue after the first k events have been popped.  *)
LEMMA PoppedQueue ==
    ASSUME NEW S, NEW q \in Seq(S), NEW k \in 0 .. Len(q)
    PROVE  /\ SubSeq(q, k + 1, Len(q)) \in Seq(S)
           /\ Len(SubSeq(q, k + 1, Len(q))) = Len(q) - k
           /\ \A i \in 1 .. (Len(q) - k) : SubSeq(q, k + 1, Len(q))[i] = q[i + k]
OBVIOUS

-----------------------------------------------------------------------------
(* UpdateOrders and RunTimeout change orders and updates as follows.       *)

LEMMA UpdateOrdersEffect ==
    ASSUME TypeOK, NEW a \in Account, NEW offers \in SUBSET Order,
           UpdateOrders(a, offers)
    PROVE  /\ DOMAIN orders' \subseteq Account
           /\ orders' \in [DOMAIN orders' -> AccountOrders]
           /\ updates' \in Seq(UpdateEvent)
           /\ \A b \in Account \ {a} :
                 /\ b \in DOMAIN orders' <=> b \in DOMAIN orders
                 /\ b \in DOMAIN orders => orders'[b] = orders[b]
           /\ a \in DOMAIN orders' <=> offers # {}
           /\ offers = {} => updates' = updates
           /\ offers # {} =>
                 /\ orders'[a] = [offers |-> offers, lastUpdate |-> now]
                 /\ updates' = Append(updates, [account |-> a, time |-> now])
<1>1. CASE offers = {}
  BY <1>1, TypeParts DEF UpdateOrders, Delete, Without
<1>2. CASE offers # {}
  <2>1. [offers |-> offers, lastUpdate |-> now] \in AccountOrders
    BY TypeParts DEF AccountOrders
  <2>2. [account |-> a, time |-> now] \in UpdateEvent
    BY TypeParts DEF UpdateEvent
  <2>3. /\ orders' = [b \in DOMAIN orders \cup {a} |->
              IF b = a THEN [offers |-> offers, lastUpdate |-> now] ELSE orders[b]]
        /\ updates' = Append(updates, [account |-> a, time |-> now])
    BY <1>2 DEF UpdateOrders, Store, Enqueue
  <2>4. DOMAIN orders' = DOMAIN orders \cup {a}
    BY <2>3
  <2>5. orders' \in [DOMAIN orders' -> AccountOrders]
    BY <2>1, <2>3, TypeParts
  <2>6. updates' \in Seq(UpdateEvent)
    BY <2>2, <2>3, TypeParts
  <2>7. /\ orders'[a] = [offers |-> offers, lastUpdate |-> now]
        /\ \A b \in DOMAIN orders \ {a} : orders'[b] = orders[b]
    BY <2>3
  <2> QED BY <1>2, <2>3, <2>4, <2>5, <2>6, <2>7, TypeParts
<1> QED BY <1>1, <1>2

LEMMA RunTimeoutEffect ==
    ASSUME TypeOK, RunTimeout
    PROVE  \E k \in 0 .. Len(updates) :
              /\ Pops(k)
              /\ orders' = Without(orders, {a \in DOMAIN orders :
                              TimedOut(orders[a].lastUpdate)
                              /\ \E i \in 1 .. k : updates[i].account = a})
              /\ updates' = SubSeq(updates, k + 1, Len(updates))
              /\ UNCHANGED <<now, online, latest, wire>>
BY DEF RunTimeout, Timeouter, Stale

-----------------------------------------------------------------------------
(* Every step of Next is one of these.  *)
LEMMA Steps ==
    ASSUME Next
    PROVE  \/ Tick \/ RunTimeout
           \/ \E a \in Account : HandleDisconnect(a) \/ GoSilent(a)
           \/ \E a \in Account, offers \in SUBSET Order : Publish(a, offers)
           \/ \E m \in wire : HandleMessage(m)
BY DEF Next

LEMMA TypeInit == Init => TypeOK
<1> SUFFICES ASSUME Init PROVE TypeOK
  OBVIOUS
<1>1. orders \in [{} -> AccountOrders]
  BY DEF Init
<1> QED BY <1>1 DEF Init, TypeOK

LEMMA TypeStep == TypeOK /\ [Next]_vars => TypeOK'
<1> SUFFICES ASSUME TypeOK, [Next]_vars PROVE TypeOK'
  OBVIOUS
<1> USE TypeParts, TypePartsNext
<1>1. CASE Tick
  BY <1>1 DEF Tick
<1>2. CASE RunTimeout
  <2>1. PICK k \in 0 .. Len(updates) :
              /\ orders' = Without(orders, {a \in DOMAIN orders :
                              TimedOut(orders[a].lastUpdate)
                              /\ \E i \in 1 .. k : updates[i].account = a})
              /\ updates' = SubSeq(updates, k + 1, Len(updates))
              /\ UNCHANGED <<now, online, latest, wire>>
    BY <1>2, RunTimeoutEffect
  <2>2. updates' \in Seq(UpdateEvent)
    BY <2>1, PoppedQueue
  <2>3. DOMAIN orders' \subseteq Account /\ orders' \in [DOMAIN orders' -> AccountOrders]
    BY <2>1 DEF Without
  <2> QED BY <2>1, <2>2, <2>3
<1>3. ASSUME NEW a \in Account, NEW offers \in SUBSET Order, Publish(a, offers)
      PROVE  TypeOK'
  BY <1>3 DEF Publish
<1>4. ASSUME NEW m \in wire, HandleMessage(m)
      PROVE  TypeOK'
  <2>1. m.account \in Account /\ m.offers \in SUBSET Order
    OBVIOUS
  <2>2. PICK valid \in SUBSET m.offers :
          /\ UpdateOrders(m.account, valid)
          /\ latest' = [latest EXCEPT ![m.account] = valid]
    BY <1>4 DEF HandleMessage
  <2>3. valid \in SUBSET Order
    BY <2>1
  <2>4. /\ DOMAIN orders' \subseteq Account
        /\ orders' \in [DOMAIN orders' -> AccountOrders]
        /\ updates' \in Seq(UpdateEvent)
    BY <2>1, <2>2, <2>3, UpdateOrdersEffect
  <2>5. latest' \in [Account -> SUBSET Order]
    BY <2>1, <2>2, <2>3
  <2>6. wire' \subseteq wire /\ now' = now /\ online' = online
    BY <1>4 DEF HandleMessage
  <2> QED BY <2>4, <2>5, <2>6
<1>5. ASSUME NEW a \in Account, HandleDisconnect(a)
      PROVE  TypeOK'
  <2>1. UpdateOrders(a, {})
    BY <1>5 DEF HandleDisconnect
  <2>2. /\ DOMAIN orders' \subseteq Account
        /\ orders' \in [DOMAIN orders' -> AccountOrders]
        /\ updates' \in Seq(UpdateEvent)
    BY <2>1, UpdateOrdersEffect
  <2> QED BY <1>5, <2>2 DEF HandleDisconnect
<1>6. ASSUME NEW a \in Account, GoSilent(a)
      PROVE  TypeOK'
  BY <1>6 DEF GoSilent
<1>7. CASE UNCHANGED vars
  BY <1>7 DEF vars
<1> QED BY <1>1, <1>2, <1>3, <1>4, <1>5, <1>6, <1>7, Steps

(* UpdateOrders, RunTimeout and the message handlers keep the book, its    *)
(* queue and what is on the way well formed.                               *)
THEOREM BookTypeCorrect == Spec => []TypeOK
BY TypeInit, TypeStep, PTL DEF Spec

-----------------------------------------------------------------------------
(* The queue covers the book *)

LEMMA EventTime ==
    ASSUME TypeOK, NEW i \in DOMAIN updates
    PROVE  updates[i].time \in Nat
<1>1. updates \in Seq(UpdateEvent)
  BY TypeParts
<1>2. updates[i] \in UpdateEvent
  BY <1>1
<1> QED BY <1>2 DEF UpdateEvent

LEMMA QueueAfterUpdate ==
    ASSUME TypeOK, QueueCoversBook, now' = now,
           NEW a \in Account, NEW offers \in SUBSET Order, UpdateOrders(a, offers)
    PROVE  QueueCoversBook'
<1>1. CASE offers = {}
  <2>1. /\ updates' = updates
        /\ \A b \in DOMAIN orders' : b \in DOMAIN orders /\ orders'[b] = orders[b]
    BY <1>1, UpdateOrdersEffect
  <2> QED BY <2>1 DEF QueueCoversBook
<1>2. CASE offers # {}
  <2> DEFINE e == [account |-> a, time |-> now]
             n == Len(updates) + 1
  <2>1. updates' = Append(updates, e) /\ orders'[a].lastUpdate = now
    <3>1. /\ orders'[a] = [offers |-> offers, lastUpdate |-> now]
          /\ updates' = Append(updates, [account |-> a, time |-> now])
      BY <1>2, UpdateOrdersEffect
    <3> QED BY <3>1
  <2>2. updates \in Seq(UpdateEvent) /\ e \in UpdateEvent /\ now \in Nat
    BY TypeParts DEF UpdateEvent
  <2>3. /\ DOMAIN updates' = 1 .. n /\ n \in Nat
        /\ DOMAIN updates = 1 .. (n - 1)
        /\ updates'[n] = e
        /\ \A i \in 1 .. (n - 1) : updates'[i] = updates[i]
    BY <2>1, <2>2
  <2>4. \A i \in 1 .. (n - 1) : updates[i].time \in Nat /\ updates[i].time <= now
    BY <2>3, EventTime DEF QueueCoversBook
  <2> HIDE DEF n
  <2>5. \A i, j \in 1 .. n : i <= j => updates'[i].time <= updates'[j].time
    <3> SUFFICES ASSUME NEW i \in 1 .. n, NEW j \in 1 .. n, i <= j
                 PROVE  updates'[i].time <= updates'[j].time
      OBVIOUS
    <3>1. CASE j = n /\ i = n
      BY <2>2, <2>3, <3>1
    <3>2. CASE j = n /\ i # n
      BY <2>2, <2>3, <2>4, <3>2
    <3>3. CASE j # n
      BY <2>3, <3>3 DEF QueueCoversBook
    <3> QED BY <3>1, <3>2, <3>3
  <2>6. \A i \in 1 .. n : updates'[i].time <= now
    BY <2>2, <2>3, <2>4
  <2>7. \A b \in DOMAIN orders' : \E i \in 1 .. n :
          updates'[i] = [account |-> b, time |-> orders'[b].lastUpdate]
    <3> SUFFICES ASSUME NEW b \in DOMAIN orders'
                 PROVE  \E i \in 1 .. n :
                   updates'[i] = [account |-> b, time |-> orders'[b].lastUpdate]
      OBVIOUS
    <3>1. CASE b = a
      BY <2>1, <2>3, <3>1
    <3>2. CASE b # a
      <4>1. b \in DOMAIN orders /\ orders'[b] = orders[b]
        BY <3>2, UpdateOrdersEffect
      <4>2. PICK i \in 1 .. (n - 1) :
              updates[i] = [account |-> b, time |-> orders[b].lastUpdate]
        BY <4>1, <2>3 DEF QueueCoversBook
      <4> QED BY <4>1, <4>2, <2>3
    <3> QED BY <3>1, <3>2
  <2> QED BY <2>3, <2>5, <2>6, <2>7 DEF QueueCoversBook
<1> QED BY <1>1, <1>2

(* An account that RunTimeout keeps has an event that is not popped.       *)
LEMMA SurvivorEvent ==
    ASSUME TypeOK, QueueCoversBook, NEW k \in 0 .. Len(updates), Pops(k),
           orders' = Without(orders, {a \in DOMAIN orders :
                        TimedOut(orders[a].lastUpdate)
                        /\ \E i \in 1 .. k : updates[i].account = a}),
           NEW b \in DOMAIN orders'
    PROVE  /\ b \in DOMAIN orders /\ orders'[b] = orders[b]
           /\ \E i \in (k + 1) .. Len(updates) :
                 updates[i] = [account |-> b, time |-> orders[b].lastUpdate]
<1>1. /\ b \in DOMAIN orders /\ orders'[b] = orders[b]
      /\ ~(TimedOut(orders[b].lastUpdate)
           /\ \E i \in 1 .. k : updates[i].account = b)
  BY DEF Without
<1>2. PICK i \in DOMAIN updates :
        updates[i] = [account |-> b, time |-> orders[b].lastUpdate]
  BY <1>1 DEF QueueCoversBook
<1>3. i \in 1 .. Len(updates) /\ Len(updates) \in Nat
  BY TypeParts
<1>4. i \notin 1 .. k
  BY <1>1, <1>2 DEF Pops
<1> QED BY <1>1, <1>2, <1>3, <1>4

LEMMA QueueAfterTimeout ==
    ASSUME TypeOK, QueueCoversBook, RunTimeout
    PROVE  QueueCoversBook'
<1>1. PICK k \in 0 .. Len(updates) :
              /\ Pops(k)
              /\ orders' = Without(orders, {a \in DOMAIN orders :
                              TimedOut(orders[a].lastUpdate)
                              /\ \E i \in 1 .. k : updates[i].account = a})
              /\ updates' = SubSeq(updates, k + 1, Len(updates))
              /\ UNCHANGED <<now, online, latest, wire>>
  BY RunTimeoutEffect
<1> DEFINE n == Len(updates)
<1>2. updates \in Seq(UpdateEvent) /\ n \in Nat /\ DOMAIN updates = 1 .. n
  BY TypeParts
<1>3. /\ DOMAIN updates' = 1 .. (n - k)
      /\ \A i \in 1 .. (n - k) : updates'[i] = updates[i + k]
  BY <1>1, <1>2, PoppedQueue
<1> HIDE DEF n
<1>4. \A i \in 1 .. (n - k) : i + k \in 1 .. n
  BY <1>1, <1>2 DEF n
<1>5. \A i, j \in 1 .. (n - k) : i <= j => updates'[i].time <= updates'[j].time
  <2> SUFFICES ASSUME NEW i \in 1 .. (n - k), NEW j \in 1 .. (n - k), i <= j
               PROVE  updates'[i].time <= updates'[j].time
    OBVIOUS
  <2>1. i + k <= j + k
    BY <1>1, <1>2 DEF n
  <2> QED BY <1>2, <1>3, <1>4, <2>1 DEF QueueCoversBook
<1>6. \A i \in 1 .. (n - k) : updates'[i].time <= now'
  BY <1>1, <1>2, <1>3, <1>4 DEF QueueCoversBook
<1>7. ASSUME NEW b \in DOMAIN orders'
      PROVE  \E i \in 1 .. (n - k) :
                updates'[i] = [account |-> b, time |-> orders'[b].lastUpdate]
  <2>1. orders'[b] = orders[b]
    BY <1>1, SurvivorEvent
  <2>2. PICK j \in (k + 1) .. n :
          updates[j] = [account |-> b, time |-> orders[b].lastUpdate]
    BY <1>1, SurvivorEvent DEF n
  <2>3. j - k \in 1 .. (n - k) /\ (j - k) + k = j
    BY <1>1, <1>2, <2>2
  <2> QED BY <1>3, <2>1, <2>2, <2>3
<1> QED BY <1>3, <1>5, <1>6, <1>7 DEF QueueCoversBook

LEMMA QueueStep == TypeOK /\ QueueCoversBook /\ [Next]_vars => QueueCoversBook'
<1> SUFFICES ASSUME TypeOK, QueueCoversBook, [Next]_vars PROVE QueueCoversBook'
  OBVIOUS
<1>1. CASE Tick
  <2>1. /\ orders' = orders /\ updates' = updates /\ now' = now + 1
    BY <1>1 DEF Tick
  <2>2. \A i \in DOMAIN updates : updates[i].time \in Nat
    BY EventTime
  <2> QED BY <2>1, <2>2, TypeParts DEF QueueCoversBook
<1>2. CASE RunTimeout
  BY <1>2, QueueAfterTimeout
<1>3. ASSUME NEW a \in Account, NEW offers \in SUBSET Order, Publish(a, offers)
      PROVE  QueueCoversBook'
  BY <1>3 DEF Publish, QueueCoversBook
<1>4. ASSUME NEW m \in wire, HandleMessage(m)
      PROVE  QueueCoversBook'
  <2>1. m.account \in Account /\ m.offers \in SUBSET Order
    BY TypeParts
  <2>2. PICK valid \in SUBSET m.offers : UpdateOrders(m.account, valid)
    BY <1>4 DEF HandleMessage
  <2>3. now' = now /\ valid \in SUBSET Order
    BY <1>4, <2>1 DEF HandleMessage
  <2> QED BY <2>1, <2>2, <2>3, QueueAfterUpdate
<1>5. ASSUME NEW a \in Account, HandleDisconnect(a)
      PROVE  QueueCoversBook'
  <2>1. UpdateOrders(a, {}) /\ now' = now
    BY <1>5 DEF HandleDisconnect
  <2> QED BY <2>1, QueueAfterUpdate
<1>6. ASSUME NEW a \in Account, GoSilent(a)
      PROVE  QueueCoversBook'
  BY <1>6 DEF GoSilent, QueueCoversBook
<1>7. CASE UNCHANGED vars
  BY <1>7 DEF vars, QueueCoversBook
<1> QED BY <1>1, <1>2, <1>3, <1>4, <1>5, <1>6, <1>7, Steps

(* RunTimeout only ever looks at the front of the queue of update events;  *)
(* that is enough, as the queue is sorted and covers the whole book.       *)
THEOREM TimeoutFindsAll == Spec => []QueueCoversBook
<1>1. Init => QueueCoversBook
  BY DEF Init, QueueCoversBook
<1> QED BY <1>1, TypeInit, TypeStep, QueueStep, PTL DEF Spec

(* After the loop of RunTimeout every account left in the book has been    *)
(* updated within the timeout.                                             *)
THEOREM NothingStale == Spec => StaleGone
<1>1. ASSUME TypeOK, QueueCoversBook, RunTimeout
      PROVE  \A b \in DOMAIN orders' : ~TimedOut(orders'[b].lastUpdate)
  <2>1. PICK k \in 0 .. Len(updates) :
              /\ Pops(k)
              /\ orders' = Without(orders, {a \in DOMAIN orders :
                              TimedOut(orders[a].lastUpdate)
                              /\ \E i \in 1 .. k : updates[i].account = a})
    BY <1>1, RunTimeoutEffect
  <2> SUFFICES ASSUME NEW b \in DOMAIN orders'
               PROVE  ~TimedOut(orders'[b].lastUpdate)
    OBVIOUS
  <2>2. orders'[b] = orders[b]
    BY <1>1, <2>1, SurvivorEvent
  <2>3. PICK i \in (k + 1) .. Len(updates) :
          updates[i] = [account |-> b, time |-> orders[b].lastUpdate]
    BY <1>1, <2>1, SurvivorEvent
  <2>4. /\ updates \in Seq(UpdateEvent) /\ DOMAIN updates = 1 .. Len(updates)
        /\ Len(updates) \in Nat /\ now \in Nat
    BY <1>1, TypeParts
  <2>5. k < Len(updates) /\ k + 1 \in DOMAIN updates /\ i \in DOMAIN updates /\ k + 1 <= i
    BY <2>3, <2>4
  <2>6. updates[k + 1].time <= updates[i].time
    BY <1>1, <2>5 DEF QueueCoversBook
  <2>7. ~TimedOut(updates[k + 1].time)
    BY <2>1, <2>5 DEF Pops
  <2>8. updates[k + 1].time \in Nat /\ updates[i].time \in Nat
    BY <1>1, <2>5, EventTime
  <2>9. orders[b].lastUpdate = updates[i].time
    BY <2>3
  <2> QED
    BY <2>2, <2>4, <2>6, <2>7, <2>8, <2>9, OrderBookAssumption
    DEF TimedOut, OrderBookAssumption
<1>2. TypeOK /\ QueueCoversBook /\ [Next]_vars =>
        [RunTimeout => \A a \in DOMAIN orders' : ~TimedOut(orders'[a].lastUpdate)]_vars
  BY <1>1
<1> QED BY <1>2, BookTypeCorrect, TimeoutFindsAll, PTL DEF Spec, StaleGone

-----------------------------------------------------------------------------
(***************************************************************************)
(* A trader who refreshes in time stays on the book.  BookIsCurrent is not *)
(* inductive; what keeps an online trader's orders from timing out is that *)
(* they were updated after its last refresh, or that a message is on its   *)
(* way which was sent within the refresh interval after the update.        *)
(***************************************************************************)

InTime(a) ==
    \/ online[a] <= orders[a].lastUpdate
    \/ \E m \in wire : m.account = a /\ m.sent <= orders[a].lastUpdate + RefreshIntv

WireInTime == \A m \in wire : m.sent <= now /\ now <= m.sent + MaxDelay

ShowsLatest ==
    \A a \in DOMAIN orders : orders[a].offers = latest[a] /\ latest[a] # {}

Trader(a) ==
    /\ online[a] = Offline => latest[a] = {} /\ \A m \in wire : m.account # a
    /\ online[a] >= 0 => online[a] <= now /\ now <= online[a] + RefreshIntv
    /\ online[a] >= 0 /\ latest[a] # {} => a \in DOMAIN orders /\ InTime(a)

BookInv == WireInTime /\ ShowsLatest /\ \A a \in Account : Trader(a)

LEMMA Intervals ==
    /\ RefreshIntv \in Nat /\ MaxDelay \in Nat /\ Timeout \in Nat
    /\ RefreshIntv + MaxDelay <= Timeout
BY OrderBookAssumption DEF OrderBookAssumption, RefreshIntv

LEMMA Numbers ==
    ASSUME TypeOK
    PROVE  /\ now \in Nat
           /\ \A a \in Account : online[a] \in Int
           /\ \A a \in DOMAIN orders : a \in Account /\ orders[a].lastUpdate \in Nat
           /\ \A m \in wire : m.account \in Account /\ m.sent \in Nat
BY TypeParts DEF AccountOrders, Offline, Silent

(* The orders of an online trader are never old enough to time out.  *)
LEMMA NotTimedOut ==
    ASSUME TypeOK, BookInv, NEW a \in Account, online[a] >= 0, latest[a] # {}
    PROVE  ~TimedOut(orders[a].lastUpdate)
<1>1. /\ a \in DOMAIN orders /\ InTime(a)
      /\ now <= online[a] + RefreshIntv
  BY DEF BookInv, Trader
<1>2. CASE online[a] <= orders[a].lastUpdate
  BY <1>1, <1>2, Numbers, Intervals DEF TimedOut
<1>3. ASSUME NEW m \in wire, m.sent <= orders[a].lastUpdate + RefreshIntv
      PROVE  ~TimedOut(orders[a].lastUpdate)
  <2>1. now <= m.sent + MaxDelay
    BY DEF BookInv, WireInTime
  <2> QED BY <1>1, <1>3, <2>1, Numbers, Intervals DEF TimedOut
<1> QED BY <1>1, <1>2, <1>3 DEF InTime

LEMMA BookAfterTimeout ==
    ASSUME TypeOK, BookInv, RunTimeout
    PROVE  BookInv'
<1>1. PICK k \in 0 .. Len(updates) :
              /\ orders' = Without(orders, {a \in DOMAIN orders :
                              TimedOut(orders[a].lastUpdate)
                              /\ \E i \in 1 .. k : updates[i].account = a})
              /\ UNCHANGED <<now, online, latest, wire>>
  BY RunTimeoutEffect
<1>2. /\ \A a \in DOMAIN orders' : a \in DOMAIN orders /\ orders'[a] = orders[a]
      /\ \A a \in DOMAIN orders : ~TimedOut(orders[a].lastUpdate) => a \in DOMAIN orders'
  BY <1>1 DEF Without
<1>3. WireInTime' /\ ShowsLatest'
  BY <1>1, <1>2 DEF BookInv, WireInTime, ShowsLatest
<1>4. ASSUME NEW a \in Account
      PROVE  Trader(a)'
  <2>1. Trader(a)
    BY DEF BookInv
  <2>2. ASSUME online[a] >= 0, latest[a] # {}
        PROVE  a \in DOMAIN orders' /\ InTime(a)'
    <3>1. a \in DOMAIN orders /\ InTime(a)
      BY <2>1, <2>2 DEF Trader
    <3>2. a \in DOMAIN orders'
      BY <1>2, <2>2, <3>1, NotTimedOut
    <3> QED BY <1>1, <1>2, <3>1, <3>2 DEF InTime
  <2> QED BY <1>1, <2>1, <2>2 DEF Trader
<1> QED BY <1>3, <1>4 DEF BookInv

(* A message of m.account is handled, or the account leaves the room.  *)
LEMMA BookAfterMessage ==
    ASSUME TypeOK, BookInv, NEW m \in wire, HandleMessage(m)
    PROVE  BookInv'
<1>1. m.account \in Account /\ m.offers \in SUBSET Order
  BY TypeParts
<1>2. PICK valid \in SUBSET m.offers :
        /\ UpdateOrders(m.account, valid)
        /\ latest' = [latest EXCEPT ![m.account] = valid]
  BY DEF HandleMessage
<1>3. now' = now /\ online' = online /\ wire' = wire \ {m}
  BY DEF HandleMessage
<1> DEFINE a == m.account
<1>4. /\ \A b \in Account \ {a} :
            /\ b \in DOMAIN orders' <=> b \in DOMAIN orders
            /\ b \in DOMAIN orders => orders'[b] = orders[b]
      /\ DOMAIN orders' \subseteq Account
      /\ a \in DOMAIN orders' <=> valid # {}
      /\ valid # {} => orders'[a] = [offers |-> valid, lastUpdate |-> now]
  BY <1>1, <1>2, UpdateOrdersEffect
<1>5. /\ latest'[a] = valid
      /\ \A b \in Account \ {a} : latest'[b] = latest[b]
  BY <1>1, <1>2, TypeParts
<1>6. WireInTime'
  BY <1>3 DEF BookInv, WireInTime
<1>7. ShowsLatest'
  <2> SUFFICES ASSUME NEW b \in DOMAIN orders'
               PROVE  orders'[b].offers = latest'[b] /\ latest'[b] # {}
    BY DEF ShowsLatest
  <2>1. CASE b = a
    BY <1>4, <1>5, <2>1
  <2>2. CASE b # a
    BY <1>4, <1>5, <2>2 DEF BookInv, ShowsLatest
  <2> QED BY <2>1, <2>2
<1>8. ASSUME NEW b \in Account
      PROVE  Trader(b)'
  <2>1. Trader(b)
    BY DEF BookInv
  <2>2. CASE b = a
    <3>1. online[a] # Offline
      BY <2>1, <2>2 DEF Trader
    <3>2. ASSUME online[a] >= 0, valid # {}
          PROVE  a \in DOMAIN orders' /\ InTime(a)'
      <4>1. orders'[a].lastUpdate = now
        BY <1>4, <3>2
      <4>2. online[a] <= now
        BY <2>1, <2>2, <3>2 DEF Trader
      <4> QED BY <1>3, <1>4, <3>2, <4>1, <4>2 DEF InTime
    <3> QED BY <1>3, <1>5, <2>1, <2>2, <3>1, <3>2 DEF Trader
  <2>3. CASE b # a
    <3>1. latest'[b] = latest[b]
      BY <1>5, <2>3
    <3>2. \A n \in wire : n.account = b => n \in wire'
      BY <1>3, <2>3
    <3>3. ASSUME online[b] >= 0, latest[b] # {}
          PROVE  b \in DOMAIN orders' /\ InTime(b)'
      <4>1. b \in DOMAIN orders /\ InTime(b)
        BY <2>1, <3>3 DEF Trader
      <4>2. b \in DOMAIN orders' /\ orders'[b] = orders[b]
        BY <1>4, <2>3, <4>1
      <4> QED BY <1>3, <3>2, <4>1, <4>2 DEF InTime
    <3> QED BY <1>3, <2>1, <3>1, <3>3 DEF Trader
  <2> QED BY <2>2, <2>3
<1> QED BY <1>6, <1>7, <1>8 DEF BookInv

LEMMA BookAfterDisconnect ==
    ASSUME TypeOK, BookInv, NEW a \in Account, HandleDisconnect(a)
    PROVE  BookInv'
<1>1. /\ UpdateOrders(a, {}) /\ now' = now
      /\ wire' = {m \in wire : m.account # a}
      /\ online'[a] = Offline /\ latest'[a] = {}
      /\ \A b \in Account \ {a} : online'[b] = online[b] /\ latest'[b] = latest[b]
  BY TypeParts DEF HandleDisconnect
<1>2. /\ \A b \in Account \ {a} :
            /\ b \in DOMAIN orders' <=> b \in DOMAIN orders
            /\ b \in DOMAIN orders => orders'[b] = orders[b]
      /\ DOMAIN orders' \subseteq Account
      /\ a \notin DOMAIN orders'
  BY <1>1, UpdateOrdersEffect
<1>3. WireInTime' /\ ShowsLatest'
  BY <1>1, <1>2 DEF BookInv, WireInTime, ShowsLatest
<1>4. ASSUME NEW b \in Account
      PROVE  Trader(b)'
  <2>1. Trader(b)
    BY DEF BookInv
  <2>2. CASE b = a
    BY <1>1, <2>2 DEF Trader, Offline
  <2>3. CASE b # a
    <3>1. \A n \in wire : n.account = b => n \in wire'
      BY <1>1, <2>3
    <3>2. ASSUME online[b] >= 0, latest[b] # {}
          PROVE  b \in DOMAIN orders' /\ InTime(b)'
      <4>1. b \in DOMAIN orders /\ InTime(b)
        BY <2>1, <3>2 DEF Trader
      <4>2. b \in DOMAIN orders' /\ orders'[b] = orders[b] /\ online'[b] = online[b]
        BY <1>1, <1>2, <2>3, <4>1
      <4> QED BY <3>1, <4>1, <4>2 DEF InTime
    <3> QED BY <1>1, <2>1, <2>3, <3>2 DEF Trader
  <2> QED BY <2>2, <2>3
<1> QED BY <1>3, <1>4 DEF BookInv

LEMMA BookAfterPublish ==
    ASSUME TypeOK, BookInv, NEW a \in Account, NEW offers \in SUBSET Order,
           Publish(a, offers)
    PROVE  BookInv'
<1> DEFINE new == [account |-> a, offers |-> offers, sent |-> now]
<1>1. /\ now' = now /\ orders' = orders /\ latest' = latest
      /\ wire' = wire \cup {new}
      /\ online[a] # Silent /\ online'[a] = now
      /\ \A b \in Account \ {a} : online'[b] = online[b]
  BY TypeParts DEF Publish
<1>2. new.account = a /\ new.sent = now
  OBVIOUS
<1> HIDE DEF new
<1>3. WireInTime' /\ ShowsLatest'
  BY <1>1, <1>2, Numbers, Intervals DEF BookInv, WireInTime, ShowsLatest
<1>4. ASSUME NEW b \in Account
      PROVE  Trader(b)'
  <2>1. Trader(b)
    BY DEF BookInv
  <2>2. CASE b = a
    <3>1. ASSUME latest[a] # {}
          PROVE  a \in DOMAIN orders /\ InTime(a)'
      <4>1. online[a] >= 0
        BY <1>1, <2>1, <2>2, <3>1, TypeParts DEF Trader, Offline, Silent
      <4>2. a \in DOMAIN orders /\ InTime(a) /\ now <= online[a] + RefreshIntv
        BY <2>1, <2>2, <3>1, <4>1 DEF Trader
      <4>3. CASE online[a] <= orders[a].lastUpdate
        <5>1. now <= orders[a].lastUpdate + RefreshIntv
          BY <4>2, <4>3, Numbers, Intervals
        <5> QED BY <1>1, <1>2, <4>2, <5>1 DEF InTime
      <4>4. CASE \E m \in wire : /\ m.account = a
                                 /\ m.sent <= orders[a].lastUpdate + RefreshIntv
        BY <1>1, <4>2, <4>4 DEF InTime
      <4> QED BY <4>2, <4>3, <4>4 DEF InTime
    <3>2. now # Offline /\ now <= now /\ now <= now + RefreshIntv
      BY Numbers, Intervals DEF Offline
    <3>3. online'[a] # Offline /\ online'[a] <= now' /\ now' <= online'[a] + RefreshIntv
      BY <1>1, <3>2
    <3>4. latest'[a] # {} => a \in DOMAIN orders' /\ InTime(a)'
      BY <1>1, <3>1
    <3>5. Trader(a)'
      BY <3>3, <3>4 DEF Trader
    <3> QED BY <2>2, <3>5
  <2>3. CASE b # a
    <3>1. InTime(b) => InTime(b)'
      BY <1>1, <2>3 DEF InTime
    <3> QED BY <1>1, <1>2, <2>1, <2>3, <3>1 DEF Trader
  <2> QED BY <2>2, <2>3
<1> QED BY <1>3, <1>4 DEF BookInv

LEMMA BookStep == TypeOK /\ BookInv /\ [Next]_vars => BookInv'
<1> SUFFICES ASSUME TypeOK, BookInv, [Next]_vars PROVE BookInv'
  OBVIOUS
<1>1. CASE Tick
  <2>1. /\ now' = now + 1
        /\ orders' = orders /\ online' = online /\ latest' = latest /\ wire' = wire
        /\ \A a \in Account : online[a] >= 0 => now < online[a] + RefreshIntv
        /\ \A m \in wire : now < m.sent + MaxDelay
    BY <1>1 DEF Tick
  <2>2. WireInTime' /\ ShowsLatest'
    BY <2>1, Numbers, Intervals DEF BookInv, WireInTime, ShowsLatest
  <2>3. ASSUME NEW a \in Account
        PROVE  Trader(a)'
    <3>1. Trader(a)
      BY DEF BookInv
    <3>2. InTime(a) => InTime(a)'
      BY <2>1 DEF InTime
    <3>3. online[a] >= 0 => online[a] <= now + 1 /\ now + 1 <= online[a] + RefreshIntv
      BY <2>1, <3>1, Numbers, Intervals DEF Trader
    <3> QED BY <2>1, <3>1, <3>2, <3>3 DEF Trader
  <2> QED BY <2>2, <2>3 DEF BookInv
<1>2. CASE RunTimeout
  BY <1>2, BookAfterTimeout
<1>3. ASSUME NEW a \in Account, NEW offers \in SUBSET Order, Publish(a, offers)
      PROVE  BookInv'
  BY <1>3, BookAfterPublish
<1>4. ASSUME NEW m \in wire, HandleMessage(m)
      PROVE  BookInv'
  BY <1>4, BookAfterMessage
<1>5. ASSUME NEW a \in Account, HandleDisconnect(a)
      PROVE  BookInv'
  BY <1>5, BookAfterDisconnect
<1>6. ASSUME NEW a \in Account, GoSilent(a)
      PROVE  BookInv'
  <2>1. /\ now' = now /\ orders' = orders /\ latest' = latest /\ wire' = wire
        /\ online'[a] = Silent
        /\ \A b \in Account \ {a} : online'[b] = online[b]
    BY <1>6, TypeParts DEF GoSilent
  <2>2. WireInTime' /\ ShowsLatest'
    BY <2>1 DEF BookInv, WireInTime, ShowsLatest
  <2>3. ASSUME NEW b \in Account
        PROVE  Trader(b)'
    <3>1. CASE b = a
      BY <2>1, <3>1 DEF Trader, Silent, Offline
    <3>2. CASE b # a
      <4>1. InTime(b) => InTime(b)'
        BY <2>1, <3>2 DEF InTime
      <4> QED BY <2>1, <3>2, <4>1 DEF BookInv, Trader
    <3> QED BY <3>1, <3>2
  <2> QED BY <2>2, <2>3 DEF BookInv
<1>7. CASE UNCHANGED vars
  BY <1>7 DEF vars, BookInv, WireInTime, ShowsLatest, Trader, InTime
<1> QED BY <1>1, <1>2, <1>3, <1>4, <1>5, <1>6, <1>7, Steps

(* The book shows what was received last, and a trader whose MyOrders      *)
(* repeats its orders after half of the timeout never loses its place,     *)
(* however the timeouter and the message handler interleave, provided that *)
(* messages take at most the other half.                                   *)
THEOREM StaysOnBook == Spec => []BookIsCurrent
<1>1. Init => BookInv
  BY DEF Init, BookInv, WireInTime, ShowsLatest, Trader, Offline
<1>2. BookInv /\ TypeOK => BookIsCurrent
  BY TypeParts DEF BookInv, ShowsLatest, Trader, BookIsCurrent
<1> QED BY <1>1, <1>2, TypeInit, TypeStep, BookStep, PTL DEF Spec
=============================================================================
