----------------------------- MODULE OrderBook ------------------------------
(***************************************************************************)
(* The order book that a daemon keeps of the other traders' orders         *)
(* (src/src/orderbook.cpp), fed from the chat room by Daemon::Impl         *)
(* (HandleMessage, HandleDisconnect in src/src/daemon.cpp), together with  *)
(* what makes it work: every trader repeats its orders after half of the   *)
(* time after which the others would drop them (the constructor of         *)
(* MyOrdersImpl).                                                          *)
(*                                                                         *)
(* A message takes at most MaxDelay from a trader's refresh (including the *)
(* time the refresh itself takes) to the book.  It must arrive before the  *)
(* orders it repeats time out.                                             *)
(***************************************************************************)
EXTENDS Integers, Sequences, FiniteSets

CONSTANTS
    Account,     \* the other traders
    Order,       \* what they may offer
    Timeout,     \* FLAGS_democrit_order_timeout_ms
    MaxDelay,    \* bound on the delay of a message
    MaxTime,     \* bound on the clock
    MaxQueue     \* bound on the number of messages queued or on the way

ASSUME OrderBookAssumption ==
    /\ Timeout \in Nat /\ MaxDelay \in Nat
    /\ MaxTime \in Nat /\ MaxQueue \in Nat
    /\ (Timeout \div 2) + MaxDelay <= Timeout

VARIABLES
    now,         \* the clock
    orders,      \* orders: account -> [offers, lastUpdate]
    updates,     \* the queue of update events
    online,      \* online[a]: time of a's last refresh, or one of
                 \* the two values below
    latest,      \* latest[a]: the valid orders in the last message handled
    wire         \* messages on the way: [account, offers, sent]

vars == <<now, orders, updates, online, latest, wire>>

Offline == -1   \* not in the room
Silent == -2    \* in the room, but hanging: no refreshes any more

RefreshIntv == Timeout \div 2

UpdateEvent == [account : Account, time : Nat]
AccountOrders == [offers : SUBSET Order, lastUpdate : Nat]

Without(f, as) == [a \in DOMAIN f \ as |-> f[a]]

-----------------------------------------------------------------------------
(* The book *)

(* An update without orders deletes the account; its events stay queued.   *)
Delete(a) ==
    /\ orders' = Without(orders, {a})
    /\ UNCHANGED updates

Store(a, offers, time) ==
    orders' = [b \in DOMAIN orders \cup {a} |->
                 IF b = a THEN [offers |-> offers, lastUpdate |-> time] ELSE orders[b]]

Enqueue(a) == updates' = Append(updates, [account |-> a, time |-> now])

UpdateOrdersBackdated(a, offers) ==
    \/ offers = {} /\ Delete(a)
    \/ offers # {} /\ Store(a, offers, now - Timeout) /\ Enqueue(a)
UpdateOrdersFirstOnly(a, offers) ==
    \/ offers = {} /\ Delete(a)
    \/ /\ offers # {} /\ Store(a, offers, now)
       /\ IF a \in DOMAIN orders THEN UNCHANGED updates ELSE Enqueue(a)

UpdateOrders(a, offers) ==
    \/ offers = {} /\ Delete(a)
    \/ offers # {} /\ Store(a, offers, now) /\ Enqueue(a)

TimedOut(time) == time < now - Timeout

(* The first k events are those that the loop pops from the queue.         *)
Pops(k) ==
    /\ \A i \in 1 .. k : TimedOut(updates[i].time)
    /\ k < Len(updates) => ~TimedOut(updates[k + 1].time)

(* Pop k events and erase those of their accounts that are in stale.       *)
Timeouter(k, stale) ==
    /\ orders' = Without(orders, {a \in stale :
                    \E i \in 1 .. k : updates[i].account = a})
    /\ updates' = SubSeq(updates, k + 1, Len(updates))
    /\ UNCHANGED <<now, online, latest, wire>>

Stale == {a \in DOMAIN orders : TimedOut(orders[a].lastUpdate)}

RunTimeoutOnce ==
    \E k \in {0, 1} \cap (0 .. Len(updates)) :
        /\ \A i \in 1 .. k : TimedOut(updates[i].time)
        /\ Timeouter(k, Stale)
RunTimeoutRefreshedToo ==
    \E k \in 0 .. Len(updates) : Pops(k) /\ Timeouter(k, DOMAIN orders)

RunTimeout ==
    \E k \in 0 .. Len(updates) : Pops(k) /\ Timeouter(k, Stale)

-----------------------------------------------------------------------------
(* The chat room *)

(* A trader publishes its orders: when they change, and at the latest half *)
(* of the timeout after the last time.                                     *)
Publish(a, offers) ==
    /\ online[a] # Silent
    /\ Len(updates) + Cardinality(wire) < MaxQueue
    /\ online' = [online EXCEPT ![a] = now]
    /\ wire' = wire \cup {[account |-> a, offers |-> offers, sent |-> now]}
    /\ UNCHANGED <<now, orders, updates, latest>>

(* Messages of one sender arrive in order.  Orders that are not valid for  *)
(* the sender are ignored.                                                 *)
HandleMessage(m) ==
    /\ m \in wire
    /\ \A n \in wire : n.account = m.account => m.sent <= n.sent
    /\ wire' = wire \ {m}
    /\ \E valid \in SUBSET m.offers :
          /\ UpdateOrders(m.account, valid)
          /\ latest' = [latest EXCEPT ![m.account] = valid]
    /\ UNCHANGED <<now, online>>

HandleDisconnect(a) ==
    /\ online[a] # Offline
    /\ online' = [online EXCEPT ![a] = Offline]
    /\ wire' = {m \in wire : m.account # a}
    /\ UpdateOrders(a, {})
    /\ latest' = [latest EXCEPT ![a] = {}]
    /\ UNCHANGED now

(* A trader hangs: it neither refreshes nor leaves the room.               *)
GoSilent(a) ==
    /\ online[a] >= 0
    /\ online' = [online EXCEPT ![a] = Silent]
    /\ UNCHANGED <<now, orders, updates, latest, wire>>

(* Time passes, but not beyond the next refresh of a trader, nor beyond    *)
(* the latest arrival of a message.                                        *)
Tick ==
    /\ now < MaxTime
    /\ \A a \in Account : online[a] >= 0 => now < online[a] + RefreshIntv
    /\ \A m \in wire : now < m.sent + MaxDelay
    /\ now' = now + 1
    /\ UNCHANGED <<orders, updates, online, latest, wire>>

-----------------------------------------------------------------------------
Init ==
    /\ now = 0
    /\ orders = [a \in {} |-> {}] /\ updates = <<>>
    /\ online = [a \in Account |-> Offline] /\ latest = [a \in Account |-> {}]
    /\ wire = {}

Next ==
    \/ Tick \/ RunTimeout
    \/ \E a \in Account :
          \/ HandleDisconnect(a) \/ GoSilent(a)
          \/ \E offers \in SUBSET Order : Publish(a, offers)
    \/ \E m \in wire : HandleMessage(m)

Spec == Init /\ [][Next]_vars

-----------------------------------------------------------------------------
(* Properties *)

TypeOK ==
    /\ now \in Nat
    /\ \E as \in SUBSET Account : orders \in [as -> AccountOrders]
    /\ updates \in Seq(UpdateEvent)
    /\ online \in [Account -> Nat \cup {Offline, Silent}]
    /\ latest \in [Account -> SUBSET Order]
    /\ wire \subseteq [account : Account, offers : SUBSET Order, sent : Nat]

(* The queue is in the order of time, none of it is in the future, and     *)
(* there is an event for the last update of every account: RunTimeout,     *)
(* which only looks at the front of the queue, will find every account.    *)
QueueCoversBook ==
    /\ \A i, j \in DOMAIN updates : i <= j => updates[i].time <= updates[j].time
    /\ \A i \in DOMAIN updates : updates[i].time <= now
    /\ \A a \in DOMAIN orders : \E i \in DOMAIN updates :
          updates[i] = [account |-> a, time |-> orders[a].lastUpdate]

(* After RunTimeout nothing stale is left in the book.                     *)
StaleGone ==
    [][RunTimeout => \A a \in DOMAIN orders' : ~TimedOut(orders'[a].lastUpdate)]_vars

(* The book never shows anything but the last orders received, and a       *)
(* trader who stays in the room does not lose its place in it: repeating   *)
(* the orders after half of the timeout is enough.                         *)
BookIsCurrent ==
    \A a \in Account :
        /\ a \in DOMAIN orders => orders[a].offers = latest[a] /\ latest[a] # {}
        /\ online[a] >= 0 /\ latest[a] # {} => a \in DOMAIN orders

=============================================================================
