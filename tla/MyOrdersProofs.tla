--------------------------- MODULE MyOrdersProofs ---------------------------
(***************************************************************************)
(* Proofs about the own orders: for any number of orders, amounts and      *)
(* interleavings of the four threads, the locks and the trades that hold   *)
(* them stay in step.                                                      *)
(***************************************************************************)
EXTENDS MyOrders, FiniteSetTheorems, TLAPS

-----------------------------------------------------------------------------
(* The inductive invariant *)

OrdersType(orders) == \E ids \in SUBSET Id : orders \in [ids -> OwnOrder]
Entry == [trade : Trade, success : BOOLEAN]

Types ==
    /\ OrdersType(own)
    /\ nextId \in 0 .. MaxId
    /\ trades \in Seq(Trade)
    /\ todo \in Seq(Entry)
    /\ reduced \in SUBSET Trade /\ taking \in SUBSET Trade
    /\ pc \in [Thread -> {"idle", "validate", "snapshot", "publish", "orderTaken",
                          "handle", "recreate"}]
    /\ then \in [Thread -> {"idle", "orderTaken", "handle", "recreate"}]

(* Who is going to unlock or remove the order i.                           *)
ByMessage(i) == \E tr \in taking : tr.id = i
ByTrade(i) == \E k \in DOMAIN trades : trades[k].id = i
ByEnded(i) == \E k \in DOMAIN todo : todo[k].trade.id = i
Held(i) == ByMessage(i) \/ ByTrade(i) \/ ByEnded(i)

(* An order is held once.                                                  *)
Exclusive ==
    /\ \A tr, tr2 \in taking : tr = tr2
    /\ \A k, l \in DOMAIN trades : trades[k].id = trades[l].id => k = l
    /\ \A k, l \in DOMAIN todo : todo[k].trade.id = todo[l].trade.id => k = l
    /\ \A i \in Id : /\ ~(ByMessage(i) /\ ByTrade(i))
                     /\ ~(ByMessage(i) /\ ByEnded(i))
                     /\ ~(ByTrade(i) /\ ByEnded(i))

(* An id that is given to a new order has never been in use.               *)
Fresh ==
    /\ \A i \in DOMAIN own : i < nextId
    /\ \A i \in Id : Held(i) => i < nextId

LocksMatch == \A i \in DOMAIN own : own[i].locked <=> Held(i)

(* A thread still has to get to the step that handles what it holds.       *)
Refreshing == {"validate", "snapshot", "publish"}
Bound(th, labels) ==
    pc[th] \in labels \/ (pc[th] \in Refreshing /\ then[th] \in labels)

Phases ==
    /\ taking # {} => Bound("xmpp", {"orderTaken"})
    /\ todo # <<>> => Bound("updater", {"handle", "recreate"})

LockInv == Exclusive /\ Fresh /\ LocksMatch

-----------------------------------------------------------------------------
(* Types and phases *)

(* Every step is one of these.                                             *)
LEMMA StepCases ==
    ASSUME [Next]_vars
    PROVE  \/ \E th \in Thread : DropInvalid(th) \/ TakeSnapshot(th) \/ UpdateOrders(th)
           \/ \E i \in Id, u \in Amount : TryLock(i, u)
           \/ OrderTaken
           \/ \E max \in Amount : AddOrder(max)
           \/ \E i \in Id : CancelOrder(i)
           \/ Update \/ HandleFailure \/ HandleSuccess \/ Recreate \/ AllHandled
           \/ StartRefresh \/ Environment
           \/ UNCHANGED vars
BY DEF Next, RunRefresh, Xmpp, Rpc, Updater

(* The trades picked in ascending order are a sequence of trades, the same *)
(* ones as at the indices picked from.                                     *)
LEMMA AscendingSeq ==
    ASSUME NEW n \in Nat, NEW S \in SUBSET (1 .. n), NEW f \in Ascending(S)
    PROVE  /\ Cardinality(S) \in Nat
           /\ f \in [1 .. Cardinality(S) -> S]
           /\ \A k \in DOMAIN f : f[k] \in S
           /\ \A x \in S : \E k \in DOMAIN f : f[k] = x
           /\ \A k, l \in DOMAIN f : f[k] = f[l] => k = l
<1>1. IsFiniteSet(1 .. n)
  BY FS_Interval
<1>2. IsFiniteSet(S)
  BY <1>1, FS_Subset
<1>3. Cardinality(S) \in Nat
  BY <1>2, FS_CardinalityType
<1>4. f \in [1 .. Cardinality(S) -> S] /\ \A x \in S : \E k \in DOMAIN f : f[k] = x
  BY DEF Ascending
<1>5. ASSUME NEW k \in DOMAIN f, NEW l \in DOMAIN f, f[k] = f[l] PROVE k = l
  <2>a. PICK c \in Nat : c = Cardinality(S)
    BY <1>3
  <2>b. f \in [1 .. c -> S]
    BY <2>a, <1>4
  <2>c. f[k] \in S /\ f[l] \in S /\ k \in 1 .. c /\ l \in 1 .. c
    BY <2>b
  <2>d. S \subseteq Int
    OBVIOUS
  <2>e. k \in Int /\ l \in Int
    BY <2>c
  <2>f. f[k] \in Int /\ f[l] \in Int
    BY <2>c, <2>d
  <2>1. k \in Int /\ l \in Int /\ f[k] \in Int /\ f[l] \in Int
    BY <2>e, <2>f
  <2>2. ~(k < l) /\ ~(l < k)
    BY <1>5, <2>1 DEF Ascending
  <2> QED BY <2>1, <2>2
<1> QED BY <1>3, <1>4, <1>5

(* What Archive leaves active and what it ends.                            *)
LEMMA ArchiveEffect ==
    ASSUME NEW ended \in SUBSET (1 .. Len(trades)), NEW success \in SUBSET ended,
           trades \in Seq(Trade), Archive(ended, success)
    PROVE  \E active \in Ascending(DOMAIN trades \ ended), done \in Ascending(ended) :
             /\ trades' = [k \in DOMAIN active |-> trades[active[k]]]
             /\ todo' = [k \in DOMAIN done |->
                           [trade |-> trades[done[k]], success |-> done[k] \in success]]
BY DEF Archive

(* An order that is removed leaves the type of the orders as it is.        *)
LEMMA OrdersWithout ==
    ASSUME NEW orders, OrdersType(orders), NEW S PROVE OrdersType(Without(orders, S))
<1>1. PICK ids \in SUBSET Id : orders \in [ids -> OwnOrder]
  BY DEF OrdersType
<1>2. Without(orders, S) \in [ids \ S -> OwnOrder]
  BY <1>1 DEF Without
<1> QED BY <1>2 DEF OrdersType

(* Locking and unlocking, too.                                             *)
LEMMA OrdersLock ==
    ASSUME NEW orders, OrdersType(orders), NEW i \in DOMAIN orders, NEW b \in BOOLEAN
    PROVE  OrdersType([orders EXCEPT ![i].locked = b])
<1>1. PICK ids \in SUBSET Id : orders \in [ids -> OwnOrder]
  BY DEF OrdersType
<1>2. orders[i] \in OwnOrder
  BY <1>1
<1>3. [orders[i] EXCEPT !.locked = b] \in OwnOrder
  BY <1>2 DEF OwnOrder
<1>4. [orders EXCEPT ![i].locked = b] \in [ids -> OwnOrder]
  BY <1>1, <1>3
<1> QED BY <1>4 DEF OrdersType

(* Unlock keeps the type, also where its CHECKs fail.                      *)
LEMMA OrdersUnlock ==
    ASSUME OrdersType(own), NEW th, NEW i, NEW label, Unlock(th, i, label)
    PROVE  OrdersType(own')
<1>1. CASE IsLocked(i) /\ own' = [own EXCEPT ![i].locked = FALSE]
  BY <1>1, OrdersLock DEF IsLocked
<1>2. CASE UNCHANGED own
  BY <1>2 DEF OrdersType
<1> QED BY <1>1, <1>2 DEF Unlock

(* A new order is added with its type.                                     *)
LEMMA OrdersInsert ==
    ASSUME OrdersType(own), NEW i \in Id, NEW o \in OwnOrder
    PROVE  OrdersType(Insert(i, o))
<1>1. PICK ids \in SUBSET Id : own \in [ids -> OwnOrder]
  BY DEF OrdersType
<1>2. Insert(i, o) \in [ids \cup {i} -> OwnOrder]
  BY <1>1 DEF Insert
<1> QED BY <1>2 DEF OrdersType

(* The types are kept.                                                     *)
LEMMA TypesStep ==
    ASSUME Types, [Next]_vars PROVE Types'
<1> USE MyOrdersAssumption
<1>1. ASSUME NEW th \in Thread, DropInvalid(th) PROVE Types'
  BY <1>1, OrdersWithout DEF DropInvalid, Step, Goto, Types
<1>2. ASSUME NEW th \in Thread, TakeSnapshot(th) PROVE Types'
  BY <1>2 DEF TakeSnapshot, Snapshot, Goto, Types
<1>3. ASSUME NEW th \in Thread, UpdateOrders(th) PROVE Types'
  BY <1>3 DEF UpdateOrders, Goto, Types
<1>4. ASSUME NEW i \in Id, NEW u \in Amount, TryLock(i, u) PROVE Types'
  <2>1. OrdersType(own')
    BY <1>4, OrdersLock DEF TryLock, Types
  <2>2. taking' \in SUBSET Trade
    <3>1. own[i] \in OwnOrder
      BY <1>4 DEF TryLock, Types, OrdersType
    <3>2. own[i].max \in Nat /\ own[i].root \in Id
      BY <3>1 DEF OwnOrder
    <3> QED BY <1>4, <3>2 DEF TryLock, Trade
  <2> QED BY <1>4, <2>1, <2>2 DEF TryLock, Refresh, Goto, Types, Thread
<1>5. CASE OrderTaken
  <2>1. PICK tr \in taking : TRUE
    BY <1>5 DEF OrderTaken
  <2>2. OrdersType(own')
    <3>1. UNCHANGED own \/ \E x \in taking : Unlock("xmpp", x.id, "idle")
      BY <1>5 DEF OrderTaken
    <3> QED BY <3>1, OrdersUnlock DEF Types
  <2>3. trades' \in Seq(Trade)
    BY <1>5 DEF OrderTaken, Types
  <2>4. pc' \in [Thread -> {"idle", "validate", "snapshot", "publish", "orderTaken",
                          "handle", "recreate"}]
        /\ then' \in [Thread -> {"idle", "orderTaken", "handle", "recreate"}]
    BY <1>5 DEF OrderTaken, Unlock, Refresh, Step, Goto, Types, Thread
  <2> QED BY <1>5, <2>2, <2>3, <2>4 DEF OrderTaken, Types
<1>6. ASSUME NEW max \in Amount, AddOrder(max) PROVE Types'
  <2>1. nextId \in Id /\ nextId + 1 \in 0 .. MaxId
    BY <1>6 DEF AddOrder, Types, Id
  <2>2. [max |-> max, locked |-> FALSE, root |-> nextId] \in OwnOrder
    BY <2>1 DEF OwnOrder
  <2>3. OrdersType(own')
    BY <1>6, <2>1, <2>2, OrdersInsert DEF AddOrder, Add, Types
  <2> QED BY <1>6, <2>1, <2>3 DEF AddOrder, Add, Refresh, Step, Goto, Types, Thread
<1>7. ASSUME NEW i \in Id, CancelOrder(i) PROVE Types'
  BY <1>7, OrdersWithout DEF CancelOrder, RemoveById, Refresh, Goto, Types, Thread
<1>8. CASE Update
  <2>1. PICK ended \in SUBSET (1 .. Len(trades)) :
          \E success \in SUBSET ended : Archive(ended, success)
    BY <1>8 DEF Update
  <2>2. PICK success \in SUBSET ended : Archive(ended, success)
    BY <2>1
  <2>3. PICK active \in Ascending(DOMAIN trades \ ended), done \in Ascending(ended) :
             /\ trades' = [k \in DOMAIN active |-> trades[active[k]]]
             /\ todo' = [k \in DOMAIN done |->
                           [trade |-> trades[done[k]], success |-> done[k] \in success]]
    BY <2>2, ArchiveEffect DEF Types
  <2>4. PICK n \in Nat : n = Len(trades) /\ DOMAIN trades = 1 .. n
    BY DEF Types
  <2>5. /\ Cardinality(DOMAIN trades \ ended) \in Nat
        /\ active \in [1 .. Cardinality(DOMAIN trades \ ended) -> DOMAIN trades \ ended]
    BY <2>4, AscendingSeq
  <2>6. /\ Cardinality(ended) \in Nat
        /\ done \in [1 .. Cardinality(ended) -> ended]
    BY <2>4, AscendingSeq
  <2>7. trades' \in Seq(Trade)
    <3>1. PICK c \in Nat : active \in [1 .. c -> DOMAIN trades \ ended]
      BY <2>5
    <3>2. trades \in [DOMAIN trades -> Trade]
      BY DEF Types
    <3>3. trades' \in [1 .. c -> Trade]
      BY <3>1, <3>2, <2>3
    <3> QED BY <3>3
  <2>8. todo' \in Seq(Entry)
    <3>1. PICK c \in Nat : done \in [1 .. c -> ended]
      BY <2>6
    <3>2. trades \in [DOMAIN trades -> Trade] /\ ended \subseteq DOMAIN trades
      BY <2>4 DEF Types
    <3>a. ASSUME NEW k \in 1 .. c
          PROVE  [trade |-> trades[done[k]], success |-> done[k] \in success] \in Entry
      BY <3>1, <3>2 DEF Entry
    <3>3. todo' \in [1 .. c -> Entry]
      BY <3>1, <3>a, <2>3
    <3> QED BY <3>3
  <2> QED BY <1>8, <2>7, <2>8 DEF Update, Step, Goto, Types, Thread
<1>9. CASE HandleFailure
  <2>1. todo' \in Seq(Entry)
    BY <1>9 DEF HandleFailure, Types
  <2>2. OrdersType(own')
    BY <1>9, OrdersUnlock DEF HandleFailure, Types
  <2> QED BY <1>9, <2>1, <2>2 DEF HandleFailure, Unlock, Refresh, Goto, Types, Thread
<1>10. CASE HandleSuccess
  <2>1. todo \in Seq(Entry) /\ todo # <<>>
    BY <1>10 DEF HandleSuccess, Types
  <2>2. Tail(todo) \in Seq(Entry) /\ Head(todo) \in Entry
    BY <2>1
  <2>3. Head(todo).trade \in Trade
    BY <2>2 DEF Entry
  <2>4. OrdersType(own')
    BY <1>10, OrdersWithout DEF HandleSuccess, RemoveById, Types
  <2>5. todo' \in Seq(Entry) /\ reduced' \in SUBSET Trade
    BY <1>10, <2>2, <2>3 DEF HandleSuccess
  <2> QED BY <1>10, <2>4, <2>5 DEF HandleSuccess, RemoveById, Refresh, Goto, Types, Thread
<1>11. CASE Recreate
  <2>1. PICK tr \in reduced :
            /\ reduced' = {}
            /\ \/ /\ Rest(tr) > 0 /\ Rest(tr) >= MinUnits
                  /\ nextId < MaxId
                  /\ Add("updater", Rest(tr), tr.root, "handle")
               \/ /\ Step("updater", "handle")
                  /\ UNCHANGED <<own, nextId>>
            /\ UNCHANGED <<trades, todo, taking>>
    BY <1>11 DEF Recreate
  <2>2. tr \in Trade
    BY DEF Types
  <2>3. CASE /\ Rest(tr) > 0 /\ Rest(tr) >= MinUnits
             /\ nextId < MaxId
             /\ Add("updater", Rest(tr), tr.root, "handle")
    <3>1. nextId \in Id /\ nextId + 1 \in 0 .. MaxId
      BY <2>3 DEF Types, Id
    <3>2. Rest(tr) \in Nat
      BY <2>2, <2>3 DEF Rest, Trade
    <3>3. [max |-> Rest(tr), locked |-> FALSE, root |-> tr.root] \in OwnOrder
      BY <3>2, <2>2 DEF OwnOrder, Trade
    <3>4. OrdersType(own')
      BY <2>3, <3>1, <3>3, OrdersInsert DEF Add, Types
    <3> QED BY <2>1, <2>3, <3>1, <3>4 DEF Add, Refresh, Step, Goto, Types, Thread
  <2>4. CASE Step("updater", "handle") /\ UNCHANGED <<own, nextId>>
    BY <2>1, <2>4 DEF Step, Goto, Types, Thread
  <2> QED BY <2>1, <2>3, <2>4
<1>12. CASE AllHandled \/ StartRefresh
  BY <1>12 DEF AllHandled, StartRefresh, Refresh, Step, Goto, Types, Thread
<1>13. CASE Environment
  BY <1>13 DEF Environment, ChangeAssets, Disconnect, Reconnect, locals, Types
<1>14. CASE UNCHANGED vars
  BY <1>14 DEF vars, locals, Types
<1> QED BY <1>1, <1>2, <1>3, <1>4, <1>5, <1>6, <1>7, <1>8, <1>9, <1>10, <1>11, <1>12,
           <1>13, <1>14, StepCases

(* A thread gets to the step that handles what it holds.                   *)
LEMMA PhasesStep ==
    ASSUME Types, Phases, [Next]_vars PROVE Phases'
<1> USE DEF Phases, Bound, Refreshing, Thread
<1>1. ASSUME NEW th \in Thread, DropInvalid(th) PROVE Phases'
  BY <1>1 DEF DropInvalid, Step, Goto, Types
<1>2. ASSUME NEW th \in Thread, TakeSnapshot(th) PROVE Phases'
  BY <1>2 DEF TakeSnapshot, Snapshot, Goto, Types
<1>3. ASSUME NEW th \in Thread, UpdateOrders(th) PROVE Phases'
  BY <1>3 DEF UpdateOrders, Goto, Types
<1>4. ASSUME NEW i \in Id, NEW u \in Amount, TryLock(i, u) PROVE Phases'
  BY <1>4 DEF TryLock, Refresh, Goto, Types
<1>5. CASE OrderTaken
  BY <1>5 DEF OrderTaken, Unlock, Refresh, Step, Goto, Types
<1>6. ASSUME NEW max \in Amount, AddOrder(max) PROVE Phases'
  BY <1>6 DEF AddOrder, Add, Refresh, Step, Goto, Types
<1>7. ASSUME NEW i \in Id, CancelOrder(i) PROVE Phases'
  BY <1>7 DEF CancelOrder, RemoveById, Refresh, Goto, Types
<1>8. CASE Update
  BY <1>8 DEF Update, Step, Goto, Types
<1>9. CASE HandleFailure
  BY <1>9 DEF HandleFailure, Unlock, Refresh, Goto, Types
<1>10. CASE HandleSuccess
  BY <1>10 DEF HandleSuccess, RemoveById, Refresh, Goto, Types
<1>11. CASE Recreate
  BY <1>11 DEF Recreate, Add, Refresh, Step, Goto, Types
<1>12. CASE AllHandled \/ StartRefresh
  BY <1>12 DEF AllHandled, StartRefresh, Refresh, Step, Goto, Types
<1>13. CASE Environment
  BY <1>13 DEF Environment, ChangeAssets, Disconnect, Reconnect, locals
<1>14. CASE UNCHANGED vars
  BY <1>14 DEF vars, locals
<1> QED BY <1>1, <1>2, <1>3, <1>4, <1>5, <1>6, <1>7, <1>8, <1>9, <1>10, <1>11, <1>12,
           <1>13, <1>14, StepCases

-----------------------------------------------------------------------------
(* Locks and their holders *)

(* Orders may go away, and nothing else happens to them or their holders:  *)
(* cancelling, dropping what is invalid, and steps that change no order.   *)
LEMMA OrdersGo ==
    ASSUME Types, LockInv, UNCHANGED <<trades, todo, taking, nextId>>,
           NEW S, own' = Without(own, S) \/ own' = own
    PROVE  LockInv'
<1>1. \A i : Held(i)' <=> Held(i)
  BY DEF Held, ByMessage, ByTrade, ByEnded
<1>2. Exclusive'
  BY DEF LockInv, Exclusive, ByMessage, ByTrade, ByEnded
<1>3. DOMAIN own' \subseteq DOMAIN own /\ \A i \in DOMAIN own' : own'[i] = own[i]
  BY DEF Without
<1>4. Fresh'
  BY <1>1, <1>3 DEF LockInv, Fresh
<1>5. LocksMatch'
  BY <1>1, <1>3 DEF LockInv, LocksMatch
<1> QED BY <1>2, <1>4, <1>5 DEF LockInv

(* Add: a new order is not locked, and nobody holds its id.                *)
LEMMA OrderAdded ==
    ASSUME Types, LockInv, UNCHANGED <<trades, todo, taking>>, nextId < MaxId,
           NEW th, NEW max, NEW root, NEW label, Add(th, max, root, label)
    PROVE  LockInv'
<1> USE MyOrdersAssumption
<1>1. CASE UNCHANGED <<own, nextId>>
  BY <1>1, OrdersGo
<1>2. CASE /\ own' = Insert(nextId, [max |-> max, locked |-> FALSE, root |-> root])
           /\ nextId' = nextId + 1
  <2>1. \A i : Held(i)' <=> Held(i)
    BY DEF Held, ByMessage, ByTrade, ByEnded
  <2>2. Exclusive'
    BY DEF LockInv, Exclusive, ByMessage, ByTrade, ByEnded
  <2>3. nextId \in Id /\ nextId \in Int
    BY DEF Types, Id
  <2>4. \A i \in DOMAIN own : i \in Int
    BY DEF Types, OrdersType, Id
  <2>5. DOMAIN own' = DOMAIN own \cup {nextId}
    BY <1>2 DEF Insert
  <2>6. Fresh'
    BY <1>2, <2>1, <2>3, <2>4, <2>5 DEF LockInv, Fresh, Id
  <2>7. ~Held(nextId)
    BY <2>3 DEF LockInv, Fresh
  <2>8. own'[nextId].locked = FALSE
    BY <1>2 DEF Insert
  <2>9. \A i \in DOMAIN own : own'[i] = own[i]
    <3>1. nextId \notin DOMAIN own
      BY <2>3 DEF LockInv, Fresh
    <3> QED BY <1>2, <3>1 DEF Insert
  <2>10. LocksMatch'
    BY <2>1, <2>5, <2>7, <2>8, <2>9 DEF LockInv, LocksMatch
  <2> QED BY <2>2, <2>6, <2>10 DEF LockInv
<1> QED BY <1>1, <1>2 DEF Add

(* TryLock: an order that is not locked has no holder, and gets one.       *)
LEMMA OrderLocked ==
    ASSUME Types, Phases, LockInv, NEW i \in Id, NEW u \in Amount, TryLock(i, u)
    PROVE  LockInv' /\ \A j : Held(j)' <=> (Held(j) \/ j = i)
<1>1. taking = {}
  BY DEF TryLock, Phases, Bound, Refreshing
<1>2. i \in DOMAIN own /\ ~own[i].locked
  BY DEF TryLock
<1>3. ~Held(i)
  BY <1>2 DEF LockInv, LocksMatch
<1> DEFINE tr == [id |-> i, units |-> u, max |-> own[i].max, root |-> own[i].root]
<1>4. taking' = {tr} /\ tr.id = i
  BY DEF TryLock
<1> HIDE DEF tr
<1>5. UNCHANGED <<trades, todo, nextId>>
  BY DEF TryLock
<1>6. \A j : /\ ByMessage(j)' <=> j = i
             /\ ByTrade(j)' <=> ByTrade(j)
             /\ ByEnded(j)' <=> ByEnded(j)
  BY <1>4, <1>5 DEF ByMessage, ByTrade, ByEnded
<1>7. \A j : Held(j)' <=> (Held(j) \/ j = i)
  BY <1>1, <1>6 DEF Held, ByMessage
<1>8. Exclusive'
  BY <1>3, <1>4, <1>5, <1>6 DEF Exclusive, LockInv, Held
<1>9. own' = [own EXCEPT ![i].locked = TRUE]
  BY DEF TryLock
<1>10. DOMAIN own' = DOMAIN own
  BY <1>9
<1>11. Fresh'
  BY <1>2, <1>5, <1>7, <1>10 DEF LockInv, Fresh
<1>12. own'[i].locked = TRUE
  <2>1. own[i] \in OwnOrder
    BY <1>2 DEF Types, OrdersType
  <2> QED BY <1>2, <1>9, <2>1 DEF OwnOrder
<1>13. \A j \in DOMAIN own : j # i => own'[j] = own[j]
  BY <1>9
<1>14. LocksMatch'
  BY <1>7, <1>10, <1>12, <1>13 DEF LockInv, LocksMatch
<1> QED BY <1>7, <1>8, <1>11, <1>14 DEF LockInv

(* Unlock: the only holder of an order lets go of it.  If the order is not *)
(* there any more, the daemon is aborted and nothing is unlocked.          *)
LEMMA OrderUnlocked ==
    ASSUME Types, LockInv, NEW i \in Id, Held(i), Exclusive', UNCHANGED nextId,
           \A j : Held(j)' <=> (Held(j) /\ j # i),
           NEW th, NEW label, Unlock(th, i, label)
    PROVE  LockInv'
<1>1. CASE /\ IsLocked(i)
           /\ own' = [own EXCEPT ![i].locked = FALSE]
  <2>1. DOMAIN own' = DOMAIN own
    BY <1>1
  <2>2. Fresh'
    BY <2>1 DEF LockInv, Fresh
  <2>3. own'[i].locked = FALSE
    <3>1. own[i] \in OwnOrder /\ i \in DOMAIN own
      BY <1>1 DEF Types, OrdersType, IsLocked
    <3> QED BY <1>1, <3>1 DEF OwnOrder
  <2>4. \A j \in DOMAIN own : j # i => own'[j] = own[j]
    BY <1>1
  <2>5. LocksMatch'
    BY <2>1, <2>3, <2>4 DEF LockInv, LocksMatch
  <2> QED BY <2>2, <2>5 DEF LockInv
<1>2. CASE ~IsLocked(i) /\ UNCHANGED own
  <2>1. i \notin DOMAIN own
    BY <1>2 DEF LockInv, LocksMatch, IsLocked
  <2>2. Fresh'
    BY <1>2 DEF LockInv, Fresh
  <2>3. LocksMatch'
    BY <1>2, <2>1 DEF LockInv, LocksMatch
  <2> QED BY <2>2, <2>3 DEF LockInv
<1> QED BY <1>1, <1>2 DEF Unlock

(* OrderTaken: the lock goes over to the new trade, or is given back.      *)
LEMMA OrderTakenKeeps ==
    ASSUME Types, LockInv, OrderTaken PROVE LockInv' /\ \A j : Held(j)' => Held(j)
<1>1. PICK tr \in taking :
        /\ taking' = {}
        /\ \/ trades' = Append(trades, tr) /\ UNCHANGED own
           \/ Unlock("xmpp", tr.id, "idle") /\ UNCHANGED trades
        /\ UNCHANGED <<nextId, todo>>
  BY DEF OrderTaken
<1>2. tr \in Trade /\ tr.id \in Id
  BY DEF Types, Trade
<1>3. \A j : ByMessage(j) <=> j = tr.id
  BY DEF ByMessage, LockInv, Exclusive
<1>4. \A j : ~ByMessage(j)' /\ (ByEnded(j)' <=> ByEnded(j))
  BY <1>1 DEF ByMessage, ByEnded
<1>5. CASE trades' = Append(trades, tr) /\ UNCHANGED own
  <2>1. PICK n \in Nat : n = Len(trades) /\ DOMAIN trades = 1 .. n
    BY DEF Types
  <2>2. /\ DOMAIN trades' = 1 .. (n + 1)
        /\ \A k \in 1 .. n : trades'[k] = trades[k]
        /\ trades'[n + 1] = tr
    BY <1>2, <1>5, <2>1 DEF Types
  <2>3. \A j : ByTrade(j)' <=> (ByTrade(j) \/ j = tr.id)
    BY <2>1, <2>2 DEF ByTrade
  <2>4. \A j : Held(j)' <=> Held(j)
    BY <1>3, <1>4, <2>3 DEF Held
  <2>5. ~ByTrade(tr.id) /\ ~ByEnded(tr.id)
    BY <1>2, <1>3 DEF LockInv, Exclusive
  <2>6. \A k, l \in DOMAIN trades' : trades'[k].id = trades'[l].id => k = l
    BY <2>1, <2>2, <2>5 DEF LockInv, Exclusive, ByTrade
  <2>7. Exclusive'
    BY <1>1, <1>4, <2>3, <2>5, <2>6 DEF LockInv, Exclusive
  <2> QED BY <1>1, <1>5, <2>4, <2>7 DEF LockInv, Fresh, LocksMatch
<1>6. CASE Unlock("xmpp", tr.id, "idle") /\ UNCHANGED trades
  <2>1. \A j : ByTrade(j)' <=> ByTrade(j)
    BY <1>6 DEF ByTrade
  <2>2. ~ByTrade(tr.id) /\ ~ByEnded(tr.id)
    BY <1>2, <1>3 DEF LockInv, Exclusive
  <2>3. \A j : Held(j)' <=> (Held(j) /\ j # tr.id)
    BY <1>3, <1>4, <2>1, <2>2 DEF Held
  <2>4. Exclusive'
    BY <1>1, <1>4, <1>6, <2>1 DEF LockInv, Exclusive
  <2>5. Held(tr.id)
    BY <1>3 DEF Held
  <2>6. LockInv'
    BY <1>1, <1>2, <1>6, <2>3, <2>4, <2>5, OrderUnlocked
  <2> QED BY <2>3, <2>6
<1> QED BY <1>1, <1>5, <1>6

(* Update: what held a lock as an active trade holds it as one that is to  *)
(* be handled, or is still active.                                         *)
LEMMA UpdateKeeps ==
    ASSUME Types, Phases, LockInv, Update PROVE LockInv' /\ \A j : Held(j)' => Held(j)
<1>1. PICK ended \in SUBSET (1 .. Len(trades)) :
        \E success \in SUBSET ended : Archive(ended, success)
  BY DEF Update
<1>2. PICK success \in SUBSET ended : Archive(ended, success)
  BY <1>1
<1>3. PICK active \in Ascending(DOMAIN trades \ ended), done \in Ascending(ended) :
           /\ trades' = [k \in DOMAIN active |-> trades[active[k]]]
           /\ todo' = [k \in DOMAIN done |->
                         [trade |-> trades[done[k]], success |-> done[k] \in success]]
  BY <1>2, ArchiveEffect DEF Types
<1>4. PICK n \in Nat : n = Len(trades) /\ DOMAIN trades = 1 .. n
  BY DEF Types
<1>5. /\ \A k \in DOMAIN active : active[k] \in DOMAIN trades \ ended
      /\ \A x \in DOMAIN trades \ ended : \E k \in DOMAIN active : active[k] = x
      /\ \A k, l \in DOMAIN active : active[k] = active[l] => k = l
  BY <1>4, AscendingSeq
<1>6. /\ \A k \in DOMAIN done : done[k] \in ended
      /\ \A x \in ended : \E k \in DOMAIN done : done[k] = x
      /\ \A k, l \in DOMAIN done : done[k] = done[l] => k = l
  BY <1>4, AscendingSeq
<1>7. todo = <<>>
  BY DEF Update, Phases, Bound, Refreshing
<1>8. UNCHANGED <<own, nextId, taking>>
  BY DEF Update
<1>9. /\ DOMAIN trades' = DOMAIN active
      /\ \A k \in DOMAIN active : trades'[k] = trades[active[k]]
      /\ DOMAIN todo' = DOMAIN done
      /\ \A k \in DOMAIN done : todo'[k].trade = trades[done[k]]
  BY <1>3
<1>10. ended \subseteq DOMAIN trades
  BY <1>4
<1>11. \A j : /\ ByTrade(j)' <=> \E x \in DOMAIN trades \ ended : trades[x].id = j
              /\ ByEnded(j)' <=> \E x \in ended : trades[x].id = j
              /\ ByMessage(j)' <=> ByMessage(j)
  <2>1. \A j : ByTrade(j)' <=> \E x \in DOMAIN trades \ ended : trades[x].id = j
    BY <1>5, <1>9 DEF ByTrade
  <2>2. \A j : ByEnded(j)' <=> \E x \in ended : trades[x].id = j
    <3>1. \A j : ByEnded(j)' <=> \E k \in DOMAIN done : trades[done[k]].id = j
      BY <1>9 DEF ByEnded
    <3> QED BY <3>1, <1>6
  <2> QED BY <2>1, <2>2, <1>8 DEF ByMessage
<1>12. \A j : ~ByEnded(j)
  BY <1>7 DEF ByEnded
<1>13. \A j : Held(j)' <=> Held(j)
  BY <1>10, <1>11, <1>12 DEF Held, ByTrade
<1>14. \A k, l \in DOMAIN trades' : trades'[k].id = trades'[l].id => k = l
  BY <1>5, <1>9 DEF LockInv, Exclusive
<1>15. \A k, l \in DOMAIN todo' : todo'[k].trade.id = todo'[l].trade.id => k = l
  BY <1>6, <1>9, <1>10 DEF LockInv, Exclusive
<1>16. \A j \in Id : /\ ~(ByMessage(j) /\ ByTrade(j))'
                     /\ ~(ByMessage(j) /\ ByEnded(j))'
                     /\ ~(ByTrade(j) /\ ByEnded(j))'
  BY <1>10, <1>11 DEF LockInv, Exclusive, ByTrade
<1>17. Exclusive'
  BY <1>8, <1>14, <1>15, <1>16 DEF LockInv, Exclusive
<1> QED BY <1>8, <1>13, <1>17 DEF LockInv, Fresh, LocksMatch

(* What is left of the finalised trades after the first has been handled.  *)
LEMMA HandledOne ==
    ASSUME Types, LockInv, todo # <<>>, todo' = Tail(todo), UNCHANGED <<trades, taking>>
    PROVE  /\ Head(todo).trade.id \in Id /\ Held(Head(todo).trade.id)
           /\ Exclusive'
           /\ \A j : Held(j)' <=> (Held(j) /\ j # Head(todo).trade.id)
<1>1. todo \in Seq(Entry)
  BY DEF Types
<1>2. PICK n \in Nat : Len(todo) = n + 1 /\ DOMAIN todo = 1 .. (n + 1)
  <2>1. Len(todo) \in Nat /\ Len(todo) # 0 /\ DOMAIN todo = 1 .. Len(todo)
    BY <1>1
  <2>2. Len(todo) - 1 \in Nat /\ Len(todo) = (Len(todo) - 1) + 1
    BY <2>1
  <2> QED BY <2>1, <2>2
<1>3. DOMAIN todo' = 1 .. n /\ \A k \in 1 .. n : todo'[k] = todo[k + 1]
  BY <1>1, <1>2
<1>4. Head(todo) = todo[1] /\ 1 \in DOMAIN todo
  BY <1>1, <1>2
<1>5. PICK h : h = todo[1].trade.id /\ h \in Id /\ h = Head(todo).trade.id
  <2>1. todo[1] \in Entry
    BY <1>1, <1>4
  <2>2. todo[1].trade \in Trade
    BY <2>1 DEF Entry
  <2>3. todo[1].trade.id \in Id
    BY <2>2 DEF Trade
  <2> QED BY <2>3, <1>4
<1>6. ByEnded(h)
  BY <1>4, <1>5 DEF ByEnded
<1>7. \A k \in 2 .. (n + 1) : todo[k].trade.id # h
  BY <1>2, <1>4, <1>5 DEF LockInv, Exclusive
<1>8. \A j : ByEnded(j)' <=> \E k \in 2 .. (n + 1) : todo[k].trade.id = j
  <2>1. ASSUME NEW j, NEW k \in 1 .. n, todo'[k].trade.id = j
        PROVE  \E l \in 2 .. (n + 1) : todo[l].trade.id = j
    <3>1. k + 1 \in 2 .. (n + 1)
      OBVIOUS
    <3> QED BY <3>1, <2>1, <1>3
  <2>2. ASSUME NEW j, NEW k \in 2 .. (n + 1), todo[k].trade.id = j
        PROVE  \E l \in 1 .. n : todo'[l].trade.id = j
    <3>1. k - 1 \in 1 .. n /\ (k - 1) + 1 = k
      OBVIOUS
    <3>2. todo'[k - 1] = todo[k]
      BY <3>1, <1>3
    <3> QED BY <3>1, <3>2, <2>2
  <2> QED BY <2>1, <2>2, <1>3 DEF ByEnded
<1>9. \A k \in 1 .. (n + 1) : k = 1 \/ k \in 2 .. (n + 1)
  OBVIOUS
<1>10. \A j : ByEnded(j)' <=> (ByEnded(j) /\ j # h)
  <2>1. \A j : ByEnded(j) <=> (j = h \/ \E k \in 2 .. (n + 1) : todo[k].trade.id = j)
    BY <1>2, <1>4, <1>5, <1>9 DEF ByEnded
  <2> QED BY <2>1, <1>7, <1>8
<1>11. \A j : (ByMessage(j)' <=> ByMessage(j)) /\ (ByTrade(j)' <=> ByTrade(j))
  BY DEF ByMessage, ByTrade
<1>12. ~ByMessage(h) /\ ~ByTrade(h)
  BY <1>5, <1>6 DEF LockInv, Exclusive
<1>13. \A j : Held(j)' <=> (Held(j) /\ j # h)
  BY <1>10, <1>11, <1>12 DEF Held
<1>14. \A k, l \in DOMAIN todo' : todo'[k].trade.id = todo'[l].trade.id => k = l
  <2>1. SUFFICES ASSUME NEW k \in 1 .. n, NEW l \in 1 .. n,
                        todo[k + 1].trade.id = todo[l + 1].trade.id
                 PROVE  k = l
    BY <1>3
  <2>2. k + 1 \in DOMAIN todo /\ l + 1 \in DOMAIN todo
    BY <1>2
  <2>3. k + 1 = l + 1
    BY <2>1, <2>2 DEF LockInv, Exclusive
  <2> QED BY <2>3
<1>15. Exclusive'
  BY <1>10, <1>11, <1>14 DEF LockInv, Exclusive
<1> QED BY <1>5, <1>6, <1>13, <1>15 DEF Held

(* HandleSuccess: the order goes away together with its holder.            *)
LEMMA OrderSold ==
    ASSUME Types, LockInv, HandleSuccess PROVE LockInv'
<1>1. /\ todo # <<>> /\ todo' = Tail(todo)
      /\ UNCHANGED <<trades, taking, nextId>>
      /\ own' = Without(own, {Head(todo).trade.id})
  BY DEF HandleSuccess, RemoveById
<1>2. PICK h \in Id : /\ h = Head(todo).trade.id
                      /\ \A j : Held(j)' <=> (Held(j) /\ j # h)
                      /\ Exclusive'
  BY <1>1, HandledOne
<1>3. DOMAIN own' = DOMAIN own \ {h} /\ \A i \in DOMAIN own' : own'[i] = own[i]
  BY <1>1, <1>2 DEF Without
<1>4. Fresh'
  BY <1>1, <1>2, <1>3 DEF LockInv, Fresh
<1>5. LocksMatch'
  BY <1>2, <1>3 DEF LockInv, LocksMatch
<1> QED BY <1>2, <1>4, <1>5 DEF LockInv

(* Every step keeps the locks and their holders in step.                   *)
LEMMA LockStep ==
    ASSUME Types, Phases, LockInv, [Next]_vars PROVE LockInv'
<1>1. ASSUME NEW th \in Thread, DropInvalid(th) PROVE LockInv'
  BY <1>1, OrdersGo DEF DropInvalid
<1>2. ASSUME NEW th \in Thread, TakeSnapshot(th) \/ UpdateOrders(th) PROVE LockInv'
  BY <1>2, OrdersGo DEF TakeSnapshot, Snapshot, UpdateOrders
<1>3. ASSUME NEW i \in Id, NEW u \in Amount, TryLock(i, u) PROVE LockInv'
  BY <1>3, OrderLocked
<1>4. CASE OrderTaken
  BY <1>4, OrderTakenKeeps
<1>5. ASSUME NEW max \in Amount, AddOrder(max) PROVE LockInv'
  BY <1>5, OrderAdded DEF AddOrder
<1>6. ASSUME NEW i \in Id, CancelOrder(i) PROVE LockInv'
  BY <1>6, OrdersGo DEF CancelOrder, RemoveById
<1>7. CASE Update
  BY <1>7, UpdateKeeps
<1>8. CASE HandleFailure
  <2>1. /\ todo # <<>> /\ todo' = Tail(todo)
        /\ UNCHANGED <<trades, taking, nextId>>
        /\ Unlock("updater", Head(todo).trade.id, "handle")
    BY <1>8 DEF HandleFailure
  <2>2. PICK h \in Id : /\ h = Head(todo).trade.id /\ Held(h)
                        /\ \A j : Held(j)' <=> (Held(j) /\ j # h)
                        /\ Exclusive'
    BY <2>1, HandledOne
  <2> QED BY <2>1, <2>2, OrderUnlocked
<1>9. CASE HandleSuccess
  BY <1>9, OrderSold
<1>10. CASE Recreate
  <2>1. \/ UNCHANGED <<own, nextId>>
        \/ nextId < MaxId /\ \E tr : Add("updater", Rest(tr), tr.root, "handle")
    BY <1>10 DEF Recreate
  <2>2. UNCHANGED <<trades, todo, taking>>
    BY <1>10 DEF Recreate
  <2> QED BY <2>1, <2>2, OrdersGo, OrderAdded
<1>11. CASE AllHandled \/ StartRefresh
  BY <1>11, OrdersGo DEF AllHandled, StartRefresh
<1>12. CASE Environment
  BY <1>12, OrdersGo DEF Environment, ChangeAssets, Disconnect, Reconnect, locals
<1>13. CASE UNCHANGED vars
  BY <1>13, OrdersGo DEF vars, locals
<1> QED BY <1>1, <1>2, <1>3, <1>4, <1>5, <1>6, <1>7, <1>8, <1>9, <1>10, <1>11, <1>12,
           <1>13, StepCases

(* Initially there are no orders and no trades.                            *)
LEMMA InitInv ==
    ASSUME Init PROVE Types /\ Phases /\ LockInv
<1> USE MyOrdersAssumption
<1>1. OrdersType(own)
  <2>1. own \in [{} -> OwnOrder]
    BY DEF Init
  <2> QED BY <2>1 DEF OrdersType
<1>2. Types
  BY <1>1 DEF Init, Types
<1>3. Phases
  BY DEF Init, Phases
<1>4. \A i : ~ByMessage(i) /\ ~ByTrade(i) /\ ~ByEnded(i)
  BY DEF Init, ByMessage, ByTrade, ByEnded
<1>5. LockInv
  BY <1>4 DEF Init, LockInv, Exclusive, Fresh, LocksMatch, Held
<1> QED BY <1>2, <1>3, <1>5

(* The inductive invariant holds.                                          *)
LEMMA InvHolds == Spec => [](Types /\ Phases /\ LockInv)
<1>1. Init => Types /\ Phases /\ LockInv
  BY InitInv
<1>2. Types /\ Phases /\ LockInv /\ [Next]_vars => (Types /\ Phases /\ LockInv)'
  BY TypesStep, PhasesStep, LockStep
<1> QED BY <1>1, <1>2, PTL DEF Spec

-----------------------------------------------------------------------------
(* The number of holders *)

(* The cardinality of a set of at most one element.                        *)
LEMMA AtMostOne ==
    ASSUME NEW S, \A x, y \in S : x = y
    PROVE  Cardinality(S) = IF S = {} THEN 0 ELSE 1
<1>1. CASE S = {}
  BY <1>1, FS_EmptySet
<1>2. CASE S # {}
  <2>1. PICK x : S = {x}
    BY <1>2
  <2>2. Cardinality(S) = 1
    BY <2>1, FS_Singleton
  <2> QED BY <1>2, <2>2
<1> QED BY <1>1, <1>2

(* There is exactly one holder of an order that is held.                   *)
LEMMA HoldersCount ==
    ASSUME LockInv, NEW i \in Id
    PROVE  Holders(i) = IF Held(i) THEN 1 ELSE 0
<1> DEFINE M == {tr \in taking : tr.id = i}
           T == {k \in DOMAIN trades : trades[k].id = i}
           E == {k \in DOMAIN todo : todo[k].trade.id = i}
<1>1. Cardinality(M) = IF ByMessage(i) THEN 1 ELSE 0
  <2>1. \A x, y \in M : x = y
    BY DEF LockInv, Exclusive
  <2>2. M = {} <=> ~ByMessage(i)
    BY DEF ByMessage
  <2> QED BY <2>1, <2>2, AtMostOne
<1>2. Cardinality(T) = IF ByTrade(i) THEN 1 ELSE 0
  <2>1. \A x, y \in T : x = y
    BY DEF LockInv, Exclusive
  <2>2. T = {} <=> ~ByTrade(i)
    BY DEF ByTrade
  <2> QED BY <2>1, <2>2, AtMostOne
<1>3. Cardinality(E) = IF ByEnded(i) THEN 1 ELSE 0
  <2>1. \A x, y \in E : x = y
    BY DEF LockInv, Exclusive
  <2>2. E = {} <=> ~ByEnded(i)
    BY DEF ByEnded
  <2> QED BY <2>1, <2>2, AtMostOne
<1>4. /\ ~(ByMessage(i) /\ ByTrade(i))
      /\ ~(ByMessage(i) /\ ByEnded(i))
      /\ ~(ByTrade(i) /\ ByEnded(i))
  BY DEF LockInv, Exclusive
<1>5. Holders(i) = Cardinality(M) + Cardinality(T) + Cardinality(E)
  BY DEF Holders
<1> HIDE DEF M, T, E
<1> QED BY <1>1, <1>2, <1>3, <1>4, <1>5 DEF Held

(* TryLock: whatever number of orders there are, and however messages,     *)
(* cancellations, refreshes and the handling of finalised trades           *)
(* interleave, at most one trade is for an order at any moment.            *)
THEOREM OrdersTakenOnce == Spec => []OneTradePerOrder
<1>1. Types /\ LockInv => OneTradePerOrder
  BY HoldersCount DEF OneTradePerOrder
<1> QED BY <1>1, InvHolds, PTL

(* A lock is never lost while a trade for the order runs, nor left behind  *)
(* after it: an order is locked iff exactly one message or trade is going  *)
(* to unlock or remove it.                                                 *)
THEOREM LocksAreHeld == Spec => []LockHasHolder
<1>1. Types /\ LockInv => LockHasHolder
  <2> SUFFICES ASSUME Types, LockInv, NEW i \in DOMAIN own
               PROVE  own[i].locked <=> Holders(i) = 1
    BY DEF LockHasHolder
  <2>1. i \in Id
    BY DEF Types, OrdersType
  <2>2. Holders(i) = 1 <=> Held(i)
    BY <2>1, HoldersCount
  <2> QED BY <2>2 DEF LockInv, LocksMatch
<1> QED BY <1>1, InvHolds, PTL

-----------------------------------------------------------------------------
(* The CHECKs in Unlock *)

(* Every order is valid, and what is held exists.                          *)
SteadyInv(c) ==
    /\ canTrade = c
    /\ \A i \in DOMAIN own : ValidateOrder(own[i].max)
    /\ \A i \in Id : Held(i) => i \in DOMAIN own
    /\ failed = FALSE

(* The holders and the flag stay as they are.                              *)
LEMMA SteadyFrame ==
    ASSUME NEW c, SteadyInv(c), UNCHANGED <<taking, trades, todo, canTrade, failed>>,
           DOMAIN own \subseteq DOMAIN own',
           \A i \in DOMAIN own' : ValidateOrder(own'[i].max)
    PROVE  SteadyInv(c)'
<1>1. \A i : Held(i)' <=> Held(i)
  BY DEF Held, ByMessage, ByTrade, ByEnded
<1> QED BY <1>1 DEF SteadyInv, ValidateOrder

(* Unlock finds the order of a holder locked.                              *)
LEMMA SteadyUnlock ==
    ASSUME NEW c, SteadyInv(c), Types, LockInv, NEW i \in Id, Held(i),
           NEW th, NEW label, Unlock(th, i, label), UNCHANGED canTrade,
           \A j : Held(j)' => Held(j)
    PROVE  SteadyInv(c)'
<1>1. i \in DOMAIN own /\ own[i].locked
  BY DEF SteadyInv, LockInv, LocksMatch
<1>2. own' = [own EXCEPT ![i].locked = FALSE] /\ UNCHANGED failed
  BY <1>1 DEF Unlock, IsLocked
<1>3. own[i] \in OwnOrder
  BY <1>1 DEF Types, OrdersType
<1>4. DOMAIN own' = DOMAIN own /\ \A j \in DOMAIN own : own'[j].max = own[j].max
  BY <1>2, <1>3 DEF OwnOrder
<1> QED BY <1>2, <1>4 DEF SteadyInv, ValidateOrder

(* An order is added with a max that is valid, or not at all.              *)
LEMMA SteadyAdd ==
    ASSUME NEW c, SteadyInv(c), UNCHANGED <<taking, trades, todo, canTrade, failed>>,
           NEW th, NEW max, NEW root, NEW label, Add(th, max, root, label)
    PROVE  SteadyInv(c)'
<1>1. CASE UNCHANGED own
  BY <1>1, SteadyFrame DEF SteadyInv
<1>2. CASE /\ ValidateOrder(max)
           /\ own' = Insert(nextId, [max |-> max, locked |-> FALSE, root |-> root])
  <2>1. DOMAIN own' = DOMAIN own \cup {nextId}
    BY <1>2 DEF Insert
  <2>2. \A i \in DOMAIN own' : own'[i].max = max \/ (i \in DOMAIN own /\ own'[i] = own[i])
    BY <1>2 DEF Insert
  <2>3. \A i \in DOMAIN own' : ValidateOrder(own'[i].max)
    BY <1>2, <2>2 DEF SteadyInv
  <2> QED BY <2>1, <2>3, SteadyFrame
<1> QED BY <1>1, <1>2 DEF Add

(* If nobody cancels orders and the assets do not change, orders stay.     *)
LEMMA SteadyStep ==
    ASSUME NEW c, Assets = {c}, ~Cancels,
           SteadyInv(c), Types, Phases, LockInv, [Next]_vars
    PROVE  SteadyInv(c)'
<1>1. ASSUME NEW th \in Thread, DropInvalid(th) PROVE SteadyInv(c)'
  <2>1. DOMAIN own' = DOMAIN own /\ \A i \in DOMAIN own : own'[i] = own[i]
    BY <1>1 DEF DropInvalid, Without, SteadyInv
  <2>2. UNCHANGED <<taking, trades, todo, canTrade, failed>>
    BY <1>1 DEF DropInvalid, environment
  <2> QED BY <2>1, <2>2, SteadyFrame DEF SteadyInv
<1>2. ASSUME UNCHANGED <<own, taking, trades, todo, canTrade, failed>> PROVE SteadyInv(c)'
  BY <1>2, SteadyFrame DEF SteadyInv
<1>3. ASSUME NEW th \in Thread, TakeSnapshot(th) \/ UpdateOrders(th) PROVE SteadyInv(c)'
  BY <1>3, <1>2 DEF TakeSnapshot, Snapshot, UpdateOrders, environment
<1>4. ASSUME NEW i \in Id, NEW u \in Amount, TryLock(i, u) PROVE SteadyInv(c)'
  <2>1. \A j : Held(j)' <=> (Held(j) \/ j = i)
    BY <1>4, OrderLocked
  <2>2. /\ i \in DOMAIN own /\ own' = [own EXCEPT ![i].locked = TRUE]
        /\ UNCHANGED <<canTrade, failed>>
    BY <1>4 DEF TryLock, environment
  <2>3. own[i] \in OwnOrder
    BY <2>2 DEF Types, OrdersType
  <2>4. DOMAIN own' = DOMAIN own /\ \A j \in DOMAIN own : own'[j].max = own[j].max
    BY <2>2, <2>3 DEF OwnOrder
  <2> QED BY <2>1, <2>2, <2>4 DEF SteadyInv, ValidateOrder
<1>5. CASE OrderTaken
  <2>1. PICK tr \in taking :
          /\ \/ UNCHANGED <<own, failed>>
             \/ Unlock("xmpp", tr.id, "idle")
          /\ UNCHANGED canTrade
    BY <1>5 DEF OrderTaken, environment
  <2>2. \A j : Held(j)' => Held(j)
    BY <1>5, OrderTakenKeeps
  <2>3. tr.id \in Id /\ Held(tr.id)
    BY DEF Types, Trade, Held, ByMessage
  <2>4. CASE UNCHANGED <<own, failed>>
    BY <2>1, <2>2, <2>4 DEF SteadyInv, ValidateOrder
  <2>5. CASE Unlock("xmpp", tr.id, "idle")
    BY <2>1, <2>2, <2>3, <2>5, SteadyUnlock
  <2> QED BY <2>1, <2>4, <2>5
<1>6. ASSUME NEW max \in Amount, AddOrder(max) PROVE SteadyInv(c)'
  BY <1>6, SteadyAdd DEF AddOrder, environment
<1>7. ASSUME NEW i \in Id, CancelOrder(i) PROVE SteadyInv(c)'
  BY <1>7 DEF CancelOrder
<1>8. CASE Update
  <2>1. \A j : Held(j)' => Held(j)
    BY <1>8, UpdateKeeps
  <2> QED BY <1>8, <2>1 DEF Update, environment, SteadyInv, ValidateOrder
<1>9. CASE HandleFailure
  <2>1. /\ todo # <<>> /\ todo' = Tail(todo)
        /\ UNCHANGED <<trades, taking, canTrade>>
        /\ Unlock("updater", Head(todo).trade.id, "handle")
    BY <1>9 DEF HandleFailure, environment
  <2>2. PICK h \in Id : /\ h = Head(todo).trade.id /\ Held(h)
                        /\ \A j : Held(j)' <=> (Held(j) /\ j # h)
    BY <2>1, HandledOne
  <2> QED BY <2>1, <2>2, SteadyUnlock
<1>10. CASE HandleSuccess
  <2>1. /\ todo # <<>> /\ todo' = Tail(todo)
        /\ UNCHANGED <<trades, taking, canTrade, failed>>
        /\ own' = Without(own, {Head(todo).trade.id})
    BY <1>10 DEF HandleSuccess, RemoveById, environment
  <2>2. PICK h \in Id : /\ h = Head(todo).trade.id
                        /\ \A j : Held(j)' <=> (Held(j) /\ j # h)
    BY <2>1, HandledOne
  <2>3. DOMAIN own' = DOMAIN own \ {h} /\ \A i \in DOMAIN own' : own'[i] = own[i]
    BY <2>1, <2>2 DEF Without
  <2> QED BY <2>1, <2>2, <2>3 DEF SteadyInv, ValidateOrder
<1>11. CASE Recreate
  <2>1. UNCHANGED own \/ \E tr : Add("updater", Rest(tr), tr.root, "handle")
    BY <1>11 DEF Recreate
  <2>2. UNCHANGED <<trades, todo, taking, canTrade, failed>>
    BY <1>11 DEF Recreate, environment
  <2> QED BY <2>1, <2>2, <1>2, SteadyAdd
<1>12. CASE AllHandled \/ StartRefresh
  BY <1>12, <1>2 DEF AllHandled, StartRefresh, environment
<1>13. CASE Environment
  <2>1. ASSUME NEW n \in Assets, ChangeAssets(n) PROVE FALSE
    BY <2>1 DEF ChangeAssets, SteadyInv
  <2> QED BY <1>13, <1>2, <2>1 DEF Environment, Disconnect, Reconnect, locals
<1>14. CASE UNCHANGED vars
  BY <1>14, <1>2 DEF vars, locals, environment
<1> QED BY <1>1, <1>3, <1>4, <1>5, <1>6, <1>7, <1>8, <1>9, <1>10, <1>11, <1>12,
           <1>13, <1>14, StepCases

(* The CHECKs in Unlock can fail only because an order is cancelled or the *)
(* assets of the account change while a trade for it is in flight: without *)
(* that, no interleaving of the threads aborts the daemon.  (With either   *)
(* one, TLC finds the abort.)                                              *)
THEOREM UnlockFindsLock ==
    ASSUME NEW c, Assets = {c}, ~Cancels
    PROVE  Spec => []NoCheckFails
<1>1. Init => SteadyInv(c)
  <2> SUFFICES ASSUME Init PROVE SteadyInv(c)
    OBVIOUS
  <2>1. \A i : ~Held(i)
    BY DEF Init, Held, ByMessage, ByTrade, ByEnded
  <2> QED BY <2>1 DEF Init, SteadyInv
<1>2. Types /\ Phases /\ LockInv /\ SteadyInv(c) /\ [Next]_vars => SteadyInv(c)'
  BY SteadyStep
<1>3. SteadyInv(c) => NoCheckFails
  BY DEF SteadyInv, NoCheckFails
<1> QED BY <1>1, <1>2, <1>3, InvHolds, PTL DEF Spec

-----------------------------------------------------------------------------
(* What is offered and what has been sold *)

(* The sums in Archive and NeverOversold, as the fold that defines them.   *)
SumMax(o, S) == MapThenSumSet(LAMBDA i : o[i].max, S)
MaxFold(o, S, it) ==
    [s \in SUBSET S |-> IF s = {} THEN 0
                        ELSE o[CHOOSE x \in s : TRUE].max + it[s \ {CHOOSE x \in s : TRUE}]]
MaxIter(o, S) == CHOOSE it : it = MaxFold(o, S, it)

SumUnits(q, S) == MapThenSumSet(LAMBDA i : q[i].units, S)
UnitsFold(q, S, it) ==
    [s \in SUBSET S |-> IF s = {} THEN 0
                        ELSE q[CHOOSE x \in s : TRUE].units + it[s \ {CHOOSE x \in s : TRUE}]]
UnitsIter(q, S) == CHOOSE it : it = UnitsFold(q, S, it)

(* The sum of nothing.                                                     *)
LEMMA SumOfNone ==
    ASSUME NEW o PROVE SumMax(o, {}) = 0 /\ SumUnits(o, {}) = 0
<1>1. SumMax(o, {}) = MaxIter(o, {})[{}] /\ SumUnits(o, {}) = UnitsIter(o, {})[{}]
  BY DEF SumMax, SumUnits, MapThenSumSet, MapThenFoldSet, MaxIter, MaxFold, UnitsIter, UnitsFold
<1> DEFINE g == [s \in SUBSET {} |-> 0]
<1>2. g = MaxFold(o, {}, g) /\ g = UnitsFold(o, {}, g)
  <2>1. \A s \in SUBSET {} : s = {}
    OBVIOUS
  <2> QED BY <2>1 DEF MaxFold, UnitsFold
<1>3. MaxIter(o, {}) = MaxFold(o, {}, MaxIter(o, {}))
  BY <1>2, Zenon DEF MaxIter
<1>4. UnitsIter(o, {}) = UnitsFold(o, {}, UnitsIter(o, {}))
  BY <1>2, Zenon DEF UnitsIter
<1>5. MaxIter(o, {})[{}] = 0
  BY <1>3 DEF MaxFold
<1>6. UnitsIter(o, {})[{}] = 0
  BY <1>4 DEF UnitsFold
<1> QED BY <1>1, <1>5, <1>6

(* The sum of one number, the offer of an order.                           *)
LEMMA SumOfMax ==
    ASSUME NEW o, NEW x, o[x].max \in Int PROVE SumMax(o, {x}) = o[x].max
<1>1. SumMax(o, {x}) = MaxIter(o, {x})[{x}]
  BY DEF SumMax, MapThenSumSet, MapThenFoldSet, MaxIter, MaxFold
<1>2. (CHOOSE z \in {x} : TRUE) = x
  OBVIOUS
<1>3. {x} \in SUBSET {x} /\ {x} # {} /\ {x} \ {x} = {}
  OBVIOUS
<1> DEFINE g == [s \in SUBSET {x} |-> IF s = {} THEN 0 ELSE o[x].max]
<1>4. g = MaxFold(o, {x}, g)
  <2>1. \A s \in SUBSET {x} : s = {} \/ s = {x}
    OBVIOUS
  <2>2. g[{}] = 0
    OBVIOUS
  <2>3. ASSUME NEW s \in SUBSET {x} PROVE g[s] = MaxFold(o, {x}, g)[s]
    BY <1>2, <1>3, <2>1, <2>2 DEF MaxFold
  <2> QED BY <2>3 DEF MaxFold
<1>5. MaxIter(o, {x}) = MaxFold(o, {x}, MaxIter(o, {x}))
  BY <1>4, Zenon DEF MaxIter
<1>6. MaxIter(o, {x})[{}] = 0
  BY <1>5 DEF MaxFold
<1>7. MaxIter(o, {x})[{x}] = o[x].max + MaxIter(o, {x})[{}]
  BY <1>2, <1>3, <1>5 DEF MaxFold
<1> QED BY <1>1, <1>6, <1>7

(* The sum of one number, the units of a trade.                            *)
LEMMA SumOfUnits ==
    ASSUME NEW q, NEW x, q[x].units \in Int PROVE SumUnits(q, {x}) = q[x].units
<1>1. SumUnits(q, {x}) = UnitsIter(q, {x})[{x}]
  BY DEF SumUnits, MapThenSumSet, MapThenFoldSet, UnitsIter, UnitsFold
<1>2. (CHOOSE z \in {x} : TRUE) = x
  OBVIOUS
<1>3. {x} \in SUBSET {x} /\ {x} # {} /\ {x} \ {x} = {}
  OBVIOUS
<1> DEFINE g == [s \in SUBSET {x} |-> IF s = {} THEN 0 ELSE q[x].units]
<1>4. g = UnitsFold(q, {x}, g)
  <2>1. \A s \in SUBSET {x} : s = {} \/ s = {x}
    OBVIOUS
  <2>2. g[{}] = 0
    OBVIOUS
  <2>3. ASSUME NEW s \in SUBSET {x} PROVE g[s] = UnitsFold(q, {x}, g)[s]
    BY <1>2, <1>3, <2>1, <2>2 DEF UnitsFold
  <2> QED BY <2>3 DEF UnitsFold
<1>5. UnitsIter(q, {x}) = UnitsFold(q, {x}, UnitsIter(q, {x}))
  BY <1>4, Zenon DEF UnitsIter
<1>6. UnitsIter(q, {x})[{}] = 0
  BY <1>5 DEF UnitsFold
<1>7. UnitsIter(q, {x})[{x}] = q[x].units + UnitsIter(q, {x})[{}]
  BY <1>2, <1>3, <1>5 DEF UnitsFold
<1> QED BY <1>1, <1>6, <1>7

(* The trades that hold an order, wherever they are.                       *)
Holding == taking \cup {trades[k] : k \in DOMAIN trades}
                  \cup {todo[k].trade : k \in DOMAIN todo}

(* What the user offered in one order is, at any moment, in one place: an  *)
(* order and the trade that holds it, if any, or a rest to be added again. *)
Roots ==
    /\ \A h, h2 \in Holding : h.root = h2.root => h.id = h2.id
    /\ \A i, j \in DOMAIN own : own[i].root = own[j].root => i = j
    /\ \A h \in Holding : \A i \in DOMAIN own :
          /\ own[i].root = h.root <=> i = h.id
          /\ i = h.id => own[i].max = h.max
    /\ \A tr \in reduced :
          /\ \A h \in Holding : h.root # tr.root
          /\ \A i \in DOMAIN own : own[i].root # tr.root
    /\ \A h \in Holding \cup reduced : h.root < nextId
    /\ \A i \in DOMAIN own : own[i].root < nextId

(* And it is covered by what is not sold yet: what can be taken, what is   *)
(* being taken, what is being sold, and what is left once a trade ended.   *)
OrdersCovered ==
    \A i \in DOMAIN own : ~own[i].locked => own[i].max <= budget[own[i].root]
TakingCovered == \A tr \in taking : tr.max <= budget[tr.root]
TradesCovered ==
    \A k \in DOMAIN trades :
        trades[k].units <= trades[k].max /\ trades[k].max <= budget[trades[k].root]
LeftOf(e) == IF e.success THEN e.trade.max - e.trade.units ELSE e.trade.max
EndedCovered == \A k \in DOMAIN todo : LeftOf(todo[k]) <= budget[todo[k].trade.root]
RestCovered == \A tr \in reduced : tr.max - tr.units <= budget[tr.root]

Covered ==
    /\ budget \in [Id -> Nat]
    /\ OrdersCovered /\ TakingCovered /\ TradesCovered /\ EndedCovered /\ RestCovered

(* Holding and Held are about the same trades.                             *)
LEMMA HeldHolding ==
    /\ \A i : Held(i) <=> \E h \in Holding : h.id = i
    /\ \A i : Held(i)' <=> \E h \in Holding' : h.id = i
BY DEF Held, ByMessage, ByTrade, ByEnded, Holding

(* The trades are of their type.                                           *)
LEMMA HoldingType ==
    ASSUME Types PROVE Holding \subseteq Trade
<1>1. \A k \in DOMAIN trades : trades[k] \in Trade
  BY DEF Types
<1>2. \A k \in DOMAIN todo : todo[k].trade \in Trade
  <2>1. \A k \in DOMAIN todo : todo[k] \in Entry
    BY DEF Types
  <2> QED BY <2>1 DEF Entry
<1> QED BY <1>1, <1>2 DEF Types, Holding

(* Orders and trades may go away, and locks may change.                    *)
LEMMA RootsShrink ==
    ASSUME Roots, Holding' \subseteq Holding, reduced' \subseteq reduced, nextId' = nextId,
           DOMAIN own' \subseteq DOMAIN own,
           \A i \in DOMAIN own' : own'[i].max = own[i].max /\ own'[i].root = own[i].root
    PROVE  Roots'
<1>1. /\ \A h, h2 \in Holding' : h.root = h2.root => h.id = h2.id
      /\ \A i, j \in DOMAIN own' : own'[i].root = own'[j].root => i = j
  BY DEF Roots
<1>2. \A h \in Holding' : \A i \in DOMAIN own' :
          /\ own'[i].root = h.root <=> i = h.id
          /\ i = h.id => own'[i].max = h.max
  BY DEF Roots
<1>3. \A tr \in reduced' :
          /\ \A h \in Holding' : h.root # tr.root
          /\ \A i \in DOMAIN own' : own'[i].root # tr.root
  BY DEF Roots
<1>4. /\ \A h \in Holding' \cup reduced' : h.root < nextId'
      /\ \A i \in DOMAIN own' : own'[i].root < nextId'
  BY DEF Roots
<1> QED BY <1>1, <1>2, <1>3, <1>4 DEF Roots

(* Locking or unlocking an order changes neither its root nor its max.     *)
LEMMA LockFields ==
    ASSUME Types, NEW i \in DOMAIN own, NEW b \in BOOLEAN,
           own' = [own EXCEPT ![i].locked = b]
    PROVE  /\ DOMAIN own' = DOMAIN own
           /\ \A j \in DOMAIN own : own'[j].max = own[j].max /\ own'[j].root = own[j].root
           /\ \A j \in DOMAIN own : j # i => own'[j] = own[j]
           /\ own'[i].locked = b
<1>1. own[i] \in OwnOrder
  BY DEF Types, OrdersType
<1>2. \A j \in DOMAIN own : j # i => own'[j] = own[j]
  OBVIOUS
<1>3. own'[i] = [own[i] EXCEPT !.locked = b]
  OBVIOUS
<1>4. own'[i].max = own[i].max /\ own'[i].root = own[i].root /\ own'[i].locked = b
  BY <1>1, <1>3 DEF OwnOrder
<1> QED BY <1>2, <1>4

(* Neither does Unlock, whether its CHECKs fail or not.                    *)
LEMMA UnlockFields ==
    ASSUME Types, NEW th, NEW i, NEW label, Unlock(th, i, label)
    PROVE  /\ DOMAIN own' = DOMAIN own
           /\ \A j \in DOMAIN own : own'[j].max = own[j].max /\ own'[j].root = own[j].root
           /\ \A j \in DOMAIN own : j # i => own'[j] = own[j]
<1>1. CASE IsLocked(i) /\ own' = [own EXCEPT ![i].locked = FALSE]
  BY <1>1, LockFields DEF IsLocked
<1>2. CASE UNCHANGED own
  BY <1>2
<1> QED BY <1>1, <1>2 DEF Unlock

(* OrderTaken keeps or drops the trade it is called for.                   *)
LEMMA HoldingTaken ==
    ASSUME Types, OrderTaken PROVE Holding' \subseteq Holding
<1>1. PICK tr \in taking :
        /\ taking' = {} /\ todo' = todo
        /\ trades' = trades \/ trades' = Append(trades, tr)
  BY DEF OrderTaken
<1>2. CASE trades' = trades
  BY <1>1, <1>2 DEF Holding
<1>3. CASE trades' = Append(trades, tr)
  <2>1. PICK n \in Nat : n = Len(trades) /\ DOMAIN trades = 1 .. n
    BY DEF Types
  <2>2. tr \in Trade
    BY DEF Types
  <2>3. /\ DOMAIN trades' = 1 .. (n + 1)
        /\ \A k \in 1 .. n : trades'[k] = trades[k]
        /\ trades'[n + 1] = tr
    BY <1>3, <2>1, <2>2 DEF Types
  <2>4. \A k \in 1 .. (n + 1) : k \in 1 .. n \/ k = n + 1
    OBVIOUS
  <2>5. \A k \in DOMAIN trades' : trades'[k] \in Holding
    BY <2>1, <2>3, <2>4 DEF Holding
  <2> QED BY <1>1, <2>5 DEF Holding
<1> QED BY <1>1, <1>2, <1>3

(* The trades after the first one that ended has been handled.             *)
LEMMA HoldingTail ==
    ASSUME Types, todo # <<>>, todo' = Tail(todo), UNCHANGED <<trades, taking>>
    PROVE  /\ Holding' \subseteq Holding
           /\ Head(todo).trade \in Holding
           /\ 1 \in DOMAIN todo /\ Head(todo) = todo[1]
           /\ \A k \in DOMAIN todo' : k + 1 \in DOMAIN todo /\ todo'[k] = todo[k + 1]
<1>1. todo \in Seq(Entry)
  BY DEF Types
<1>2. PICK n \in Nat : Len(todo) = n + 1 /\ DOMAIN todo = 1 .. (n + 1)
  <2>1. Len(todo) \in Nat /\ Len(todo) # 0 /\ DOMAIN todo = 1 .. Len(todo)
    BY <1>1
  <2>2. Len(todo) - 1 \in Nat /\ Len(todo) = (Len(todo) - 1) + 1
    BY <2>1
  <2> QED BY <2>1, <2>2
<1>3. DOMAIN todo' = 1 .. n /\ \A k \in 1 .. n : todo'[k] = todo[k + 1]
  BY <1>1, <1>2
<1>4. Head(todo) = todo[1] /\ 1 \in DOMAIN todo
  BY <1>1, <1>2
<1>5. \A k \in DOMAIN todo' : k + 1 \in DOMAIN todo /\ todo'[k] = todo[k + 1]
  BY <1>2, <1>3
<1>6. \A k \in DOMAIN todo' : todo'[k].trade \in Holding
  BY <1>5 DEF Holding
<1> QED BY <1>4, <1>5, <1>6 DEF Holding

(* Where the trades are after Update.                                      *)
LEMMA UpdateFacts ==
    ASSUME Types, Update
    PROVE  \E ended \in SUBSET DOMAIN trades : \E success \in SUBSET ended :
             /\ \A k \in DOMAIN trades' :
                   \E x \in DOMAIN trades \ ended : trades'[k] = trades[x]
             /\ \A k \in DOMAIN todo' : \E x \in ended :
                   todo'[k].trade = trades[x] /\ (todo'[k].success <=> x \in success)
             /\ budget' = [r \in Id |-> budget[r] -
                             SumUnits(trades, {i \in success : trades[i].root = r})]
<1>1. PICK ended \in SUBSET (1 .. Len(trades)) :
        \E success \in SUBSET ended : Archive(ended, success)
  BY DEF Update
<1>2. PICK success \in SUBSET ended : Archive(ended, success)
  BY <1>1
<1>3. PICK active \in Ascending(DOMAIN trades \ ended), done \in Ascending(ended) :
           /\ trades' = [k \in DOMAIN active |-> trades[active[k]]]
           /\ todo' = [k \in DOMAIN done |->
                         [trade |-> trades[done[k]], success |-> done[k] \in success]]
  BY <1>2, ArchiveEffect DEF Types
<1>4. PICK n \in Nat : n = Len(trades) /\ DOMAIN trades = 1 .. n
  BY DEF Types
<1>5. \A k \in DOMAIN active : active[k] \in DOMAIN trades \ ended
  BY <1>4, AscendingSeq
<1>6. \A k \in DOMAIN done : done[k] \in ended
  BY <1>4, AscendingSeq
<1>7. budget' = [r \in Id |-> budget[r] -
                   SumUnits(trades, {i \in success : trades[i].root = r})]
  BY <1>2 DEF Archive, SumUnits
<1>8. \A k \in DOMAIN trades' : \E x \in DOMAIN trades \ ended : trades'[k] = trades[x]
  BY <1>3, <1>5
<1>9. \A k \in DOMAIN todo' : \E x \in ended :
          todo'[k].trade = trades[x] /\ (todo'[k].success <=> x \in success)
  BY <1>3, <1>6
<1>10. ended \in SUBSET DOMAIN trades
  BY <1>4
<1> QED BY <1>7, <1>8, <1>9, <1>10

(* A new order has a root of which there is nothing else.                  *)
LEMMA RootsGrow ==
    ASSUME Roots, Holding' = Holding, reduced' \subseteq reduced, NEW root,
           DOMAIN own' = DOMAIN own \cup {nextId}, nextId \notin DOMAIN own,
           \A i \in DOMAIN own : own'[i] = own[i], own'[nextId].root = root,
           \A h \in Holding : h.id # nextId,
           \A h \in Holding \cup reduced' : h.root # root,
           \A i \in DOMAIN own : own[i].root # root,
           \A h \in Holding \cup reduced : h.root < nextId => h.root < nextId',
           \A i \in DOMAIN own : own[i].root < nextId => own[i].root < nextId',
           root < nextId'
    PROVE  Roots'
<1>1. \A h, h2 \in Holding' : h.root = h2.root => h.id = h2.id
  BY DEF Roots
<1>2. ASSUME NEW i \in DOMAIN own', NEW j \in DOMAIN own', own'[i].root = own'[j].root
      PROVE  i = j
  <2>1. CASE i = nextId
    BY <1>2, <2>1
  <2>2. CASE j = nextId
    BY <1>2, <2>2
  <2>3. CASE i \in DOMAIN own /\ j \in DOMAIN own
    BY <1>2, <2>3 DEF Roots
  <2> QED BY <2>1, <2>2, <2>3
<1>3. ASSUME NEW h \in Holding', NEW i \in DOMAIN own'
      PROVE  /\ own'[i].root = h.root <=> i = h.id
             /\ i = h.id => own'[i].max = h.max
  <2>1. CASE i = nextId
    BY <2>1
  <2>2. CASE i \in DOMAIN own
    BY <2>2 DEF Roots
  <2> QED BY <2>1, <2>2
<1>4. ASSUME NEW tr \in reduced'
      PROVE  /\ \A h \in Holding' : h.root # tr.root
             /\ \A i \in DOMAIN own' : own'[i].root # tr.root
  BY DEF Roots
<1>5. \A h \in Holding' \cup reduced' : h.root < nextId'
  BY DEF Roots
<1>6. \A i \in DOMAIN own' : own'[i].root < nextId'
  BY DEF Roots
<1> QED BY <1>1, <1>2, <1>3, <1>4, <1>5, <1>6 DEF Roots

(* Add is such a step.                                                     *)
LEMMA RootsAdd ==
    ASSUME Types, LockInv, Roots, UNCHANGED <<trades, todo, taking>>, nextId < MaxId,
           NEW max, NEW root \in Id, root <= nextId,
           \A h \in Holding \cup reduced' : h.root # root,
           \A i \in DOMAIN own : own[i].root # root,
           reduced' \subseteq reduced,
           own' = Insert(nextId, [max |-> max, locked |-> FALSE, root |-> root]),
           nextId' = nextId + 1
    PROVE  Roots'
<1> USE MyOrdersAssumption
<1>1. Holding' = Holding
  BY DEF Holding
<1>2. nextId \in Id /\ nextId \in Int /\ root \in Int
  BY DEF Types, Id
<1>3. /\ DOMAIN own' = DOMAIN own \cup {nextId}
      /\ own'[nextId] = [max |-> max, locked |-> FALSE, root |-> root]
  BY DEF Insert
<1>4. nextId \notin DOMAIN own
  BY <1>2 DEF LockInv, Fresh
<1>5. \A i \in DOMAIN own : own'[i] = own[i]
  BY <1>4 DEF Insert
<1>6. own'[nextId].root = root
  BY <1>3
<1>7. \A h \in Holding : h.id # nextId /\ h.root \in Int
  <2>1. \A h \in Holding : h.id \in Id /\ h.root \in Int
    BY HoldingType DEF Trade, Id
  <2> QED BY <1>2, <2>1, HeldHolding DEF LockInv, Fresh
<1>8. \A h \in reduced : h.root \in Int
  BY DEF Types, Trade, Id
<1>9. \A i \in DOMAIN own : own[i].root \in Int
  <2>1. \A i \in DOMAIN own : own[i] \in OwnOrder
    BY DEF Types, OrdersType
  <2> QED BY <2>1 DEF OwnOrder, Id
<1>10. \A h \in Holding \cup reduced : h.root < nextId => h.root < nextId'
  BY <1>2, <1>7, <1>8
<1>11. \A i \in DOMAIN own : own[i].root < nextId => own[i].root < nextId'
  BY <1>2, <1>9
<1>12. root < nextId'
  BY <1>2
<1> QED BY <1>1, <1>3, <1>4, <1>5, <1>6, <1>7, <1>10, <1>11, <1>12, RootsGrow

(* What was offered in one order stays in one place.                       *)
LEMMA RootsStep ==
    ASSUME Types, Phases, LockInv, Roots, [Next]_vars PROVE Roots'
<1> USE MyOrdersAssumption
<1>a. ASSUME UNCHANGED <<taking, trades, todo, reduced, nextId>>,
             NEW S, own' = Without(own, S) \/ own' = own
      PROVE  Roots'
  <2>1. Holding' = Holding
    BY <1>a DEF Holding
  <2>2. DOMAIN own' \subseteq DOMAIN own /\ \A i \in DOMAIN own' : own'[i] = own[i]
    BY <1>a DEF Without
  <2> QED BY <1>a, <2>1, <2>2, RootsShrink
<1>1. ASSUME NEW th \in Thread, DropInvalid(th) \/ TakeSnapshot(th) \/ UpdateOrders(th)
      PROVE  Roots'
  BY <1>1, <1>a DEF DropInvalid, TakeSnapshot, Snapshot, UpdateOrders
<1>2. ASSUME NEW i \in Id, NEW u \in Amount, TryLock(i, u) PROVE Roots'
  <2> DEFINE new == [id |-> i, units |-> u, max |-> own[i].max, root |-> own[i].root]
  <2>1. /\ i \in DOMAIN own /\ own[i].locked = FALSE
        /\ taking' = {new} /\ own' = [own EXCEPT ![i].locked = TRUE]
        /\ UNCHANGED <<nextId, trades, todo, reduced>>
    <3>1. i \in DOMAIN own /\ ~own[i].locked
      BY <1>2 DEF TryLock
    <3>2. own[i].locked \in BOOLEAN
      BY <3>1 DEF Types, OrdersType, OwnOrder
    <3> QED BY <1>2, <3>1, <3>2 DEF TryLock
  <2>2. new.id = i /\ new.max = own[i].max /\ new.root = own[i].root
    OBVIOUS
  <2> HIDE DEF new
  <2>3. \A h \in Holding : h.id # i
    BY <2>1, HeldHolding DEF LockInv, LocksMatch
  <2>4. Holding' \subseteq Holding \cup {new}
    BY <2>1 DEF Holding
  <2>5. /\ DOMAIN own' = DOMAIN own
        /\ \A j \in DOMAIN own : own'[j].max = own[j].max /\ own'[j].root = own[j].root
    BY <2>1, LockFields
  <2>6. \A h \in Holding : h.root # new.root
    BY <2>1, <2>2, <2>3 DEF Roots
  <2>7. /\ \A h, h2 \in Holding' : h.root = h2.root => h.id = h2.id
        /\ \A j, k \in DOMAIN own' : own'[j].root = own'[k].root => j = k
    BY <2>4, <2>5, <2>6 DEF Roots
  <2>8. \A h \in Holding' : \A j \in DOMAIN own' :
            /\ own'[j].root = h.root <=> j = h.id
            /\ j = h.id => own'[j].max = h.max
    BY <2>1, <2>2, <2>4, <2>5 DEF Roots
  <2>9. \A tr \in reduced' :
            /\ \A h \in Holding' : h.root # tr.root
            /\ \A j \in DOMAIN own' : own'[j].root # tr.root
    BY <2>1, <2>2, <2>4, <2>5 DEF Roots
  <2>10. /\ \A h \in Holding' \cup reduced' : h.root < nextId'
         /\ \A j \in DOMAIN own' : own'[j].root < nextId'
    BY <2>1, <2>2, <2>4, <2>5 DEF Roots
  <2> QED BY <2>7, <2>8, <2>9, <2>10 DEF Roots
<1>3. CASE OrderTaken
  <2>1. own' = own \/ \E tr : Unlock("xmpp", tr.id, "idle")
    BY <1>3 DEF OrderTaken
  <2>2. /\ DOMAIN own' = DOMAIN own
        /\ \A j \in DOMAIN own : own'[j].max = own[j].max /\ own'[j].root = own[j].root
    BY <2>1, UnlockFields
  <2>3. UNCHANGED <<nextId, reduced>>
    BY <1>3 DEF OrderTaken
  <2> QED BY <1>3, <2>2, <2>3, HoldingTaken, RootsShrink
<1>4. ASSUME NEW max \in Amount, AddOrder(max) PROVE Roots'
  <2>1. /\ nextId < MaxId /\ nextId' = nextId + 1
        /\ own' = Insert(nextId, [max |-> max, locked |-> FALSE, root |-> nextId])
        /\ UNCHANGED <<trades, todo, taking, reduced>>
    BY <1>4 DEF AddOrder, Add
  <2>2. nextId \in Id /\ nextId \in Int
    BY <2>1 DEF Types, Id
  <2>3. \A h \in Holding \cup reduced : h.root # nextId
    BY <2>2 DEF Roots
  <2>4. \A i \in DOMAIN own : own[i].root # nextId
    BY <2>2 DEF Roots
  <2> QED BY <2>1, <2>2, <2>3, <2>4, RootsAdd
<1>5. ASSUME NEW i \in Id, CancelOrder(i) PROVE Roots'
  BY <1>5, <1>a DEF CancelOrder, RemoveById
<1>6. CASE Update
  <2>1. Holding' \subseteq Holding
    <3>1. PICK ended \in SUBSET DOMAIN trades :
             /\ \A k \in DOMAIN trades' : \E x \in DOMAIN trades : trades'[k] = trades[x]
             /\ \A k \in DOMAIN todo' : \E x \in ended : todo'[k].trade = trades[x]
      BY <1>6, UpdateFacts
    <3>2. UNCHANGED taking
      BY <1>6 DEF Update
    <3> QED BY <3>1, <3>2 DEF Holding
  <2>2. UNCHANGED <<own, nextId, reduced>>
    BY <1>6 DEF Update
  <2> QED BY <2>1, <2>2, RootsShrink
<1>7. CASE HandleFailure
  <2>1. /\ todo # <<>> /\ todo' = Tail(todo)
        /\ UNCHANGED <<trades, taking, nextId, reduced>>
        /\ Unlock("updater", Head(todo).trade.id, "handle")
    BY <1>7 DEF HandleFailure
  <2> QED BY <2>1, HoldingTail, UnlockFields, RootsShrink
<1>8. CASE HandleSuccess
  <2>1. /\ todo # <<>> /\ todo' = Tail(todo) /\ reduced' = {Head(todo).trade}
        /\ UNCHANGED <<trades, taking, nextId>>
        /\ own' = Without(own, {Head(todo).trade.id})
    BY <1>8 DEF HandleSuccess, RemoveById
  <2>2. PICK h \in Holding : h = Head(todo).trade
    BY <2>1, HoldingTail
  <2>3. Holding' \subseteq Holding /\ \A j : Held(j)' => j # h.id
    BY <2>1, <2>2, HoldingTail, HandledOne
  <2>4. /\ DOMAIN own' = DOMAIN own \ {h.id}
        /\ \A i \in DOMAIN own' : own'[i] = own[i]
    BY <2>1, <2>2 DEF Without
  <2>5. \A g \in Holding' : g.root # h.root
    BY <2>3, HeldHolding DEF Roots
  <2>6. \A i \in DOMAIN own' : own'[i].root # h.root
    BY <2>4 DEF Roots
  <2>7. /\ \A g, g2 \in Holding' : g.root = g2.root => g.id = g2.id
        /\ \A i, j \in DOMAIN own' : own'[i].root = own'[j].root => i = j
    BY <2>3, <2>4 DEF Roots
  <2>8. \A g \in Holding' : \A i \in DOMAIN own' :
            /\ own'[i].root = g.root <=> i = g.id
            /\ i = g.id => own'[i].max = g.max
    BY <2>3, <2>4 DEF Roots
  <2>9. /\ \A g \in Holding' \cup reduced' : g.root < nextId'
        /\ \A i \in DOMAIN own' : own'[i].root < nextId'
    BY <2>1, <2>2, <2>3, <2>4 DEF Roots
  <2>10. \A tr \in reduced' :
            /\ \A g \in Holding' : g.root # tr.root
            /\ \A i \in DOMAIN own' : own'[i].root # tr.root
    BY <2>1, <2>2, <2>5, <2>6
  <2> QED BY <2>7, <2>8, <2>9, <2>10 DEF Roots
<1>9. CASE Recreate
  <2>1. PICK tr \in reduced :
            /\ reduced' = {}
            /\ \/ nextId < MaxId /\ Add("updater", Rest(tr), tr.root, "handle")
               \/ UNCHANGED <<own, nextId>>
            /\ UNCHANGED <<trades, todo, taking>>
    BY <1>9 DEF Recreate
  <2>2. Holding' = Holding
    BY <2>1 DEF Holding
  <2>3. CASE UNCHANGED <<own, nextId>>
    BY <2>1, <2>2, <2>3, RootsShrink
  <2>4. CASE /\ nextId < MaxId /\ nextId' = nextId + 1
             /\ own' = Insert(nextId, [max |-> Rest(tr), locked |-> FALSE, root |-> tr.root])
    <3>1. tr.root \in Id /\ tr.root \in Int
      BY DEF Types, Trade, Id
    <3>2. nextId \in Int /\ tr.root <= nextId
      BY <3>1 DEF Roots, Types
    <3>3. \A h \in Holding \cup reduced' : h.root # tr.root
      BY <2>1 DEF Roots
    <3>4. \A i \in DOMAIN own : own[i].root # tr.root
      BY DEF Roots
    <3> QED BY <2>1, <2>4, <3>1, <3>2, <3>3, <3>4, RootsAdd
  <2> QED BY <2>1, <2>3, <2>4 DEF Add
<1>10. CASE AllHandled \/ StartRefresh
  BY <1>10, <1>a DEF AllHandled, StartRefresh
<1>11. CASE Environment
  BY <1>11, <1>a DEF Environment, ChangeAssets, Disconnect, Reconnect, locals
<1>12. CASE UNCHANGED vars
  BY <1>12, <1>a DEF vars, locals
<1> QED BY <1>1, <1>2, <1>3, <1>4, <1>5, <1>6, <1>7, <1>8, <1>9, <1>10, <1>11, <1>12,
           StepCases

(* Update: a root has at most one trade that succeeds, so what is not sold *)
(* yet goes down by the units of that trade, and of no other.              *)
LEMMA BudgetAfterUpdate ==
    ASSUME Types, LockInv, Roots, Covered,
           NEW success \in SUBSET DOMAIN trades,
           budget' = [r \in Id |-> budget[r] -
                        SumUnits(trades, {i \in success : trades[i].root = r})],
           NEW r \in Id
    PROVE  \/ /\ \A x \in success : trades[x].root # r
              /\ budget'[r] = budget[r]
           \/ \E x \in success :
                 /\ trades[x].root = r
                 /\ budget'[r] = budget[r] - trades[x].units
<1> DEFINE S == {i \in success : trades[i].root = r}
<1>1. budget'[r] = budget[r] - SumUnits(trades, S) /\ budget[r] \in Int
  BY DEF Covered
<1>2. CASE S = {}
  <2>1. budget'[r] = budget[r] - 0
    BY <1>1, <1>2, SumOfNone
  <2> QED BY <1>1, <1>2, <2>1
<1>3. CASE S # {}
  <2>1. PICK x \in success : trades[x].root = r
    BY <1>3
  <2>2. \A y \in S : y = x
    <3>1. \A y \in DOMAIN trades : trades[y] \in Holding
      BY DEF Holding
    <3> QED BY <2>1, <3>1 DEF Roots, LockInv, Exclusive
  <2>3. S = {x}
    BY <2>1, <2>2
  <2>4. trades[x].units \in Int
    <3>1. trades[x] \in Trade
      BY DEF Types
    <3> QED BY <3>1 DEF Trade
  <2>5. SumUnits(trades, S) = trades[x].units
    BY <2>3, <2>4, SumOfUnits
  <2> QED BY <1>1, <2>1, <2>5
<1> QED BY <1>2, <1>3

(* Update leaves what is not sold covered.                                 *)
LEMMA CoveredUpdate ==
    ASSUME Types, LockInv, Roots, Covered, Update PROVE Covered'
<1>1. PICK ended \in SUBSET DOMAIN trades : \E success \in SUBSET ended :
             /\ \A k \in DOMAIN trades' :
                   \E x \in DOMAIN trades \ ended : trades'[k] = trades[x]
             /\ \A k \in DOMAIN todo' : \E x \in ended :
                   todo'[k].trade = trades[x] /\ (todo'[k].success <=> x \in success)
             /\ budget' = [r \in Id |-> budget[r] -
                             SumUnits(trades, {i \in success : trades[i].root = r})]
  BY UpdateFacts
<1>2. PICK success \in SUBSET ended :
             /\ \A k \in DOMAIN trades' :
                   \E x \in DOMAIN trades \ ended : trades'[k] = trades[x]
             /\ \A k \in DOMAIN todo' : \E x \in ended :
                   todo'[k].trade = trades[x] /\ (todo'[k].success <=> x \in success)
             /\ budget' = [r \in Id |-> budget[r] -
                             SumUnits(trades, {i \in success : trades[i].root = r})]
  BY <1>1
<1>3. UNCHANGED <<own, reduced, taking>>
  BY DEF Update
<1>4. \A r \in Id :
        \/ /\ \A x \in success : trades[x].root # r
           /\ budget'[r] = budget[r]
        \/ \E x \in success :
              /\ trades[x].root = r
              /\ budget'[r] = budget[r] - trades[x].units
  <2>1. success \in SUBSET DOMAIN trades
    OBVIOUS
  <2>2. budget' = [r \in Id |-> budget[r] -
                     SumUnits(trades, {i \in success : trades[i].root = r})]
    BY <1>2
  <2> QED BY <2>1, <2>2, BudgetAfterUpdate
<1>5. \A x \in DOMAIN trades :
        /\ trades[x] \in Holding /\ trades[x].root \in Id /\ trades[x].id \in Id
        /\ trades[x].units \in Nat /\ trades[x].max \in Nat
        /\ trades[x].units <= trades[x].max /\ trades[x].max <= budget[trades[x].root]
  <2>1. \A x \in DOMAIN trades : trades[x] \in Holding
    BY DEF Holding
  <2>2. \A x \in DOMAIN trades : trades[x] \in Trade
    BY DEF Types
  <2> QED BY <2>1, <2>2 DEF Trade, Covered, TradesCovered
<1>6. \A r \in Id : budget[r] \in Nat
  BY DEF Covered
<1>7. \A r \in Id : (\A x \in success : trades[x].root # r) => budget'[r] = budget[r]
  BY <1>4
<1>8. \A x, y \in DOMAIN trades : trades[x].root = trades[y].root => x = y
  BY <1>5 DEF Roots, LockInv, Exclusive
<1>9. \A x \in success : budget'[trades[x].root] = budget[trades[x].root] - trades[x].units
  <2> SUFFICES ASSUME NEW x \in success
               PROVE  budget'[trades[x].root] = budget[trades[x].root] - trades[x].units
    OBVIOUS
  <2>1. x \in DOMAIN trades /\ trades[x].root \in Id
    BY <1>5
  <2>2. PICK y \in success :
           /\ trades[y].root = trades[x].root
           /\ budget'[trades[x].root] = budget[trades[x].root] - trades[y].units
    BY <1>4, <2>1
  <2>3. y = x
    BY <1>8, <2>1, <2>2
  <2> QED BY <2>2, <2>3
<1>10. budget' \in [Id -> Nat]
  <2>1. ASSUME NEW r \in Id PROVE budget'[r] \in Nat
    <3>1. CASE \A x \in success : trades[x].root # r
      BY <1>6, <1>7, <3>1
    <3>2. ASSUME NEW x \in success, trades[x].root = r PROVE budget'[r] \in Nat
      <4>1. /\ budget'[r] = budget[r] - trades[x].units
            /\ trades[x].units \in Nat /\ trades[x].max \in Nat
            /\ trades[x].units <= trades[x].max /\ trades[x].max <= budget[r]
        BY <1>5, <1>9, <3>2
      <4> QED BY <1>6, <4>1
    <3> QED BY <3>1, <3>2
  <2>2. budget' = [r \in Id |-> budget'[r]]
    BY <1>2
  <2> QED BY <2>1, <2>2
<1>11. OrdersCovered'
  <2> SUFFICES ASSUME NEW i \in DOMAIN own, ~own[i].locked
               PROVE  own[i].max <= budget'[own[i].root]
    BY <1>3 DEF OrdersCovered
  <2>1. own[i].root \in Id
    BY DEF Types, OrdersType, OwnOrder
  <2>2. \A h \in Holding : i # h.id
    BY HeldHolding DEF LockInv, LocksMatch
  <2>3. \A x \in success : trades[x].root # own[i].root
    BY <1>5, <2>2 DEF Roots
  <2> QED BY <1>7, <2>1, <2>3 DEF Covered, OrdersCovered
<1>12. TakingCovered'
  <2> SUFFICES ASSUME NEW tr \in taking PROVE tr.max <= budget'[tr.root]
    BY <1>3 DEF TakingCovered
  <2>1. tr \in Holding /\ tr.root \in Id /\ tr.id \in Id
    BY HoldingType DEF Holding, Trade
  <2>2. \A x \in success : trades[x].id # tr.id
    BY <1>5, <2>1 DEF LockInv, Exclusive, ByMessage, ByTrade
  <2>3. \A x \in success : trades[x].root # tr.root
    BY <1>5, <2>1, <2>2 DEF Roots
  <2> QED BY <1>7, <2>1, <2>3 DEF Covered, TakingCovered
<1>13. TradesCovered'
  <2> SUFFICES ASSUME NEW k \in DOMAIN trades'
               PROVE  /\ trades'[k].units <= trades'[k].max
                      /\ trades'[k].max <= budget'[trades'[k].root]
    BY DEF TradesCovered
  <2>1. PICK y \in DOMAIN trades \ ended : trades'[k] = trades[y]
    BY <1>2
  <2>2. \A x \in success : trades[x].root # trades[y].root
    BY <1>8
  <2>3. budget'[trades[y].root] = budget[trades[y].root]
    BY <1>5, <1>7, <2>2
  <2> QED BY <1>5, <2>1, <2>3
<1>14. EndedCovered'
  <2> SUFFICES ASSUME NEW k \in DOMAIN todo'
               PROVE  LeftOf(todo'[k]) <= budget'[todo'[k].trade.root]
    BY DEF EndedCovered, LeftOf
  <2>1. PICK y \in ended :
           todo'[k].trade = trades[y] /\ (todo'[k].success <=> y \in success)
    BY <1>2
  <2>2. CASE y \in success
    <3>1. LeftOf(todo'[k]) = trades[y].max - trades[y].units
      BY <2>1, <2>2 DEF LeftOf
    <3>2. budget'[trades[y].root] = budget[trades[y].root] - trades[y].units
      BY <1>9, <2>2
    <3>3. /\ trades[y].root \in Id /\ trades[y].units \in Nat /\ trades[y].max \in Nat
          /\ trades[y].max <= budget[trades[y].root]
      BY <1>5
    <3>4. budget[trades[y].root] \in Nat
      BY <1>6, <3>3
    <3> QED BY <2>1, <3>1, <3>2, <3>3, <3>4
  <2>3. CASE y \notin success
    <3>1. LeftOf(todo'[k]) = trades[y].max
      BY <2>1, <2>3 DEF LeftOf
    <3>2. \A x \in success : trades[x].root # trades[y].root
      BY <1>8, <2>3
    <3>3. budget'[trades[y].root] = budget[trades[y].root]
      BY <1>5, <1>7, <3>2
    <3> QED BY <1>5, <2>1, <3>1, <3>3
  <2> QED BY <2>2, <2>3
<1>15. RestCovered'
  <2> SUFFICES ASSUME NEW tr \in reduced PROVE tr.max - tr.units <= budget'[tr.root]
    BY <1>3 DEF RestCovered
  <2>1. tr.root \in Id
    BY DEF Types, Trade
  <2>2. \A x \in success : trades[x].root # tr.root
    BY <1>5 DEF Roots
  <2> QED BY <1>7, <2>1, <2>2 DEF Covered, RestCovered
<1> QED BY <1>10, <1>11, <1>12, <1>13, <1>14, <1>15 DEF Covered

(* Where nothing is sold or offered, what stays as it was stays covered.   *)
LEMMA CoveredKeep ==
    ASSUME Covered, UNCHANGED <<trades, budget>>,
           taking' \subseteq taking, reduced' \subseteq reduced,
           \A k \in DOMAIN todo' : \E l \in DOMAIN todo : todo'[k] = todo[l],
           \A i \in DOMAIN own' :
              ~own'[i].locked => own'[i].max <= budget[own'[i].root]
    PROVE  Covered'
<1>1. EndedCovered'
  <2> SUFFICES ASSUME NEW k \in DOMAIN todo'
               PROVE  LeftOf(todo'[k]) <= budget[todo'[k].trade.root]
    BY DEF EndedCovered, LeftOf
  <2>1. PICK l \in DOMAIN todo : todo'[k] = todo[l]
    OBVIOUS
  <2> QED BY <2>1 DEF Covered, EndedCovered
<1>2. OrdersCovered' /\ TakingCovered' /\ TradesCovered' /\ RestCovered'
  BY DEF Covered, OrdersCovered, TakingCovered, TradesCovered, RestCovered
<1> QED BY <1>1, <1>2 DEF Covered

(* An order that is unlocked is covered, as the trade for it was.          *)
LEMMA CoveredUnlock ==
    ASSUME Types, Roots, Covered, NEW h \in Holding, h.max <= budget[h.root],
           NEW th, NEW label, Unlock(th, h.id, label)
    PROVE  \A i \in DOMAIN own' : ~own'[i].locked => own'[i].max <= budget[own'[i].root]
<1>1. /\ DOMAIN own' = DOMAIN own
      /\ \A j \in DOMAIN own : own'[j].max = own[j].max /\ own'[j].root = own[j].root
      /\ \A j \in DOMAIN own : j # h.id => own'[j] = own[j]
  BY UnlockFields
<1> SUFFICES ASSUME NEW i \in DOMAIN own, ~own'[i].locked
             PROVE  own'[i].max <= budget[own'[i].root]
  BY <1>1
<1>2. CASE i = h.id
  BY <1>1, <1>2 DEF Roots
<1>3. CASE i # h.id
  BY <1>1, <1>3 DEF Covered, OrdersCovered
<1> QED BY <1>2, <1>3

(* What is not sold stays covered.                                         *)
LEMMA CoveredStep ==
    ASSUME Types, LockInv, Roots, Covered, [Next]_vars PROVE Covered'
<1> USE MyOrdersAssumption
<1>a. ASSUME UNCHANGED <<taking, trades, todo, reduced, budget>>,
             NEW S, own' = Without(own, S) \/ own' = own
      PROVE  Covered'
  <2>1. \A i \in DOMAIN own' : i \in DOMAIN own /\ own'[i] = own[i]
    BY <1>a DEF Without
  <2>2. \A i \in DOMAIN own' : ~own'[i].locked => own'[i].max <= budget[own'[i].root]
    BY <2>1 DEF Covered, OrdersCovered
  <2> QED BY <1>a, <2>2, CoveredKeep
<1>1. ASSUME NEW th \in Thread, DropInvalid(th) \/ TakeSnapshot(th) \/ UpdateOrders(th)
      PROVE  Covered'
  BY <1>1, <1>a DEF DropInvalid, TakeSnapshot, Snapshot, UpdateOrders
<1>2. ASSUME NEW i \in Id, NEW u \in Amount, TryLock(i, u) PROVE Covered'
  <2> DEFINE new == [id |-> i, units |-> u, max |-> own[i].max, root |-> own[i].root]
  <2>1. /\ i \in DOMAIN own /\ ~own[i].locked
        /\ taking' = {new} /\ own' = [own EXCEPT ![i].locked = TRUE]
        /\ UNCHANGED <<trades, todo, reduced, budget>>
    BY <1>2 DEF TryLock
  <2>2. new.max = own[i].max /\ new.root = own[i].root
    OBVIOUS
  <2> HIDE DEF new
  <2>3. /\ DOMAIN own' = DOMAIN own
        /\ \A j \in DOMAIN own : j # i => own'[j] = own[j]
        /\ own'[i].locked = TRUE
    BY <2>1, LockFields
  <2>4. OrdersCovered'
    BY <2>1, <2>3 DEF Covered, OrdersCovered
  <2>5. TakingCovered'
    BY <2>1, <2>2 DEF Covered, OrdersCovered, TakingCovered
  <2>6. TradesCovered' /\ EndedCovered' /\ RestCovered' /\ budget' \in [Id -> Nat]
    BY <2>1 DEF Covered, TradesCovered, EndedCovered, LeftOf, RestCovered
  <2> QED BY <2>4, <2>5, <2>6 DEF Covered
<1>3. CASE OrderTaken
  <2>1. PICK tr \in taking :
          /\ taking' = {} /\ UNCHANGED <<todo, reduced, budget>>
          /\ \/ CheckOrder(tr) /\ trades' = Append(trades, tr) /\ UNCHANGED own
             \/ Unlock("xmpp", tr.id, "idle") /\ UNCHANGED trades
    BY <1>3 DEF OrderTaken
  <2>2. tr.max <= budget[tr.root] /\ tr \in Holding /\ tr \in Trade
    BY DEF Covered, TakingCovered, Holding, Types
  <2>3. CASE Unlock("xmpp", tr.id, "idle") /\ UNCHANGED trades
    <3>1. \A i \in DOMAIN own' : ~own'[i].locked => own'[i].max <= budget[own'[i].root]
      BY <2>2, <2>3, CoveredUnlock
    <3> QED BY <2>1, <2>3, <3>1, CoveredKeep
  <2>4. CASE CheckOrder(tr) /\ trades' = Append(trades, tr) /\ UNCHANGED own
    <3>1. PICK n \in Nat : n = Len(trades) /\ DOMAIN trades = 1 .. n
      BY DEF Types
    <3>2. /\ DOMAIN trades' = 1 .. (n + 1)
          /\ \A k \in 1 .. n : trades'[k] = trades[k]
          /\ trades'[n + 1] = tr
      BY <2>2, <2>4, <3>1 DEF Types
    <3>3. \A k \in 1 .. (n + 1) : k \in 1 .. n \/ k = n + 1
      OBVIOUS
    <3>4. TradesCovered'
      BY <2>1, <2>2, <2>4, <3>1, <3>2, <3>3 DEF Covered, TradesCovered, CheckOrder
    <3>5. OrdersCovered' /\ TakingCovered' /\ RestCovered' /\ budget' \in [Id -> Nat]
      BY <2>1, <2>4 DEF Covered, OrdersCovered, TakingCovered, RestCovered
    <3>6. EndedCovered'
      BY <2>1 DEF Covered, EndedCovered, LeftOf
    <3> QED BY <3>4, <3>5, <3>6 DEF Covered
  <2> QED BY <2>1, <2>3, <2>4
<1>4. ASSUME NEW max \in Amount, AddOrder(max) PROVE Covered'
  <2>1. /\ nextId < MaxId
        /\ own' = Insert(nextId, [max |-> max, locked |-> FALSE, root |-> nextId])
        /\ budget' = [budget EXCEPT ![nextId] = max]
        /\ UNCHANGED <<trades, todo, taking, reduced>>
    BY <1>4 DEF AddOrder, Add
  <2>2. nextId \in Id /\ nextId \in Int /\ max \in Nat
    BY <2>1 DEF Types, Id
  <2>3. \A r : r # nextId => budget'[r] = budget[r]
    BY <2>1 DEF Covered
  <2>4. budget' \in [Id -> Nat] /\ budget'[nextId] = max
    BY <2>1, <2>2 DEF Covered
  <2>5. \A h \in Holding \cup reduced : h.root # nextId
    BY <2>2 DEF Roots
  <2>6. \A i \in DOMAIN own : own[i].root # nextId
    BY <2>2 DEF Roots
  <2>7. nextId \notin DOMAIN own
    BY <2>2 DEF LockInv, Fresh
  <2>8. /\ DOMAIN own' = DOMAIN own \cup {nextId}
        /\ \A i \in DOMAIN own : own'[i] = own[i]
        /\ own'[nextId].max = max /\ own'[nextId].root = nextId
    BY <2>1, <2>7 DEF Insert
  <2>9. OrdersCovered'
    <3> SUFFICES ASSUME NEW i \in DOMAIN own', ~own'[i].locked
                 PROVE  own'[i].max <= budget'[own'[i].root]
      BY DEF OrdersCovered
    <3>1. CASE i = nextId
      BY <2>2, <2>4, <2>8, <3>1
    <3>2. CASE i \in DOMAIN own
      BY <2>3, <2>6, <2>8, <3>2 DEF Covered, OrdersCovered
    <3> QED BY <2>8, <3>1, <3>2
  <2>10. TakingCovered' /\ TradesCovered' /\ EndedCovered' /\ RestCovered'
    <3>1. /\ \A tr \in taking : tr \in Holding
          /\ \A k \in DOMAIN trades : trades[k] \in Holding
          /\ \A k \in DOMAIN todo : todo[k].trade \in Holding
      BY DEF Holding
    <3>2. TakingCovered' /\ RestCovered'
      BY <2>1, <2>3, <2>5, <3>1 DEF Covered, TakingCovered, RestCovered
    <3>3. TradesCovered'
      BY <2>1, <2>3, <2>5, <3>1 DEF Covered, TradesCovered
    <3>4. EndedCovered'
      BY <2>1, <2>3, <2>5, <3>1 DEF Covered, EndedCovered, LeftOf
    <3> QED BY <3>2, <3>3, <3>4
  <2> QED BY <2>4, <2>9, <2>10 DEF Covered
<1>5. ASSUME NEW i \in Id, CancelOrder(i) PROVE Covered'
  BY <1>5, <1>a DEF CancelOrder, RemoveById
<1>6. CASE Update
  BY <1>6, CoveredUpdate
<1>7. CASE HandleFailure
  <2>1. /\ todo # <<>> /\ todo' = Tail(todo) /\ ~Head(todo).success
        /\ UNCHANGED <<trades, taking, reduced, budget>>
        /\ Unlock("updater", Head(todo).trade.id, "handle")
    BY <1>7 DEF HandleFailure
  <2>2. /\ Head(todo).trade \in Holding /\ 1 \in DOMAIN todo /\ Head(todo) = todo[1]
        /\ \A k \in DOMAIN todo' : k + 1 \in DOMAIN todo /\ todo'[k] = todo[k + 1]
    BY <2>1, HoldingTail
  <2>3. PICK h \in Holding : h = Head(todo).trade
    BY <2>2
  <2>4. h.max <= budget[h.root]
    BY <2>1, <2>2, <2>3 DEF Covered, EndedCovered, LeftOf
  <2>5. \A i \in DOMAIN own' : ~own'[i].locked => own'[i].max <= budget[own'[i].root]
    BY <2>1, <2>3, <2>4, CoveredUnlock
  <2>6. \A k \in DOMAIN todo' : \E l \in DOMAIN todo : todo'[k] = todo[l]
    BY <2>2
  <2> QED BY <2>1, <2>5, <2>6, CoveredKeep
<1>8. CASE HandleSuccess
  <2>1. /\ todo # <<>> /\ todo' = Tail(todo) /\ Head(todo).success
        /\ reduced' = {Head(todo).trade}
        /\ UNCHANGED <<trades, taking, budget>>
        /\ own' = Without(own, {Head(todo).trade.id})
    BY <1>8 DEF HandleSuccess, RemoveById
  <2>2. /\ 1 \in DOMAIN todo /\ Head(todo) = todo[1]
        /\ \A k \in DOMAIN todo' : k + 1 \in DOMAIN todo /\ todo'[k] = todo[k + 1]
    BY <2>1, HoldingTail
  <2>3. \A i \in DOMAIN own' : i \in DOMAIN own /\ own'[i] = own[i]
    BY <2>1 DEF Without
  <2>4. OrdersCovered' /\ TakingCovered' /\ TradesCovered' /\ budget' \in [Id -> Nat]
    BY <2>1, <2>3 DEF Covered, OrdersCovered, TakingCovered, TradesCovered
  <2>5. EndedCovered'
    BY <2>1, <2>2 DEF Covered, EndedCovered, LeftOf
  <2>6. RestCovered'
    BY <2>1, <2>2 DEF Covered, EndedCovered, LeftOf, RestCovered
  <2> QED BY <2>4, <2>5, <2>6 DEF Covered
<1>9. CASE Recreate
  <2>1. PICK tr \in reduced :
            /\ reduced' = {}
            /\ \/ nextId < MaxId /\ Add("updater", Rest(tr), tr.root, "handle")
               \/ UNCHANGED own
            /\ UNCHANGED <<trades, todo, taking, budget>>
    BY <1>9 DEF Recreate
  <2>2. CASE UNCHANGED own
    <3>1. \A i \in DOMAIN own' : ~own'[i].locked => own'[i].max <= budget[own'[i].root]
      BY <2>2 DEF Covered, OrdersCovered
    <3> QED BY <2>1, <3>1, CoveredKeep
  <2>3. CASE own' = Insert(nextId, [max |-> Rest(tr), locked |-> FALSE, root |-> tr.root])
    <3>1. Rest(tr) <= budget[tr.root]
      BY DEF Covered, RestCovered, Rest
    <3>2. /\ DOMAIN own' = DOMAIN own \cup {nextId}
          /\ \A i \in DOMAIN own : i # nextId => own'[i] = own[i]
          /\ own'[nextId].max = Rest(tr) /\ own'[nextId].root = tr.root
      BY <2>3 DEF Insert
    <3>3. \A i \in DOMAIN own' : ~own'[i].locked => own'[i].max <= budget[own'[i].root]
      BY <3>1, <3>2 DEF Covered, OrdersCovered
    <3> QED BY <2>1, <3>3, CoveredKeep
  <2> QED BY <2>1, <2>2, <2>3 DEF Add
<1>10. CASE AllHandled \/ StartRefresh
  BY <1>10, <1>a DEF AllHandled, StartRefresh
<1>11. CASE Environment
  BY <1>11, <1>a DEF Environment, ChangeAssets, Disconnect, Reconnect, locals
<1>12. CASE UNCHANGED vars
  BY <1>12, <1>a DEF vars, locals
<1> QED BY <1>1, <1>2, <1>3, <1>4, <1>5, <1>6, <1>7, <1>8, <1>9, <1>10, <1>11, <1>12,
           StepCases

(* Nothing is offered or sold at the start.                                *)
LEMMA InitRoots == Init => Roots /\ Covered
<1> SUFFICES ASSUME Init PROVE Roots /\ Covered
  OBVIOUS
<1>1. /\ DOMAIN own = {} /\ taking = {} /\ reduced = {}
      /\ DOMAIN trades = {} /\ DOMAIN todo = {}
  BY DEF Init
<1>2. Holding = {}
  BY <1>1 DEF Holding
<1>3. Roots
  BY <1>1, <1>2 DEF Roots
<1>4. budget \in [Id -> Nat]
  BY DEF Init
<1> QED BY <1>1, <1>3, <1>4
        DEF Covered, OrdersCovered, TakingCovered, TradesCovered, EndedCovered, RestCovered

(* What the user offered is in one place and covered, always.              *)
LEMMA CoveredHolds == Spec => [](Types /\ LockInv /\ Roots /\ Covered)
<1>1. Init => Roots /\ Covered
  BY InitRoots
<1>2. Types /\ Phases /\ LockInv /\ Roots /\ Covered /\ [Next]_vars => (Roots /\ Covered)'
  BY RootsStep, CoveredStep
<1> QED BY <1>1, <1>2, InvHolds, PTL DEF Spec

(* HandleSuccess removes a sold order and adds what is left of it under a  *)
(* new id, in two steps between which every other thread runs; cancelling, *)
(* refreshing and trading go on meanwhile.  Still, what can be taken from  *)
(* an order and its successors never exceeds what the user offered and has *)
(* not sold yet, for any number of orders and any amounts.                 *)
THEOREM NothingOversold == Spec => []NeverOversold
<1>1. Types /\ Roots /\ Covered => NeverOversold
  <2> SUFFICES ASSUME Types, Roots, Covered, NEW r \in Id
               PROVE  SumMax(own, {i \in DOMAIN own : own[i].root = r /\ ~own[i].locked})
                      <= budget[r]
    BY DEF NeverOversold, SumMax
  <2> DEFINE S == {i \in DOMAIN own : own[i].root = r /\ ~own[i].locked}
  <2>1. budget[r] \in Nat
    BY DEF Covered
  <2>2. CASE S = {}
    BY <2>1, <2>2, SumOfNone
  <2>3. ASSUME NEW x \in S PROVE SumMax(own, S) <= budget[r]
    <3>1. x \in DOMAIN own /\ own[x].root = r /\ ~own[x].locked
      OBVIOUS
    <3>2. S = {x}
      BY <3>1 DEF Roots
    <3>3. own[x].max \in Int
      <4>1. own[x] \in OwnOrder
        BY <3>1 DEF Types, OrdersType
      <4> QED BY <4>1 DEF OwnOrder
    <3>4. SumMax(own, S) = own[x].max
      BY <3>2, <3>3, SumOfMax
    <3> QED BY <3>1, <3>4 DEF Covered, OrdersCovered
  <2> QED BY <2>2, <2>3
<1> QED BY <1>1, CoveredHolds, PTL

-----------------------------------------------------------------------------
(* Type correctness *)

Listing == SUBSET [id : Id, max : Nat]

(* What is published, and what the environment does.                       *)
ViewTypes ==
    /\ snapshot \in [Thread -> Listing]
    /\ published \in Listing
    /\ canTrade \in Assets
FlagTypes == connected \in BOOLEAN /\ failed \in BOOLEAN

(* InternalGetOrders lists orders.                                         *)
LEMMA ListingType ==
    ASSUME Types, NEW b PROVE InternalGetOrders(b) \in Listing
<1>1. \A i \in DOMAIN own : i \in Id /\ own[i].max \in Nat
  BY DEF Types, OrdersType, OwnOrder
<1> QED BY <1>1 DEF InternalGetOrders, Listing

(* A step that starts a refresh or ends without one publishes nothing.     *)
LEMMA ViewFrame ==
    ASSUME ViewTypes, UNCHANGED <<snapshot, published, canTrade>> PROVE ViewTypes'
BY DEF ViewTypes

(* The types of what is published are kept.                                *)
LEMMA ViewTypesStep ==
    ASSUME Types, ViewTypes, [Next]_vars PROVE ViewTypes'
<1> USE DEF environment
<1>1. ASSUME NEW th \in Thread, DropInvalid(th) PROVE ViewTypes'
  BY <1>1, ViewFrame DEF DropInvalid, Step
<1>2. ASSUME NEW th \in Thread, TakeSnapshot(th) PROVE ViewTypes'
  <2>1. InternalGetOrders(FALSE) \in Listing
    BY ListingType
  <2>2. /\ snapshot' = [snapshot EXCEPT ![th] = InternalGetOrders(FALSE)]
        /\ UNCHANGED <<published, canTrade>>
    BY <1>2 DEF TakeSnapshot, Snapshot
  <2> QED BY <2>1, <2>2 DEF ViewTypes
<1>3. ASSUME NEW th \in Thread, UpdateOrders(th) PROVE ViewTypes'
  <2>1. /\ published' = snapshot[th] \/ published' = published
        /\ snapshot' = [snapshot EXCEPT ![th] = {}]
        /\ UNCHANGED canTrade
    BY <1>3 DEF UpdateOrders
  <2>2. {} \in Listing
    BY DEF Listing
  <2> QED BY <2>1, <2>2 DEF ViewTypes
<1>4. ASSUME NEW i \in Id, NEW u \in Amount, TryLock(i, u) PROVE ViewTypes'
  BY <1>4, ViewFrame DEF TryLock, Refresh
<1>5. CASE OrderTaken
  BY <1>5, ViewFrame DEF OrderTaken, Unlock, Refresh, Step
<1>6. ASSUME NEW max \in Amount, AddOrder(max) PROVE ViewTypes'
  BY <1>6, ViewFrame DEF AddOrder, Add, Refresh, Step
<1>7. ASSUME NEW i \in Id, CancelOrder(i) PROVE ViewTypes'
  BY <1>7, ViewFrame DEF CancelOrder, RemoveById, Refresh
<1>8. CASE Update
  BY <1>8, ViewFrame DEF Update, Step
<1>9. CASE HandleFailure
  BY <1>9, ViewFrame DEF HandleFailure, Unlock, Refresh
<1>10. CASE HandleSuccess
  BY <1>10, ViewFrame DEF HandleSuccess, RemoveById, Refresh
<1>11. CASE Recreate
  BY <1>11, ViewFrame DEF Recreate, Add, Refresh, Step
<1>12. CASE AllHandled \/ StartRefresh
  BY <1>12, ViewFrame DEF AllHandled, StartRefresh, Refresh, Step
<1>13. CASE Environment
  BY <1>13 DEF Environment, ChangeAssets, Disconnect, Reconnect, locals, ViewTypes, Listing
<1>14. CASE UNCHANGED vars
  BY <1>14, ViewFrame DEF vars, locals
<1> QED BY <1>1, <1>2, <1>3, <1>4, <1>5, <1>6, <1>7, <1>8, <1>9, <1>10, <1>11, <1>12,
           <1>13, <1>14, StepCases

(* Every step leaves a flag as it is or gives it a definite value.         *)
LEMMA FlagTypesStep ==
    ASSUME FlagTypes, [Next]_vars PROVE FlagTypes'
<1> USE DEF environment
<1>1. /\ connected' = connected \/ connected' = TRUE \/ connected' = FALSE
      /\ failed' = failed \/ failed' = TRUE
  <2>1. ASSUME NEW th \in Thread, DropInvalid(th) \/ TakeSnapshot(th) \/ UpdateOrders(th)
        PROVE  UNCHANGED <<connected, failed>>
    BY <2>1 DEF DropInvalid, TakeSnapshot, Snapshot, UpdateOrders
  <2>2. ASSUME NEW i \in Id, NEW u \in Amount, TryLock(i, u)
        PROVE  UNCHANGED <<connected, failed>>
    BY <2>2 DEF TryLock
  <2>3. CASE OrderTaken \/ HandleFailure
    BY <2>3 DEF OrderTaken, HandleFailure, Unlock
  <2>4. ASSUME NEW max \in Amount, AddOrder(max) PROVE UNCHANGED <<connected, failed>>
    BY <2>4 DEF AddOrder
  <2>5. ASSUME NEW i \in Id, CancelOrder(i) PROVE UNCHANGED <<connected, failed>>
    BY <2>5 DEF CancelOrder
  <2>6. CASE Update \/ HandleSuccess \/ Recreate \/ AllHandled \/ StartRefresh
    BY <2>6 DEF Update, HandleSuccess, Recreate, AllHandled, StartRefresh
  <2>7. CASE Environment
    BY <2>7 DEF Environment, ChangeAssets, Disconnect, Reconnect, locals
  <2>8. CASE UNCHANGED vars
    BY <2>8 DEF vars
  <2> QED BY <2>1, <2>2, <2>3, <2>4, <2>5, <2>6, <2>7, <2>8, StepCases
<1> QED BY <1>1, Zenon DEF FlagTypes

(* The state of the own orders has its type in every reachable state; in   *)
(* particular, what is not sold yet never becomes negative.                *)
THEOREM TypeCorrect == Spec => []TypeOK
<1>1. Init => ViewTypes /\ FlagTypes
  <2> SUFFICES ASSUME Init PROVE ViewTypes /\ FlagTypes
    OBVIOUS
  <2>1. ViewTypes
    BY DEF Init, ViewTypes, Listing
  <2>2. FlagTypes
    BY Zenon DEF Init, FlagTypes
  <2> QED BY <2>1, <2>2
<1>2. Types /\ ViewTypes /\ FlagTypes /\ [Next]_vars => (ViewTypes /\ FlagTypes)'
  BY ViewTypesStep, FlagTypesStep
<1>3. Types /\ ViewTypes /\ FlagTypes /\ Covered => TypeOK
  BY DEF Types, OrdersType, Entry, ViewTypes, Listing, FlagTypes, Covered, TypeOK
<1> QED BY <1>1, <1>2, <1>3, CoveredHolds, PTL DEF Spec

=============================================================================
