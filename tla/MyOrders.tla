------------------------------ MODULE MyOrders ------------------------------
(***************************************************************************)
(* The own orders of one daemon (src/src/myorders.cpp), with the callers   *)
(* that change them from four threads:                                     *)
(*   xmpp       TradeManager::ProcessMessage, when somebody takes an order *)
(*   rpc        Daemon::AddOrder and Daemon::CancelOrder                   *)
(*   updater    TradeManager::UpdateAndArchiveTrades                       *)
(*   refresher  the periodic MyOrders::RunRefresh                          *)
(* Every callback under the mutex of State is one action; between two of   *)
(* them the other threads run.  Each change of the orders is followed by a *)
(* RunRefresh in the same thread: drop invalid orders, take a snapshot,    *)
(* publish it.                                                             *)
(*                                                                         *)
(* Abstracted: an order is its max_units; it is valid while the game lets  *)
(* the account trade that many (canTrade).  How a trade ends is Trades'    *)
(* business: here any active trade may end any way.                        *)
(***************************************************************************)
EXTENDS Integers, Sequences, FiniteSetsExt

CONSTANTS
    MaxId,       \* bound on the number of orders ever added
    Amount,      \* the amounts users offer and ask for
    MinUnits,    \* min_units of the orders
    Assets,      \* the values canTrade takes
    Cancels,     \* TRUE if the user cancels orders
    Drops        \* TRUE if the connection may be lost

ASSUME MyOrdersAssumption ==
    /\ MaxId \in Nat /\ MinUnits \in Nat \ {0}
    /\ Amount \subseteq Nat \ {0} /\ Assets \subseteq Nat
    /\ Cancels \in BOOLEAN /\ Drops \in BOOLEAN

Thread == {"xmpp", "rpc", "updater", "refresher"}

VARIABLES
    own,         \* own_orders: id -> [max, locked, root]; the root is the
                 \* id of the order that the user added
    nextId,      \* next_free_id
    trades,      \* active trades on own orders
    todo,        \* updater: finalised trades still to be handled
    reduced,     \* updater: the sale whose order is being recreated
    taking,      \* xmpp: what TryLock returned, for OrderTaken
    pc,          \* the next step of each thread
    then,        \* where a thread continues after RunRefresh
    snapshot,    \* the orders a thread is about to publish
    published,   \* what the other traders see of our orders
    connected,   \* the state of the XMPP connection
    canTrade,    \* what the game lets us trade
    budget,      \* budget[r]: what the user offered in r and is not sold yet
    failed       \* TRUE once a CHECK has failed: the daemon is gone

locals == <<todo, reduced, taking, pc, then, snapshot>>
environment == <<connected, canTrade>>
vars == <<own, nextId, trades, locals, published, environment, budget, failed>>

Id == 0 .. (MaxId - 1)
Trade == [id : Id, units : Nat, max : Nat, root : Id]
OwnOrder == [max : Nat, locked : BOOLEAN, root : Id]

ValidateOrder(max) == max > 0 /\ MinUnits <= max /\ max <= canTrade

Without(f, ids) == [i \in DOMAIN f \ ids |-> f[i]]
Insert(i, o) == [k \in DOMAIN own \cup {i} |-> IF k = i THEN o ELSE own[k]]

InternalGetOrders(includeLocked) ==
    {[id |-> i, max |-> own[i].max] :
        i \in {k \in DOMAIN own : includeLocked \/ ~own[k].locked}}

Goto(th, label) == pc' = [pc EXCEPT ![th] = label]

(* Thread th runs RunRefresh and then continues at label.  *)
Refresh(th, label) ==
    /\ Goto(th, "validate")
    /\ then' = [then EXCEPT ![th] = label]
    /\ UNCHANGED snapshot

Step(th, label) ==
    /\ Goto(th, label)
    /\ UNCHANGED <<then, snapshot>>

-----------------------------------------------------------------------------
(* MyOrders: the bodies of its operations, as run by a thread *)

DropInvalid(th) ==
    /\ pc[th] = "validate"
    /\ own' = Without(own, {i \in DOMAIN own : ~ValidateOrder(own[i].max)})
    /\ Step(th, "snapshot")
    /\ UNCHANGED <<nextId, trades, todo, reduced, taking, published, environment,
                   budget, failed>>

Snapshot(th, includeLocked) ==
    /\ pc[th] = "snapshot"
    /\ snapshot' = [snapshot EXCEPT ![th] = InternalGetOrders(includeLocked)]
    /\ Goto(th, "publish")
    /\ UNCHANGED <<own, nextId, trades, todo, reduced, taking, then, published,
                   environment, budget, failed>>

TakeSnapshotOfAll(th) == Snapshot(th, TRUE)
TakeSnapshot(th) == Snapshot(th, FALSE)

UpdateOrders(th) ==
    /\ pc[th] = "publish"
    /\ published' = IF connected THEN snapshot[th] ELSE published
    /\ snapshot' = [snapshot EXCEPT ![th] = {}]
    /\ then' = [then EXCEPT ![th] = "idle"]
    /\ Goto(th, then[th])
    /\ UNCHANGED <<own, nextId, trades, todo, reduced, taking, environment,
                   budget, failed>>

AddSameId(th, max, root, label) ==
    /\ ValidateOrder(max)
    /\ own' = Insert(nextId, [max |-> max, locked |-> FALSE, root |-> root])
    /\ UNCHANGED nextId
    /\ Refresh(th, label)

(* Add: an invalid order is refused without a refresh.  *)
Add(th, max, root, label) ==
    \/ /\ ValidateOrder(max)
       /\ own' = Insert(nextId, [max |-> max, locked |-> FALSE, root |-> root])
       /\ nextId' = nextId + 1
       /\ Refresh(th, label)
    \/ /\ ~ValidateOrder(max)
       /\ Step(th, label)
       /\ UNCHANGED <<own, nextId>>

RemoveById(th, i, label) ==
    /\ own' = Without(own, {i})
    /\ Refresh(th, label)

IsLocked(i) == i \in DOMAIN own /\ own[i].locked

(* Unlock: both CHECKs abort the daemon.  *)
Unlock(th, i, label) ==
    \/ /\ IsLocked(i)
       /\ own' = [own EXCEPT ![i].locked = FALSE]
       /\ Refresh(th, label)
       /\ UNCHANGED failed
    \/ /\ ~IsLocked(i)
       /\ failed' = TRUE
       /\ UNCHANGED <<own, pc, then, snapshot>>

-----------------------------------------------------------------------------
(* The xmpp thread: ProcessMessage with a taking_order *)

TryLock(i, u) ==
    /\ pc["xmpp"] = "idle"
    /\ i \in DOMAIN own /\ ~own[i].locked
    /\ taking' = {[id |-> i, units |-> u, max |-> own[i].max, root |-> own[i].root]}
    /\ own' = [own EXCEPT ![i].locked = TRUE]
    /\ Refresh("xmpp", "orderTaken")
    /\ UNCHANGED <<nextId, trades, todo, reduced, published, environment, budget,
                   failed>>

CheckOrderNoMaximum(tr) == tr.units >= MinUnits
CheckOrder(tr) == tr.units <= tr.max /\ tr.units >= MinUnits

OrderTakenStaysLocked ==
    \E tr \in taking :
        /\ pc["xmpp"] = "orderTaken"
        /\ taking' = {}
        /\ trades' = IF CheckOrder(tr) THEN Append(trades, tr) ELSE trades
        /\ Step("xmpp", "idle")
        /\ UNCHANGED <<own, nextId, todo, reduced, published, environment, budget,
                       failed>>

OrderTaken ==
    \E tr \in taking :
        /\ pc["xmpp"] = "orderTaken"
        /\ taking' = {}
        /\ \/ /\ CheckOrder(tr)
              /\ trades' = Append(trades, tr)
              /\ Step("xmpp", "idle")
              /\ UNCHANGED <<own, failed>>
           \/ /\ ~CheckOrder(tr)
              /\ Unlock("xmpp", tr.id, "idle")
              /\ UNCHANGED trades
        /\ UNCHANGED <<nextId, todo, reduced, published, environment, budget>>

-----------------------------------------------------------------------------
(* The rpc thread *)

AddOrder(max) ==
    /\ pc["rpc"] = "idle" /\ nextId < MaxId
    /\ ValidateOrder(max)
    /\ Add("rpc", max, nextId, "idle")
    /\ budget' = [budget EXCEPT ![nextId] = max]
    /\ UNCHANGED <<trades, todo, reduced, taking, published, environment,
                   failed>>

CancelOrder(i) ==
    /\ Cancels
    /\ pc["rpc"] = "idle" /\ i \in DOMAIN own
    /\ RemoveById("rpc", i, "idle")
    /\ UNCHANGED <<nextId, trades, todo, reduced, taking, published, environment,
                   budget, failed>>

-----------------------------------------------------------------------------
(* The updater thread: UpdateAndArchiveTrades *)

(* S in ascending order, as a set with the one sequence that is.           *)
Ascending(S) ==
    {f \in [1 .. Cardinality(S) -> S] :
        /\ \A x \in S : \E k \in DOMAIN f : f[k] = x
        /\ \A k, l \in DOMAIN f : k < l => f[k] < f[l]}

(* The trades at the indices "ended" are archived, those in "success"      *)
(* having sold their units; the others stay active, in their order.        *)
Archive(ended, success) ==
    /\ \E active \in Ascending(DOMAIN trades \ ended), done \in Ascending(ended) :
          /\ trades' = [k \in DOMAIN active |-> trades[active[k]]]
          /\ todo' = [k \in DOMAIN done |->
                        [trade |-> trades[done[k]], success |-> done[k] \in success]]
    /\ budget' = [r \in Id |-> budget[r] -
                    MapThenSumSet(LAMBDA i : trades[i].units,
                                  {i \in success : trades[i].root = r})]

Update ==
    /\ pc["updater"] = "idle"
    /\ \E ended \in SUBSET (1 .. Len(trades)) \ {{}} :
          \E success \in SUBSET ended : Archive(ended, success)
    /\ Step("updater", "handle")
    /\ UNCHANGED <<own, nextId, reduced, taking, published, environment, failed>>

HandleFailure ==
    /\ pc["updater"] = "handle"
    /\ todo # <<>> /\ ~Head(todo).success
    /\ todo' = Tail(todo)
    /\ Unlock("updater", Head(todo).trade.id, "handle")
    /\ UNCHANGED <<nextId, trades, reduced, taking, published, environment, budget>>

(* HandleSuccess removes the order first ...  *)
HandleSuccess ==
    /\ pc["updater"] = "handle"
    /\ todo # <<>> /\ Head(todo).success
    /\ todo' = Tail(todo)
    /\ reduced' = {Head(todo).trade}
    /\ RemoveById("updater", Head(todo).trade.id, "recreate")
    /\ UNCHANGED <<nextId, trades, taking, published, environment, budget, failed>>

(* ... and then adds what is left of it, unless that is too little.        *)
RestNotReduced(tr) == tr.max
Rest(tr) == tr.max - tr.units

Recreate ==
    \E tr \in reduced :
        /\ pc["updater"] = "recreate"
        /\ reduced' = {}
        /\ \/ /\ Rest(tr) > 0 /\ Rest(tr) >= MinUnits
              /\ nextId < MaxId
              /\ Add("updater", Rest(tr), tr.root, "handle")
           \/ /\ Rest(tr) = 0 \/ Rest(tr) < MinUnits
              /\ Step("updater", "handle")
              /\ UNCHANGED <<own, nextId>>
        /\ UNCHANGED <<trades, todo, taking, published, environment, budget, failed>>

AllHandled ==
    /\ pc["updater"] = "handle" /\ todo = <<>>
    /\ Step("updater", "idle")
    /\ UNCHANGED <<own, nextId, trades, todo, reduced, taking, published,
                   environment, budget, failed>>

-----------------------------------------------------------------------------
(* The refresher thread and the environment *)

StartRefresh ==
    /\ pc["refresher"] = "idle"
    /\ Refresh("refresher", "idle")
    /\ UNCHANGED <<own, nextId, trades, todo, reduced, taking, published,
                   environment, budget, failed>>

(* The game state changes.  *)
ChangeAssets(n) ==
    /\ n # canTrade
    /\ canTrade' = n
    /\ UNCHANGED <<own, nextId, trades, locals, published, connected, budget, failed>>

(* When we leave the room, the others drop our orders.  *)
Disconnect ==
    /\ Drops /\ connected
    /\ connected' = FALSE /\ published' = {}
    /\ UNCHANGED <<own, nextId, trades, locals, canTrade, budget, failed>>

Reconnect ==
    /\ ~connected
    /\ connected' = TRUE
    /\ UNCHANGED <<own, nextId, trades, locals, published, canTrade, budget, failed>>

-----------------------------------------------------------------------------
Init ==
    /\ own = [i \in {} |-> {}] /\ nextId = 0
    /\ trades = <<>> /\ todo = <<>> /\ reduced = {} /\ taking = {}
    /\ pc = [th \in Thread |-> "idle"] /\ then = [th \in Thread |-> "idle"]
    /\ snapshot = [th \in Thread |-> {}]
    /\ published = {} /\ connected = TRUE
    /\ canTrade \in Assets
    /\ budget = [r \in Id |-> 0] /\ failed = FALSE

RunRefresh(th) == DropInvalid(th) \/ TakeSnapshot(th) \/ UpdateOrders(th)

Xmpp == (\E i \in Id, u \in Amount : TryLock(i, u)) \/ OrderTaken
Rpc == (\E max \in Amount : AddOrder(max)) \/ (\E i \in Id : CancelOrder(i))
Updater == Update \/ HandleFailure \/ HandleSuccess \/ Recreate \/ AllHandled
Environment == (\E n \in Assets : ChangeAssets(n)) \/ Disconnect \/ Reconnect

Next ==
    /\ ~failed
    /\ \/ \E th \in Thread : RunRefresh(th)
       \/ Xmpp \/ Rpc \/ Updater \/ StartRefresh \/ Environment

Spec == Init /\ [][Next]_vars

(* A thread that has started an operation finishes it, and the refresher   *)
(* runs periodically.                                                      *)
FairSpec ==
    /\ Spec
    /\ \A th \in Thread : WF_vars(~failed /\ RunRefresh(th))
    /\ WF_vars(~failed /\ OrderTaken)
    /\ WF_vars(~failed /\ (HandleFailure \/ HandleSuccess \/ Recreate \/ AllHandled))
    /\ WF_vars(~failed /\ StartRefresh)

-----------------------------------------------------------------------------
(* Properties *)

TypeOK ==
    /\ \E ids \in SUBSET Id : own \in [ids -> OwnOrder]
    /\ nextId \in 0 .. MaxId
    /\ trades \in Seq(Trade)
    /\ todo \in Seq([trade : Trade, success : BOOLEAN])
    /\ reduced \in SUBSET Trade /\ taking \in SUBSET Trade
    /\ pc \in [Thread -> {"idle", "validate", "snapshot", "publish", "orderTaken",
                          "handle", "recreate"}]
    /\ then \in [Thread -> {"idle", "orderTaken", "handle", "recreate"}]
    /\ snapshot \in [Thread -> SUBSET [id : Id, max : Nat]]
    /\ published \in SUBSET [id : Id, max : Nat]
    /\ connected \in BOOLEAN /\ canTrade \in Assets
    /\ budget \in [Id -> Nat] /\ failed \in BOOLEAN

(* The number of those who will unlock or remove the order i: the message  *)
(* being processed, active trades, and finalised trades not yet handled.   *)
Holders(i) ==
    Cardinality({tr \in taking : tr.id = i})
    + Cardinality({k \in DOMAIN trades : trades[k].id = i})
    + Cardinality({k \in DOMAIN todo : todo[k].trade.id = i})

(* TryLock: at any moment at most one trade is for a given order, even if  *)
(* the order was cancelled or dropped and whatever is still in flight.     *)
OneTradePerOrder == \A i \in Id : Holders(i) <= 1

(* An order is locked iff somebody is going to unlock or remove it: the    *)
(* lock is neither lost while a trade runs nor left behind, whatever       *)
(* happens to other orders.                                                *)
LockHasHolder ==
    \A i \in DOMAIN own : own[i].locked <=> Holders(i) = 1

(* HandleSuccess: what can still be taken from an order or its successors  *)
(* never exceeds what the user offered and is not sold yet.                *)
NeverOversold ==
    \A r \in Id :
        MapThenSumSet(LAMBDA i : own[i].max,
                      {i \in DOMAIN own : own[i].root = r /\ ~own[i].locked})
        <= budget[r]

(* The CHECKs in Unlock: an order to be unlocked exists and is locked.     *)
NoCheckFails == ~failed

Available ==
    {[id |-> i, max |-> own[i].max] : i \in {k \in DOMAIN own : ~own[k].locked}}

(* Once the orders stop changing, what the others see converges to them,   *)
(* although refreshes of several threads overtake each other.              *)
PublishedCatchesUp ==
    \/ []<><<own' # own>>_own
    \/ <>failed
    \/ []<>(~connected \/ published = Available)

=============================================================================
