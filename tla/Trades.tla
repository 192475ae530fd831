------------------------------- MODULE Trades -------------------------------
(***************************************************************************)
(* The negotiation of atomic trades between Democrit daemons: the classes  *)
(* Trade and TradeManager (src/src/trades.cpp) together with the checks    *)
(* made before a signature (src/src/checker.cpp).  Every account runs one  *)
(* daemon with one wallet.  The maker of an order and a taker exchange     *)
(* messages until one transaction carries both signatures; the taker signs *)
(* first, and the maker completes and broadcasts the transaction.          *)
(*                                                                         *)
(* The model has any number of accounts and orders, repeated attempts to   *)
(* take an order, messages that are lost, duplicated and reordered, time   *)
(* outs at any moment, RPC calls that fail, and outputs that are spent     *)
(* elsewhere.  Abstracted:                                                 *)
(*  - an optional protobuf field is a set with at most one element;        *)
(*  - the seller's two fresh addresses are named by the trade that asked   *)
(*    the wallet for them, the buyer's change address likewise;            *)
(*  - the buyer funds a transaction with one coin;                         *)
(*  - an order id stands for the asset and the price of the order;         *)
(*  - the clock: a trade that is still INITIATED may have timed out at any *)
(*    moment;                                                              *)
(*  - confirmations: a transaction is unknown, in the mempool or confirmed *)
(*    for good.                                                            *)
(***************************************************************************)
EXTENDS Integers

CONSTANTS
    Account,      \* the accounts, each with its own daemon and wallet
    Order,        \* the orders on the book
    Maker,        \* Maker[o]: the account that offers o
    Type,         \* Type[o]: "ASK" if the maker sells, "BID" if it buys
    MinUnits,     \* MinUnits[o]: the least amount o can be taken for
    InitUnits,    \* InitUnits[o]: the amount offered initially, 0 for an
                  \* order that is not there yet
    Units,        \* the amounts a user may ask for
    Coin,         \* the numbers of the coins in each wallet
    Removable,    \* the orders that are cancelled or become invalid
    Outside,      \* the outputs that users spend outside of trades
    Faults,       \* the RPC failures considered, see below
    MaxTrades     \* bound on the number of trades ever started

(***************************************************************************)
(* An RPC call may fail in two ways: "throw" means the call had no effect, *)
(* "lostReply" that it had its effect and only the reply got lost.         *)
(***************************************************************************)
ASSUME TradesAssumption ==
    /\ Maker \in [Order -> Account]
    /\ Type \in [Order -> {"ASK", "BID"}]
    /\ MinUnits \in [Order -> Nat] /\ InitUnits \in [Order -> Nat]
    /\ Units \subseteq Nat /\ Coin \subseteq Nat
    /\ Removable \subseteq Order
    /\ Outside \subseteq [own : Account, kind : {"name", "coin"}, n : Nat]
    /\ Faults \subseteq {"throw", "lostReply"}
    /\ MaxTrades \in Nat

VARIABLES
    trades,       \* all trades ever started, numbered in order of creation
    finalised,    \* trades archived, but HandleSuccess/Failure not yet run
    ownOrder,     \* the maker's copy of each order: "none" before it is added,
                  \* "open", "locked" by a trade, "gone"
    maxUnits,     \* maxUnits[o]: the amount offered in o
    running,      \* the accounts whose daemon no CHECK has aborted
    locked,       \* locked[a]: the outputs locked in a's wallet
    msgs,         \* every processing message ever sent
    nameVer,      \* the number of the current output of each account's name
    spent,        \* the outputs spent by a confirmed transaction
    mempool,      \* trade transactions accepted by the network
    confirmed,    \* trade transactions in the chain
    holds         \* the accounts that own the assets they sell

chainVars == <<nameVer, spent, confirmed, holds>>
vars == <<trades, finalised, ownOrder, maxUnits, running, locked, msgs, mempool,
          chainVars>>

-----------------------------------------------------------------------------
(* Data *)

TradeId == 1 .. MaxTrades
Final == {"ABANDONED", "SUCCESS", "FAILED"}

Output == [own : Account, kind : {"name", "coin"}, n : Nat]
NameOut(a, n) == [own |-> a, kind |-> "name", n |-> n]
CoinOut(a, c) == [own |-> a, kind |-> "coin", n |-> c]

(* A trade transaction: addr is the seller's trade whose addresses it pays *)
(* and change the buyer's trade that constructed it.                       *)
Tx == [order : Order, units : Nat, buyer : Account, name : Output,
       coin : Output, addr : TradeId, change : TradeId]
Psbt == [tx : Tx, sigs : SUBSET Account]

Message == [from : Account, to : Account, order : Order, taking : SUBSET Nat,
            sellerData : SUBSET TradeId, psbt : SUBSET Psbt]

(* A trade that has been PENDING has a psbt of its own: Trade::Update,     *)
(* which follows it on the blockchain, has a CHECK for that.               *)
TradeState ==
    {tr \in [account : Account, order : Order, counterparty : Account, units : Nat,
             state : {"INITIATED", "PENDING"} \cup Final,
             sellerData : SUBSET TradeId, nameOutput : SUBSET Output,
             ourPsbt : SUBSET Psbt, theirPsbt : SUBSET Psbt] :
        tr.state \in {"PENDING", "SUCCESS", "FAILED"} => tr.ourPsbt # {}}

NewTrade(a, o, cp, u) ==
    [account |-> a, order |-> o, counterparty |-> cp, units |-> u,
     state |-> "INITIATED", sellerData |-> {}, nameOutput |-> {},
     ourPsbt |-> {}, theirPsbt |-> {}]

Inputs(x) == {x.name, x.coin}
Conflicts(x, y) == Inputs(x) \cap Inputs(y) # {}
OnChain == mempool \cup confirmed

GetRole(tr) == IF Maker[tr.order] = tr.account THEN "MAKER" ELSE "TAKER"

GetOrderType(tr) ==
    IF GetRole(tr) = "MAKER" THEN Type[tr.order]
    ELSE IF Type[tr.order] = "BID" THEN "ASK" ELSE "BID"

IsFinalised(tr) == tr.state \in Final

(* The slot of the next trade.  *)
IsNextId(t) == t \in TradeId /\ DOMAIN trades = 1 .. (t - 1)

(* trades with the record of trade t written back.  *)
Put(t, tr) ==
    [i \in DOMAIN trades \cup {t} |-> IF i = t THEN tr ELSE trades[i]]

(* The reply for a trade, as filled in by InitProcessingMessage.  *)
ReplyFor(tr, taking, sd, psbt) ==
    [from |-> tr.account, to |-> tr.counterparty, order |-> tr.order,
     taking |-> taking, sellerData |-> sd, psbt |-> psbt]

Matches(t, m) ==
    /\ ~IsFinalised(trades[t])
    /\ trades[t].account = m.to
    /\ trades[t].counterparty = m.from
    /\ trades[t].order = m.order

CheckOrder(o, u) == MinUnits[o] <= u /\ u <= maxUnits[o]

-----------------------------------------------------------------------------
(* Merging a message into a trade *)

MergeSellerData(tr, sd) ==
    IF GetOrderType(tr) = "ASK" \/ tr.sellerData # {} THEN tr.sellerData ELSE sd

MergePsbt(tr, psbt) == IF tr.theirPsbt # {} THEN tr.theirPsbt ELSE psbt

HandleMessage(tr, m) ==
    IF tr.state # "INITIATED" THEN tr
    ELSE [tr EXCEPT !.sellerData = MergeSellerData(tr, m.sellerData),
                    !.theirPsbt = MergePsbt(tr, m.psbt)]

-----------------------------------------------------------------------------
(* The checks before a signature *)

CheckForBuyerTradeSkipped(tr) == TRUE

(* The buyer looks up the seller's current name output, which must not be  *)
(* spent in the mempool either, and asks the game state whether the seller *)
(* owns the assets.                                                        *)
CheckForBuyerTrade(tr) ==
    /\ \A y \in mempool :
          y.name # NameOut(tr.counterparty, nameVer[tr.counterparty])
    /\ tr.counterparty \in holds

CheckForSellerOutputsAnyTotal(tr, x) ==
    /\ x.addr \in tr.sellerData
    /\ x.order = tr.order
    /\ x.buyer = tr.counterparty

(* The transaction pays the total for our units to our address and sends   *)
(* exactly the move we agreed on to the buyer.                             *)
CheckForSellerOutputs(tr, x) ==
    /\ x.addr \in tr.sellerData
    /\ x.order = tr.order
    /\ x.units = tr.units
    /\ x.buyer = tr.counterparty

(* Our name output is an input; walletprocesspsbt signs nothing else, as   *)
(* the coin belongs to another wallet.                                     *)
CheckForSellerSignature(tr, x) == x.name \in tr.nameOutput

SignPsbt(p, a) == [p EXCEPT !.sigs = @ \cup {a}]

(* The inputs are the buyer's coin and the seller's name, so that a psbt   *)
(* is complete with the signatures of both parties of the trade.           *)
Complete(tr, p) == {tr.account, tr.counterparty} \subseteq p.sigs

-----------------------------------------------------------------------------
(***************************************************************************)
(* Trade::HasReply for the trade numbered t whose record is tr, after the  *)
(* message that triggers it has been merged.  Each alternative writes the  *)
(* trade back, sends the reply if there is one, and does what the wallet   *)
(* and the network are asked to do; "taking" is set if this is the first   *)
(* message of a taker.                                                     *)
(***************************************************************************)

Lock(a, outs) == locked' = [locked EXCEPT ![a] = @ \cup outs]

(* sendrawtransaction accepts x, which may be in the mempool already.  *)
Accepts(x) ==
    /\ Inputs(x) \cap spent = {}
    /\ \A y \in mempool \ {x} : ~Conflicts(x, y)

NeedsSellerData(tr) ==
    tr.state = "INITIATED" /\ GetOrderType(tr) = "ASK" /\ tr.sellerData = {}

CreateSellerDataLockIgnored(t, tr, taking) ==
    LET out == NameOut(tr.account, nameVer[tr.account]) IN
    /\ NeedsSellerData(tr)
    /\ Lock(tr.account, {out})
    /\ trades' = Put(t, [tr EXCEPT !.sellerData = {t}, !.nameOutput = {out}])
    /\ msgs' = msgs \cup {ReplyFor(tr, taking, {t}, {})}
    /\ UNCHANGED mempool

(* The seller locks its name output and sends its addresses.  *)
CreateSellerData(t, tr, taking) ==
    LET out == NameOut(tr.account, nameVer[tr.account]) IN
    /\ NeedsSellerData(tr)
    /\ out \notin locked[tr.account]
    /\ Lock(tr.account, {out})
    /\ trades' = Put(t, [tr EXCEPT !.sellerData = {t}, !.nameOutput = {out}])
    /\ msgs' = msgs \cup {ReplyFor(tr, taking, {t}, {})}
    /\ UNCHANGED mempool

(* The seller may sign the transaction p of the buyer.  *)
SellerAgrees(tr, p) ==
    /\ CheckForSellerOutputs(tr, p.tx)
    /\ CheckForSellerSignature(tr, p.tx)
    /\ Complete(tr, SignPsbt(p, tr.account)) <=> (GetRole(tr) = "MAKER")

SellerCanSign(tr, p) ==
    /\ tr.state = "INITIATED" /\ GetOrderType(tr) = "ASK"
    /\ tr.sellerData # {} /\ p \in tr.theirPsbt /\ tr.ourPsbt = {}
    /\ SellerAgrees(tr, p)

TakerSignsSaleNotPending(t, tr) ==
    \E p \in tr.theirPsbt :
        LET signed == SignPsbt(p, tr.account) IN
        /\ GetRole(tr) = "TAKER"
        /\ SellerCanSign(tr, p)
        /\ trades' = Put(t, [tr EXCEPT !.ourPsbt = {signed}])
        /\ msgs' = msgs \cup {ReplyFor(tr, {}, {}, {signed})}
        /\ UNCHANGED <<locked, mempool>>

(* Seller and taker: sign and send the half-signed transaction back.  *)
TakerSignsSale(t, tr) ==
    \E p \in tr.theirPsbt :
        LET signed == SignPsbt(p, tr.account) IN
        /\ GetRole(tr) = "TAKER"
        /\ SellerCanSign(tr, p)
        /\ trades' = Put(t, [tr EXCEPT !.ourPsbt = {signed}, !.state = "PENDING"])
        /\ msgs' = msgs \cup {ReplyFor(tr, {}, {}, {signed})}
        /\ UNCHANGED <<locked, mempool>>

BuyerCanConstruct(tr) ==
    /\ tr.state = "INITIATED" /\ GetOrderType(tr) = "BID"
    /\ tr.sellerData # {} /\ tr.ourPsbt = {}
    /\ CheckForBuyerTrade(tr)

(* The coins walletcreatefundedpsbt may choose from.  *)
Fundable(a) ==
    {c \in Coin : /\ CoinOut(a, c) \notin spent \cup locked[a]
                  /\ \A y \in mempool : y.coin # CoinOut(a, c)}

(* The unsigned transaction for the trade, spending the name output that   *)
(* CheckForBuyerTrade has seen.                                            *)
ConstructTransaction(t, tr, addr, c) ==
    [order |-> tr.order, units |-> tr.units, buyer |-> tr.account,
     name |-> NameOut(tr.counterparty, nameVer[tr.counterparty]),
     coin |-> CoinOut(tr.account, c), addr |-> addr, change |-> t]

FundAndSignNotStored(t, tr, shared, state) ==
    \E c \in Fundable(tr.account), addr \in tr.sellerData :
        LET x == ConstructTransaction(t, tr, addr, c) IN
        /\ BuyerCanConstruct(tr)
        /\ Lock(tr.account, {x.coin})
        /\ trades' = Put(t, [tr EXCEPT !.state = state])
        /\ msgs' = msgs \cup {ReplyFor(tr, {}, {}, {[tx |-> x, sigs |-> shared]})}
        /\ UNCHANGED mempool

(* The buyer funds, locks and signs the transaction; "shared" are the      *)
(* signatures it sends, "state" the state of the trade then.               *)
FundAndSign(t, tr, shared, state) ==
    \E c \in Fundable(tr.account), addr \in tr.sellerData :
        LET x == ConstructTransaction(t, tr, addr, c) IN
        /\ BuyerCanConstruct(tr)
        /\ Lock(tr.account, {x.coin})
        /\ trades' = Put(t, [tr EXCEPT !.state = state,
                        !.ourPsbt = {[tx |-> x, sigs |-> {tr.account}]}])
        /\ msgs' = msgs \cup {ReplyFor(tr, {}, {}, {[tx |-> x, sigs |-> shared]})}
        /\ UNCHANGED mempool

BuyerConstructsNotPending(t, tr) ==
    FundAndSign(t, tr, IF GetRole(tr) = "TAKER" THEN {tr.account} ELSE {},
                "INITIATED")
BuyerConstructsShared(t, tr) ==
    FundAndSign(t, tr, {tr.account},
                IF GetRole(tr) = "TAKER" THEN "PENDING" ELSE "INITIATED")
BuyerConstructsUnsigned(t, tr) ==
    FundAndSign(t, tr, {},
                IF GetRole(tr) = "TAKER" THEN "PENDING" ELSE "INITIATED")

(* As the taker the buyer shares its signature, as the maker only the      *)
(* unsigned transaction.                                                   *)
BuyerConstructs(t, tr) ==
    \/ GetRole(tr) = "TAKER" /\ FundAndSign(t, tr, {tr.account}, "PENDING")
    \/ GetRole(tr) = "MAKER" /\ FundAndSign(t, tr, {}, "INITIATED")

SigsFor(psbts, x) == UNION {p.sigs : p \in {q \in psbts : q.tx = x}}

(* The fully signed transactions a maker can finalise: as the seller the   *)
(* psbt it signed itself (now, or in an earlier call whose broadcast was   *)
(* refused), as the buyer the combination of both psbts, which must be for *)
(* the same transaction.                                                   *)
FinalPsbts(tr) ==
    IF GetRole(tr) # "MAKER" \/ tr.state # "INITIATED" THEN {}
    ELSE IF GetOrderType(tr) = "ASK"
    THEN tr.ourPsbt \cup {SignPsbt(p, tr.account) :
                            p \in {q \in tr.theirPsbt : SellerCanSign(tr, q)}}
    ELSE {[p EXCEPT !.sigs = @ \cup SigsFor(tr.theirPsbt, p.tx)] :
            p \in {q \in tr.ourPsbt : \E r \in tr.theirPsbt : r.tx = q.tx}}

(* The record of a maker that finalises p: the seller has stored p.  *)
WithFinal(tr, p) ==
    IF GetOrderType(tr) = "ASK" THEN [tr EXCEPT !.ourPsbt = {p}] ELSE tr

MakerBroadcastsNotPending(t, tr) ==
    \E p \in FinalPsbts(tr) :
        /\ Complete(tr, p)
        /\ Accepts(p.tx)
        /\ mempool' = mempool \cup {p.tx}
        /\ trades' = Put(t, WithFinal(tr, p))
        /\ UNCHANGED <<locked, msgs>>

(* The maker broadcasts the complete transaction.  *)
MakerBroadcasts(t, tr) ==
    \E p \in FinalPsbts(tr) :
        /\ Complete(tr, p)
        /\ Accepts(p.tx)
        /\ mempool' = mempool \cup {p.tx}
        /\ trades' = Put(t, [WithFinal(tr, p) EXCEPT !.state = "PENDING"])
        /\ UNCHANGED <<locked, msgs>>

(* The network refuses it: the exception leaves the trade INITIATED, to be *)
(* retried with the next message or timed out.                             *)
BroadcastRefused(t, tr) ==
    \E p \in FinalPsbts(tr) :
        /\ Complete(tr, p)
        /\ ~Accepts(p.tx) \/ "throw" \in Faults
        /\ trades' = Put(t, WithFinal(tr, p))
        /\ UNCHANGED <<locked, msgs, mempool>>

(* HasReply finds nothing to do, or a check fails.  *)
Waits(tr) ==
    \/ tr.state # "INITIATED"
    \/ /\ NeedsSellerData(tr)
       /\ NameOut(tr.account, nameVer[tr.account]) \in locked[tr.account]
    \/ /\ GetOrderType(tr) = "BID"
       /\ \/ tr.sellerData = {}
          \/ /\ tr.ourPsbt = {}
             /\ ~CheckForBuyerTrade(tr) \/ Fundable(tr.account) = {}
          \/ tr.ourPsbt # {} /\ \A p \in FinalPsbts(tr) : ~Complete(tr, p)
    \/ /\ GetOrderType(tr) = "ASK" /\ tr.sellerData # {} /\ tr.ourPsbt = {}
       /\ \A p \in tr.theirPsbt : ~SellerAgrees(tr, p)

(* No reply.  A taker's first message is sent in any case.  An exception   *)
(* before any effect looks the same when a message is being processed, and *)
(* so does CheckForBuyerSignature when it rejects what the wallet signed,  *)
(* as the inputs are then unlocked again.                                  *)
NoReply(t, tr, taking) ==
    /\ Waits(tr) \/ ("throw" \in Faults /\ taking = {})
    /\ trades' = Put(t, tr)
    /\ msgs' = IF taking = {} THEN msgs
               ELSE msgs \cup {ReplyFor(tr, taking, {}, {})}
    /\ UNCHANGED <<locked, mempool>>

(* A call throws after an earlier one locked an output: getnewaddress      *)
(* after lockunspent, or any call between walletcreatefundedpsbt and the   *)
(* point where the psbt is stored.                                         *)
ThrowsAfterLock(t, tr) ==
    /\ "throw" \in Faults
    /\ \/ /\ NeedsSellerData(tr)
          /\ NameOut(tr.account, nameVer[tr.account]) \notin locked[tr.account]
          /\ Lock(tr.account, {NameOut(tr.account, nameVer[tr.account])})
       \/ /\ BuyerCanConstruct(tr)
          /\ \E c \in Fundable(tr.account) :
                Lock(tr.account, {CoinOut(tr.account, c)})
    /\ UNCHANGED <<msgs, mempool>>

(* sendrawtransaction took effect, but its reply is lost.  *)
BroadcastReplyLost(t, tr) ==
    \E p \in FinalPsbts(tr) :
        /\ "lostReply" \in Faults
        /\ Complete(tr, p)
        /\ Accepts(p.tx)
        /\ mempool' = mempool \cup {p.tx}
        /\ trades' = Put(t, WithFinal(tr, p))
        /\ UNCHANGED <<locked, msgs>>

HasReply(t, tr) ==
    \/ CreateSellerData(t, tr, {})
    \/ TakerSignsSale(t, tr)
    \/ BuyerConstructs(t, tr)
    \/ MakerBroadcasts(t, tr)
    \/ BroadcastRefused(t, tr)
    \/ NoReply(t, tr, {})
    \/ ThrowsAfterLock(t, tr) /\ trades' = Put(t, tr)
    \/ BroadcastReplyLost(t, tr)

-----------------------------------------------------------------------------
(* The operations of TradeManager *)

(* The user of account a takes u units of the order o of somebody else, as *)
(* seen on the order book.  If an RPC call throws, there is no trade.      *)
TakeOrder(a, o, u) ==
    \E t \in TradeId :
        LET tr == NewTrade(a, o, Maker[o], u) IN
        /\ IsNextId(t)
        /\ a \in running
        /\ ownOrder[o] # "none"
        /\ CheckOrder(o, u)
        /\ Maker[o] # a
        /\ \/ CreateSellerData(t, tr, {u})
           \/ NoReply(t, tr, {u})
           \/ ThrowsAfterLock(t, tr) /\ UNCHANGED trades
        /\ UNCHANGED <<finalised, ownOrder, maxUnits, running, chainVars>>

(* A message that takes one of our orders locks it and starts a trade,     *)
(* which then processes the message like any other.                        *)
OrderTaken(m) ==
    \E u \in m.taking, t \in TradeId :
        LET tr == NewTrade(m.to, m.order, m.from, u) IN
        /\ m.to \in running
        /\ ownOrder[m.order] = "open"
        /\ CheckOrder(m.order, u)
        /\ IsNextId(t)
        /\ ownOrder' = [ownOrder EXCEPT ![m.order] = "locked"]
        /\ HasReply(t, HandleMessage(tr, m))
        /\ UNCHANGED <<finalised, maxUnits, running, chainVars>>

(* Any other message goes to the first active trade it matches.            *)
Process(m) ==
    \E t \in DOMAIN trades :
        /\ m.to \in running
        /\ m.taking = {}
        /\ Matches(t, m)
        /\ \A s \in DOMAIN trades : Matches(s, m) => t <= s
        /\ HasReply(t, HandleMessage(trades[t], m))
        /\ UNCHANGED <<finalised, ownOrder, maxUnits, running, chainVars>>

ProcessMessage(m) == OrderTaken(m) \/ Process(m)

(* The periodic update ends a trade.  It is archived at once; the clean up *)
(* below follows later, outside of the lock.                               *)
Finalise(t, state) ==
    /\ trades[t].account \in running
    /\ trades' = Put(t, [trades[t] EXCEPT !.state = state])
    /\ finalised' = finalised \cup {t}
    /\ UNCHANGED <<ownOrder, maxUnits, running, locked, msgs, mempool, chainVars>>

Abandon(t) == trades[t].state = "INITIATED" /\ Finalise(t, "ABANDONED")

UpdatePendingNoFailure(t) ==
    \E p \in trades[t].ourPsbt :
        /\ trades[t].state = "PENDING"
        /\ p.tx \in confirmed /\ Finalise(t, "SUCCESS")

UpdatePending(t) ==
    \E p \in trades[t].ourPsbt :
        /\ trades[t].state = "PENDING"
        /\ \/ p.tx \in confirmed /\ Finalise(t, "SUCCESS")
           \/ /\ p.tx \notin OnChain
              /\ Inputs(p.tx) \cap spent # {}
              /\ Finalise(t, "FAILED")

(* The outputs that HandleFailure unlocks.  *)
HeldOutputs(tr) ==
    tr.nameOutput \cup
    (IF GetOrderType(tr) = "BID" THEN UNION {Inputs(p.tx) : p \in tr.ourPsbt} ELSE {})

(* The failed or abandoned trade t is to be cleaned up.  *)
Failed(t) ==
    /\ t \in finalised /\ trades[t].state \in {"ABANDONED", "FAILED"}
    /\ trades[t].account \in running

(* The orders that HandleFailure unlocks.  *)
HeldOrders(tr) == IF GetRole(tr) = "MAKER" THEN {tr.order} ELSE {}

Release(t, own, outs) ==
    /\ Failed(t)
    /\ \A o \in own : ownOrder[o] = "locked"
    /\ finalised' = finalised \ {t}
    /\ ownOrder' = [o \in Order |-> IF o \in own THEN "open" ELSE ownOrder[o]]
    /\ locked' = [locked EXCEPT ![trades[t].account] = @ \ outs]
    /\ UNCHANGED <<trades, maxUnits, running, msgs, mempool, chainVars>>

(* The order has been removed: the CHECK in Unlock aborts the daemon, so   *)
(* that nothing is cleaned up.                                             *)
UnlockFails(t) ==
    /\ Failed(t)
    /\ \E o \in HeldOrders(trades[t]) : ownOrder[o] # "locked"
    /\ running' = running \ {trades[t].account}
    /\ UNCHANGED <<trades, finalised, ownOrder, maxUnits, locked, msgs, mempool, chainVars>>

HandleFailureOrderOnly(t) == Release(t, HeldOrders(trades[t]), {}) \/ UnlockFails(t)
HandleFailureAnyRole(t) == Release(t, {trades[t].order}, HeldOutputs(trades[t]))

(* The maker's order is unlocked, and so are the outputs.  *)
HandleFailure(t) ==
    Release(t, HeldOrders(trades[t]), HeldOutputs(trades[t])) \/ UnlockFails(t)

(* The order that a maker adds for what is left of the order o: its data   *)
(* is that of o, except for the id and the amount.                         *)
IsFreshCopy(n, o) ==
    /\ ownOrder[n] = "none"
    /\ Maker[n] = Maker[o] /\ Type[n] = Type[o] /\ MinUnits[n] = MinUnits[o]

(* The maker removes its order, if it is still there.  For what is left of *)
(* it, it adds an order, which is refused if it is not valid any more.     *)
Settle(t, rest) ==
    LET tr == trades[t]
        removed == [ownOrder EXCEPT ![tr.order] = "gone"]
        readd == rest > 0 /\ rest >= MinUnits[tr.order] IN
    /\ t \in finalised /\ tr.state = "SUCCESS" /\ tr.account \in running
    /\ finalised' = finalised \ {t}
    /\ \/ /\ GetRole(tr) = "MAKER" /\ readd
          /\ \E n \in Order :
                /\ IsFreshCopy(n, tr.order)
                /\ ownOrder' = [removed EXCEPT ![n] = "open"]
                /\ maxUnits' = [maxUnits EXCEPT ![n] = rest]
       \/ /\ GetRole(tr) = "MAKER"
          /\ ownOrder' = removed
          /\ UNCHANGED maxUnits
       \/ GetRole(tr) = "TAKER" /\ UNCHANGED <<ownOrder, maxUnits>>
    /\ UNCHANGED <<trades, running, locked, msgs, mempool, chainVars>>

HandleSuccessNotReduced(t) == Settle(t, maxUnits[trades[t].order])
HandleSuccess(t) == Settle(t, maxUnits[trades[t].order] - trades[t].units)

(* The user cancels an order, or RunRefresh drops it because it is not     *)
(* valid any more.  Neither cares about a trade that has locked it.        *)
RemoveOrder(o) ==
    /\ Maker[o] \in running
    /\ ownOrder[o] \in {"open", "locked"}
    /\ ownOrder' = [ownOrder EXCEPT ![o] = "gone"]
    /\ UNCHANGED <<trades, finalised, maxUnits, running, locked, msgs, mempool, chainVars>>

-----------------------------------------------------------------------------
(* The blockchain, as the code uses it *)

(* The outputs outs are spent: conflicting transactions leave the mempool. *)
SpendOutputs(outs) ==
    /\ spent' = spent \cup outs
    /\ mempool' = {y \in mempool : Inputs(y) \cap outs = {}}

(* A trade is confirmed.  The seller may have sold all it had, the buyer   *)
(* may now have enough for an order of its own.                            *)
Mine(x) ==
    LET seller == x.name.own IN
    /\ x \in mempool
    /\ SpendOutputs(Inputs(x))
    /\ confirmed' = confirmed \cup {x}
    /\ nameVer' = [nameVer EXCEPT ![seller] = @ + 1]
    /\ \E kept \in {holds, holds \ {seller}} :
          holds' \in {kept, kept \cup {x.buyer}}
    /\ UNCHANGED <<trades, finalised, ownOrder, maxUnits, running, locked, msgs>>

(* An account updates its name outside of a trade, with a move that may    *)
(* change what it owns.                                                    *)
SpendName(a) ==
    /\ NameOut(a, nameVer[a]) \in Outside
    /\ SpendOutputs({NameOut(a, nameVer[a])})
    /\ nameVer' = [nameVer EXCEPT ![a] = @ + 1]
    /\ holds' \in {holds \cup {a}, holds \ {a}}
    /\ UNCHANGED <<trades, finalised, ownOrder, maxUnits, running, locked, msgs,
                   confirmed>>

(* An account spends a coin outside of a trade, for instance to cancel a   *)
(* trade for which it has signed.                                          *)
SpendCoin(a, c) ==
    /\ CoinOut(a, c) \in Outside \ spent
    /\ SpendOutputs({CoinOut(a, c)})
    /\ UNCHANGED <<trades, finalised, ownOrder, maxUnits, running, locked, msgs,
                   confirmed, nameVer, holds>>

-----------------------------------------------------------------------------
Init ==
    /\ trades = [t \in {} |-> {}]
    /\ finalised = {}
    /\ ownOrder = [o \in Order |-> IF InitUnits[o] > 0 THEN "open" ELSE "none"]
    /\ maxUnits = InitUnits
    /\ running = Account
    /\ locked = [a \in Account |-> {}]
    /\ msgs = {}
    /\ nameVer = [a \in Account |-> 0]
    /\ spent = {} /\ mempool = {} /\ confirmed = {}
    /\ holds = Account

Next ==
    \/ \E a \in Account, o \in Order, u \in Units : TakeOrder(a, o, u)
    \/ \E m \in msgs : ProcessMessage(m)
    \/ \E t \in DOMAIN trades :
          Abandon(t) \/ UpdatePending(t) \/ HandleFailure(t) \/ HandleSuccess(t)
    \/ \E o \in Removable : RemoveOrder(o)
    \/ \E x \in mempool : Mine(x)
    \/ \E a \in Account : SpendName(a)
    \/ \E a \in Account, c \in Coin : SpendCoin(a, c)

Spec == Init /\ [][Next]_vars

(***************************************************************************)
(* Fairness.  The updater thread runs periodically and miners confirm what *)
(* is in the mempool; users need not do anything.  That trades time out,   *)
(* and that messages arrive, is a premise of the property that needs it.   *)
(***************************************************************************)
Updater == \E t \in DOMAIN trades :
    UpdatePending(t) \/ HandleFailure(t) \/ HandleSuccess(t)
Updates == WF_vars(Updater) /\ WF_vars(\E x \in mempool : Mine(x))
Timeouts == WF_vars(\E t \in DOMAIN trades : Abandon(t))
Delivery == WF_vars(\E m \in msgs : ProcessMessage(m))

UpdateSpec == Spec /\ Updates

-----------------------------------------------------------------------------
(* Properties *)

TypeOK ==
    /\ \E n \in 0 .. MaxTrades : trades \in [1 .. n -> TradeState]
    /\ finalised \subseteq DOMAIN trades
    /\ ownOrder \in [Order -> {"none", "open", "locked", "gone"}]
    /\ maxUnits \in [Order -> Nat]
    /\ running \subseteq Account
    /\ locked \in [Account -> SUBSET Output]
    /\ msgs \subseteq Message
    /\ nameVer \in [Account -> Nat]
    /\ spent \subseteq Output
    /\ mempool \subseteq Tx /\ confirmed \subseteq Tx
    /\ holds \subseteq Account

(* The trade t regards the transaction x as its own and counts on it.      *)
Backs(t, x) ==
    /\ t \in DOMAIN trades
    /\ trades[t].state \in {"PENDING", "SUCCESS"}
    /\ x \in {p.tx : p \in trades[t].ourPsbt}
    /\ trades[t].order = x.order /\ trades[t].units = x.units

(* A transaction that Trade::HasReply has put on the network always        *)
(* settles one trade of each of two accounts: both agreed on its order and *)
(* amount, name each other as counterparty, and neither ever ends          *)
(* ABANDONED or FAILED.                                                    *)
AtomicTrade ==
    \A x \in OnChain :
        /\ Backs(x.addr, x) /\ Backs(x.change, x)
        /\ trades[x.addr].account = x.name.own
        /\ trades[x.addr].counterparty = x.buyer
        /\ trades[x.change].account = x.buyer
        /\ trades[x.change].counterparty = x.name.own

(* When Trade::Update abandons a trade after the timeout, nobody else has  *)
(* or can get the signature of the account on a transaction of that trade: *)
(* the outputs that HandleFailure unlocks cannot be spent by it later.     *)
AbandonedIsSafe ==
    \A t \in DOMAIN trades : trades[t].state = "ABANDONED" =>
        /\ \A x \in OnChain : t \notin {x.addr, x.change}
        /\ \A m \in msgs : \A p \in m.psbt :
              t \in {p.tx.addr, p.tx.change} => trades[t].account \notin p.sigs

(* The maker never gives away its signature (HasReply shares the unsigned  *)
(* psbt as maker and buyer): it alone decides until it broadcasts.         *)
TakerSignsFirst ==
    \A m \in msgs : \A p \in m.psbt : Maker[m.order] \notin p.sigs

(* The trades that have not been cleaned up yet.  *)
Unreleased == {t \in DOMAIN trades : ~IsFinalised(trades[t]) \/ t \in finalised}

(* An unspent output is locked in the wallet exactly while some trade of   *)
(* the account holds it: CreateSellerData and walletcreatefundedpsbt lock, *)
(* HandleFailure unlocks.                                                  *)
LocksHeld ==
    \A a \in Account :
        locked[a] \ spent =
        {out \in UNION {HeldOutputs(trades[t]) :
                        t \in {u \in Unreleased : trades[u].account = a}} :
            out.own = a} \ spent

(* Two active trades of an account never use the same output, even when    *)
(* RPC calls fail halfway: no trade can double spend another one.          *)
NoInputShared ==
    \A s, t \in Unreleased :
        s # t /\ trades[s].account = trades[t].account =>
            {out \in HeldOutputs(trades[s]) \cap HeldOutputs(trades[t]) :
                out.own = trades[s].account} \subseteq spent

(* TryLock, Unlock and RemoveById keep the lock of an own order in step    *)
(* with the trades, although orders can be removed while they are being    *)
(* sold: at most one trade of the maker is negotiating about an order or   *)
(* waiting to be cleaned up, none if the order is on offer, and always one *)
(* that will unlock it if it is locked.                                    *)
OrderLocked ==
    \A o \in Order :
        LET ts == {t \in Unreleased : /\ trades[t].order = o
                                      /\ trades[t].account = Maker[o]} IN
        /\ ownOrder[o] = "locked" => ts # {}
        /\ ownOrder[o] \in {"none", "open"} => ts = {}
        /\ \A s, t \in ts : s = t

(* CheckForBuyerTrade: when a trade is confirmed the seller still owns the *)
(* assets, whatever happened between the check and the block; otherwise    *)
(* the buyer would have paid for nothing.                                  *)
PaidForGoods ==
    [][\A x \in confirmed' \ confirmed : x.name.own \in holds]_vars

(* An own order does not stay locked: the maker's trade times out, or its  *)
(* transaction is confirmed or conflicted, and the handlers unlock or      *)
(* remove the order, also if the reply to sendrawtransaction was lost; or  *)
(* the CHECK in Unlock has aborted the daemon.                             *)
OrderReleased ==
    Timeouts => \A o \in Order :
        []<>(ownOrder[o] # "locked" \/ Maker[o] \notin running)

TakenTwice ==
    \E s, t \in DOMAIN trades :
        /\ s # t /\ trades[s].account = trades[t].account
        /\ trades[s].order = trades[t].order

(* An output was spent, but not by a trade.  *)
SpentElsewhere == \E out \in spent : \A x \in confirmed : out \notin Inputs(x)

Completed(t) == \E x \in OnChain : t \in {x.addr, x.change}

GetSeller(tr) == IF GetOrderType(tr) = "ASK" THEN tr.account ELSE tr.counterparty

(* The order was removed before its maker started a trade.                 *)
Withdrawn(o) ==
    /\ ownOrder[o] = "gone"
    /\ \A s \in DOMAIN trades : trades[s].order = o => GetRole(trades[s]) # "MAKER"

(* When the seller of o started its trade, its name output was locked for  *)
(* another sale, so that CreateSellerData failed.  It is not tried again.  *)
NameWasLocked(o) ==
    \E s, r \in DOMAIN trades :
        /\ trades[s].order = o /\ NeedsSellerData(trades[s])
        /\ r # s /\ trades[r].account = trades[s].account
        /\ trades[r].nameOutput # {}

(* If all messages arrive, no trade times out, nobody takes an order twice *)
(* or sells what it does not have any more, and nothing is spent           *)
(* elsewhere, then every trade ends up with its transaction on the         *)
(* network: HasReply of the two sides never waits for each other.  There   *)
(* are two exceptions, in which a trade is left to the timeout: the order  *)
(* was removed meanwhile, or the seller was selling something else already *)
(* when the trade began.                                                   *)
TradeCompletes ==
    Delivery => []<>
        \/ \E t \in DOMAIN trades :
              \/ trades[t].state = "ABANDONED"
              \/ ~Completed(t) /\ GetSeller(trades[t]) \notin holds
        \/ TakenTwice \/ SpentElsewhere
        \/ \A t \in DOMAIN trades :
              LET o == trades[t].order IN
              Completed(t) \/ Withdrawn(o) \/ NameWasLocked(o)

=============================================================================
