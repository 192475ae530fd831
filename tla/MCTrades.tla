------------------------------ MODULE MCTrades ------------------------------
(***************************************************************************)
(* Instances of Trades for TLC.  alice offers the orders and bob takes     *)
(* them, except in the instance in which she sells twice at once.          *)
(***************************************************************************)
EXTENDS Trades, FiniteSetsExt

AllOf(v) == [o \in Order |-> v]
MCMaker == AllOf("alice")
MCAsk == AllOf("ASK")
MCBid == AllOf("BID")
MCMinOne == AllOf(1)

(* One order to sell and one to buy.  If both are alice's, she sells in    *)
(* one and buys in the other; if the second one is bob's, she can sell     *)
(* twice at once, as the maker of her order and as the taker of his.       *)
MCMakers == [o \in Order |-> IF o = 1 THEN "alice" ELSE "bob"]
MCAskBid == [o \in Order |-> IF o = 1 THEN "ASK" ELSE "BID"]

(* Two orders for one unit each, or one order for two units.  *)
MCOnce == AllOf(1)
MCTwo == [o \in Order |-> IF o = 1 THEN 2 ELSE 0]

(* What is spent outside of trades: the name of the one who sells if all   *)
(* orders are of one type, once, or one of bob's coins.                    *)
MCName == {NameOut(IF Type[1] = "ASK" THEN "alice" ELSE "bob", 0)}
MCOneCoin == {CoinOut("bob", 1)}

(* Handling a success in MyOrders never offers more than the user did:     *)
(* what has been sold and what is still offered stay within the original   *)
(* orders, even if orders are recreated and trades fail in between.        *)
NeverOversold ==
    \A a \in Account, ty \in {"ASK", "BID"} :
        LET own == {o \in Order : Maker[o] = a /\ Type[o] = ty}
            sold == {x \in OnChain : x.order \in own}
            open == {o \in own : ownOrder[o] = "open"} IN
        MapThenSumSet(LAMBDA x : x.units, sold)
            + MapThenSumSet(LAMBDA o : maxUnits[o], open)
        <= MapThenSumSet(LAMBDA o : InitUnits[o], own)

(***************************************************************************)
(* Trades implements AtomicSwap.  A trade is committed once it is PENDING; *)
(* assets change hands with the confirmed transactions, each between the   *)
(* trade of the seller and the trade of the buyer.                         *)
(***************************************************************************)
PhaseOf(state) ==
    CASE state = "INITIATED" -> "open"
      [] state = "PENDING"   -> "committed"
      [] state = "SUCCESS"   -> "done"
      [] OTHER               -> "off"

Swap == INSTANCE AtomicSwap WITH
    Record <- TradeId,
    Owner  <- Account,
    phase  <- [t \in TradeId |-> IF t \in DOMAIN trades
                                 THEN PhaseOf(trades[t].state) ELSE "none"],
    owner  <- [t \in TradeId |-> IF t \in DOMAIN trades
                                 THEN trades[t].account ELSE "nobody"],
    swaps  <- {{x.addr, x.change} : x \in confirmed}

(* HasReply, Update and the blockchain together implement the atomic swap: *)
(* a trade can be abandoned only before its owner has committed, a block   *)
(* settles the trades of both accounts at once, and SUCCESS and FAILED say *)
(* truthfully whether that has happened.                                   *)
SwapsAtomically == Swap!Spec
=============================================================================
