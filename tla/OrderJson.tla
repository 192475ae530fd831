----------------------------- MODULE OrderJson -----------------------------
(***************************************************************************)
(* What happens to an order between the RPC interface and the order book:  *)
(* the conversion from and to JSON (src/src/json.cpp), the check that it   *)
(* is valid (Daemon::Impl::ValidateOrder) and the views of the order book  *)
(* that the RPC methods return (src/src/orderbook.cpp).                    *)
(*                                                                         *)
(* A field of an order, or a member of a JSON object, that is not set has  *)
(* the value Unset.  Numbers are unsigned with Width bits in an order, but *)
(* are converted to signed ones for JSON.                                  *)
(***************************************************************************)
EXTENDS Integers, SequencesExt

CONSTANTS
    Width,      \* number of bits of the integer types
    Unset,      \* a field that is not set
    Invalid     \* the result of a conversion that fails

ASSUME OrderJsonAssumption == Width \in Nat /\ Width > 1 /\ Unset \notin Int

Limit == 2 ^ (Width - 1)

(* That it is a number is stated here for the provers, to which powers are *)
(* opaque.                                                                 *)
ASSUME LimitAssumption == Limit \in Nat /\ Limit > 1

Signed(n) == IF n < Limit THEN n ELSE n - 2 * Limit

(* Only half of the bits are kept.                                         *)
IntToJsonNarrow(n) == Signed(n) % Limit
IntToJson(n) == Signed(n)

IsUInt64(v) == v # Unset /\ v >= 0

Get(field, default) == IF field = Unset THEN default ELSE field
Max2(a, b) == IF a < b THEN b ELSE a

-----------------------------------------------------------------------------
(* Orders *)

MapSet(field) == IF field = Unset THEN Unset ELSE IntToJson(field)

(* Invalid stands for the CHECK that fails here.                           *)
OrderToJson(o) ==
    LET max == Get(o.max_units, 0) IN
    IF max >= Max2(1, Signed(Get(o.min_units, 0)))
      THEN [o EXCEPT !.id = MapSet(@),
                     !.min_units = IF @ = Unset THEN IntToJson(1) ELSE IntToJson(@),
                     !.max_units = IntToJson(max),
                     !.price_sat = IntToJson(Get(@, 0)),
                     !.locked = IF @ = TRUE THEN TRUE ELSE Unset]
      ELSE Invalid

OrderFromJson(val) ==
    IF /\ \A v \in {val.id, val.min_units} : v = Unset \/ IsUInt64(v)
       /\ IsUInt64(val.max_units)
       /\ IsUInt64(val.price_sat)
       /\ val.type \in {Unset, "ask", "bid"}
      THEN [val EXCEPT !.locked = Unset]
      ELSE Invalid

UnitsValid(o) ==
    /\ Get(o.max_units, 0) # 0
    /\ o.min_units # Unset => o.min_units # 0 /\ o.min_units <= o.max_units

(* isAsset, canBuy and canSell[n] are the answers of the AssetSpec, which  *)
(* has the signed type Amount for the units.  An order without a type is   *)
(* fatal here, if it gets that far.                                        *)
ValidateOrder(o, isAsset, canBuy, canSell) ==
    /\ UnitsValid(o)
    /\ o.price_sat # Unset
    /\ isAsset
    /\ CASE o.type = "bid" -> canBuy
         [] o.type = "ask" -> canSell[Signed(o.max_units)]

-----------------------------------------------------------------------------
(* The order book: book[acc] maps the IDs of the orders of the account acc *)
(* to the orders.                                                          *)

(* All orders of the book, with account and ID filled in.                  *)
Entries(book) ==
    UNION {{[book[acc][id] EXCEPT !.account = acc, !.id = id]
              : id \in DOMAIN book[acc]} : acc \in DOMAIN book}

(* Without the ID, the order of an account's orders is open.               *)
ByPriceAscNoId(a, b) ==
    \/ a.price_sat < b.price_sat
    \/ a.price_sat = b.price_sat /\ a.account < b.account

ByPriceAsc(a, b) ==
    \/ a.price_sat < b.price_sat
    \/ a.price_sat = b.price_sat /\ a.account < b.account
    \/ a.price_sat = b.price_sat /\ a.account = b.account /\ a.id < b.id

(* All that std::sort may make of the elements of S, in whatever order the *)
(* map yields them.                                                        *)
Sort(S) ==
    {s \in [1 .. Cardinality(S) -> S] :
        /\ Range(s) = S
        /\ \A i, j \in DOMAIN s : i < j => ~ByPriceAsc(s[j], s[i])}

(* The bids are sorted from the end.                                       *)
SortByPrices(S, type) == IF type = "ask" THEN Sort(S) ELSE {Reverse(s) : s \in Sort(S)}

(* The orders that are added to one side of the book for an asset.         *)
AddOrderForAsset(book, asset, type) ==
    {[o EXCEPT !.asset = Unset, !.type = Unset] :
        o \in {e \in Entries(book) : e.asset = asset /\ e.type = type}}

GetForAsset(book, asset, type) ==
    SortByPrices(AddOrderForAsset(book, asset, type), type)

OrderbookSideToJson(side) ==
    [i \in DOMAIN side |->
        [OrderToJson(side[i]) EXCEPT !.asset = Unset, !.type = Unset]]

(* The IDs in S as the map ordersById yields them.                         *)
ById(S) ==
    CHOOSE s \in [1 .. Cardinality(S) -> S] : \A i, j \in DOMAIN s : i < j => s[i] < s[j]

(* The orders of one account, in the order of their IDs.                   *)
OrdersOfAccountToJson(orders) ==
    LET ids == ById(DOMAIN orders) IN
    [i \in DOMAIN ids |->
        [OrderToJson(orders[ids[i]]) EXCEPT !.account = Unset, !.id = IntToJson(ids[i])]]
=============================================================================
