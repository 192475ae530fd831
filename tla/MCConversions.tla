--------------------------- MODULE MCConversions ---------------------------
(***************************************************************************)
(* Applies the conversions of Authenticator, OrderJson and NfAssetSpec to  *)
(* all inputs from small sets, one per step, and compares the results with *)
(* what they are supposed to be.                                           *)
(***************************************************************************)
EXTENDS OrderJson, Authenticator

CONSTANTS
    newline, null,
    Char,           \* the characters of user names
    MaxName,        \* bound on the length of user names
    MaxAccount,     \* bound on the length of account names
    MaxAsset,       \* bound on the length of the strings of assets
    BookAccount,    \* the accounts in the order book
    BookId,         \* the IDs of their orders
    Price,          \* the prices of the orders
    OwnId           \* the IDs of one's own orders

Nf == INSTANCE NfAssetSpec

VARIABLE query      \* the last conversion, its input and its result

Units == 0 .. 2 * Limit - 1
Number == Units \cup {Unset}

Order ==
    [account : {Unset}, id : {Unset, 1, Limit}, asset : {1},
     min_units : Number, max_units : Number, price_sat : Number,
     type : {"ask", "bid"}, locked : {Unset, TRUE}]

BookOrder ==
    [account : {Unset}, id : {Unset}, asset : {1, 2},
     min_units : {Unset}, max_units : {1}, price_sat : Price,
     type : {"ask", "bid"}, locked : {Unset}]

(* The JSON objects that orders are converted to.                          *)
OrderObject ==
    [account : {Unset}, id : Int \cup {Unset}, asset : {1},
     min_units : Int, max_units : Int, price_sat : Int,
     type : {"ask", "bid"}, locked : {Unset, TRUE}]

(* Characters are bytes, one of the servers is trusted, and a failure can  *)
(* be told from a result.                                                  *)
ASSUME ConversionsAssumption ==
    Char \subseteq 0 .. 255 /\ "xid" \in xidServers /\ Invalid \notin OrderObject

(* The numbers in the book fit into the signed type of JSON.  Accounts are *)
(* numbers here, so that they can be compared.                             *)
ASSUME BookAssumption ==
    /\ BookAccount \subseteq Int /\ IsFiniteSet(BookAccount)
    /\ BookId \subseteq 0 .. Limit - 1 /\ Price \subseteq 0 .. Limit - 1
    /\ OwnId \subseteq Units

ShortName(n) == SeqOf(Char, n)

(* The XID encoding of an account name, of which DecodeName is the inverse. *)
HexChar(v) == IF v < 10 THEN 48 + v ELSE 97 + v - 10
Hex(name) ==
    [i \in 1 .. 2 * Len(name) |->
        LET c == name[(i + 1) \div 2] IN HexChar(IF i % 2 = 1 THEN c \div 16 ELSE c % 16)]
EncodeName(name) ==
    IF name # <<>> /\ \A i \in DOMAIN name : IsSimpleChar(name[i])
      THEN name ELSE ENCODED_PREFIX \o Hex(name)

-----------------------------------------------------------------------------
Do(op, in, out) == query' = [op |-> op, in |-> in, out |-> out]

AuthenticateJid ==
    \E name \in ShortName(MaxName), server \in {"xid", "other"} :
        LET jid == [username |-> name, server |-> server] IN
        Do("jid", jid, Authenticate(jid))

AuthenticateAccount ==
    \E name \in ShortName(MaxAccount) :
        Do("account", name, Authenticate([username |-> EncodeName(name), server |-> "xid"]))

(* An order that is valid for the account, for the one asset that exists,  *)
(* is shown, and the JSON is passed back as an order to take or to add.    *)
ConvertOrder ==
    \E o \in Order, balance \in {0, 1, Limit - 1},
       str \in {<<newline>>, <<newline, "a">>, <<"a">>} :
        LET minted == {Nf!GetNfAsset(<<newline>>)}
            balances == [a \in {Nf!GetNfAsset(str)} |-> balance]
            canSell == [n \in -Limit .. Limit - 1 |-> Nf!CanSell(str, n, balances)]
            json == OrderToJson(o) IN
        /\ ValidateOrder(o, Nf!IsAsset(str, minted), Nf!CanBuy, canSell)
        /\ Do("order", o, IF json = Invalid THEN [json |-> Invalid]
                          ELSE [json |-> json, back |-> OrderFromJson(json)])

ShowBook ==
    \E book \in [BookAccount -> UNION {[S -> BookOrder] : S \in SUBSET BookId}],
       asset \in {1, 2}, type \in {"ask", "bid"} :
        \E side \in GetForAsset(book, asset, type) :
            Do("book", [book |-> book, asset |-> asset, type |-> type],
               OrderbookSideToJson(side))

ShowOwnOrders ==
    \E ids \in SUBSET OwnId : \E orders \in [ids -> BookOrder] :
        Do("own", orders, OrdersOfAccountToJson(orders))

SplitAsset ==
    \E str \in SeqOf({newline, "a", "b"}, MaxAsset) :
        Do("asset", str, [asset |-> Nf!GetNfAsset(str),
                          move |-> Nf!GetTransferMove(str, 1, "buyer")])

Init == query = [op |-> "none"]

Next ==
    /\ query.op = "none"
    /\ \/ AuthenticateJid \/ AuthenticateAccount
       \/ ConvertOrder \/ ShowBook \/ ShowOwnOrders \/ SplitAsset

Spec == Init /\ [][Next]_query

-----------------------------------------------------------------------------
(* Properties *)

(* User names on a trusted server and accounts correspond one to one:      *)
(* Authenticate accepts just the encoding of an account name, so that      *)
(* nobody has the account of another user name, and no account is without  *)
(* one, not even the empty one or those that need the encoding.            *)
AccountIsUnique ==
    /\ query.op = "jid" /\ query.out # NoAccount =>
          /\ query.in.server \in xidServers
          /\ query.in.username = EncodeName(query.out)
    /\ query.op = "account" => query.out = query.in

(* What an order is after its way to a client and back: the minimum is     *)
(* filled in, and the lock is dropped.                                     *)
Normalised(o) ==
    [o EXCEPT !.min_units = Get(@, 1), !.price_sat = Get(@, 0), !.locked = Unset]

Numbers(o) == {o.id, o.min_units, o.max_units, o.price_sat} \ {Unset}

(* An order that ValidateOrder accepts never fails the CHECK when it is    *)
(* shown, and comes back as the same order.  Numbers that do not fit into  *)
(* the signed type of JSON are refused then, and never changed silently.   *)
OrderRoundTrip ==
    query.op = "order" =>
        /\ query.out.json # Invalid
        /\ query.out.back \in {Normalised(query.in), Invalid}
        /\ (\A n \in Numbers(query.in) : n < Limit) => query.out.back # Invalid

(* A side of the order book lists each matching order exactly once, with   *)
(* the account and ID to take it, best price first, and in an order that   *)
(* does not depend on the iteration over the maps.                         *)
BookListed(in, out) ==
    LET back == [i \in DOMAIN out |->
            OrderFromJson([out[i] EXCEPT !.asset = in.asset, !.type = in.type])] IN
    /\ Range(back) = {Normalised(e) : e \in {x \in Entries(in.book) :
                            x.asset = in.asset /\ x.type = in.type}}
    /\ IsInjective(back)
    /\ \A i, j \in DOMAIN back : i < j =>
          IF in.type = "ask" THEN back[i].price_sat <= back[j].price_sat
                             ELSE back[i].price_sat >= back[j].price_sat
    /\ Cardinality(GetForAsset(in.book, in.asset, in.type)) = 1

(* One's own orders are listed, sorted, with the IDs under which they can  *)
(* be cancelled, unless the ID does not fit into the signed type of JSON.  *)
OwnOrdersListed(orders, out) ==
    /\ Len(out) = Cardinality(DOMAIN orders)
    /\ \A id \in DOMAIN orders : id < Limit =>
          \E i \in DOMAIN out :
              OrderFromJson(out[i]) = [Normalised(orders[id]) EXCEPT !.id = id]
    /\ \A i, j \in DOMAIN out :
          i < j /\ 0 <= out[i].id /\ 0 <= out[j].id => out[i].id < out[j].id

(* The listings that getordersforasset and getownorders reply with, from   *)
(* the getters of OrderBook and ProtoToJson, are complete and in order.    *)
OrdersAreListed ==
    /\ query.op = "book" => BookListed(query.in, query.out)
    /\ query.op = "own" => OwnOrdersListed(query.in, query.out)

(* The string of an asset is split into minter and name without losing     *)
(* anything, even if the name contains newlines, and the move is about     *)
(* the very asset that has been checked.                                   *)
AssetIsSplit ==
    query.op = "asset" =>
        LET asset == query.out.asset IN
        IF newline \in Range(query.in)
          THEN /\ newline \notin Range(asset.m)
               /\ asset.m \o <<newline>> \o asset.a = query.in
               /\ query.out.move.t.a = asset
          ELSE asset = null
=============================================================================
