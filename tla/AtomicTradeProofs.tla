-------------------------- MODULE AtomicTradeProofs --------------------------
(***************************************************************************)
(* Proofs that trades are atomic, for every set of accounts, orders and    *)
(* coins and whatever messages are lost, repeated and mixed up between     *)
(* attempts.  RPC calls may throw; that the reply of sendrawtransaction    *)
(* gets lost after the call had its effect is excluded, because then the   *)
(* properties do not hold.                                                 *)
(***************************************************************************)
EXTENDS MCTrades, TradesProofs, FiniteSetTheorems, WellFoundedInduction

NoLostReply == "lostReply" \notin Faults

-----------------------------------------------------------------------------
(* The inductive invariant *)

(* The trade s of account a has sent its own addresses to cp for order o.  *)
IsAddress(s, a, cp, o) ==
    /\ s \in DOMAIN trades
    /\ trades[s].account = a /\ trades[s].counterparty = cp /\ trades[s].order = o
    /\ GetOrderType(trades[s]) = "ASK" /\ trades[s].sellerData = {s}

(* The trade t is the purchase that has constructed the transaction x.     *)
IsBuyer(t, x) ==
    /\ t \in DOMAIN trades
    /\ trades[t].account = x.buyer /\ trades[t].counterparty = x.name.own
    /\ trades[t].order = x.order /\ trades[t].units = x.units
    /\ GetOrderType(trades[t]) = "BID"
    /\ trades[t].ourPsbt = {[tx |-> x, sigs |-> {x.buyer}]}

(* The transaction x has been constructed by the daemon of its buyer, for  *)
(* addresses that it got from the seller's daemon for the same order.      *)
Genuine(x) ==
    /\ IsAddress(x.addr, x.name.own, x.buyer, x.order)
    /\ IsBuyer(x.change, x)

(* The trade t counts on x and is not abandoned any more.                  *)
Committed(t, x) ==
    /\ t \in DOMAIN trades
    /\ trades[t].state \in {"PENDING", "SUCCESS", "FAILED"}
    /\ \E p \in trades[t].ourPsbt : p.tx = x
    /\ trades[t].units = x.units

(* The account a, a party of x, has bound itself to x.                     *)
Pledged(x, a) ==
    /\ a \in {x.buyer, x.name.own}
    /\ Committed(IF a = x.buyer THEN x.change ELSE x.addr, x)

(* A psbt that has been given away: all signatures on it are pledges.      *)
Shared(p) == Genuine(p.tx) /\ \A a \in p.sigs : Pledged(p.tx, a)

(* What the psbt of a sale or a purchase is.                               *)
SaleOK(t, tr, p) ==
    /\ Genuine(p.tx)
    /\ p.tx.addr = t /\ p.tx.units = tr.units
    /\ \A a \in p.sigs \ {tr.account} : Pledged(p.tx, a)
PurchaseOK(t, p) == Genuine(p.tx) /\ p.tx.change = t

Parties(a, cp, o) == a # cp /\ Maker[o] \in {a, cp}

(* The record tr of the trade t, without the outcome.                      *)
RecordInv(t, tr) ==
    /\ Parties(tr.account, tr.counterparty, tr.order)
    /\ GetOrderType(tr) = "ASK" =>
          /\ tr.sellerData \subseteq {t}
          /\ \A p \in tr.ourPsbt : SaleOK(t, tr, p)
    /\ GetOrderType(tr) = "BID" =>
          /\ \A s \in tr.sellerData :
                IsAddress(s, tr.counterparty, tr.account, tr.order)
          /\ \A p \in tr.ourPsbt : PurchaseOK(t, p)
    /\ \A p, q \in tr.ourPsbt : p = q
    /\ \A p \in tr.theirPsbt : Shared(p)

MessageInv(m) ==
    /\ Parties(m.from, m.to, m.order)
    /\ m.taking # {} => m.to = Maker[m.order] /\ m.psbt = {}
    /\ \A s \in m.sellerData : IsAddress(s, m.from, m.to, m.order)
    /\ \A p \in m.psbt : Shared(p)

(* SUCCESS and FAILED tell the truth.                                      *)
OutcomeInv(tr) ==
    /\ tr.state = "FAILED" => \A p \in tr.ourPsbt :
          p.tx \notin confirmed /\ Inputs(p.tx) \cap spent # {}
    /\ tr.state = "SUCCESS" => \A p \in tr.ourPsbt : p.tx \in confirmed

Bound(x) == Genuine(x) /\ Committed(x.addr, x) /\ Committed(x.change, x)

AtomicInv ==
    /\ \A t \in DOMAIN trades : RecordInv(t, trades[t])
    /\ \A m \in msgs : MessageInv(m)
    /\ \A t \in DOMAIN trades : OutcomeInv(trades[t])
    /\ \A x \in OnChain : Bound(x)
    /\ \A x \in mempool : Inputs(x) \cap spent = {}
    /\ \A x \in confirmed : Inputs(x) \subseteq spent

-----------------------------------------------------------------------------
(* How records may change *)

Bonded == {"PENDING", "SUCCESS", "FAILED"}

(* s is a later version of the record r.                                   *)
Later(r, s) ==
    /\ s.account = r.account /\ s.counterparty = r.counterparty
    /\ s.order = r.order /\ s.units = r.units
    /\ GetOrderType(r) = "ASK" /\ r.sellerData # {} => s.sellerData = r.sellerData
    /\ r.ourPsbt # {} => s.ourPsbt = r.ourPsbt
    /\ r.state \in Bonded => s.state \in Bonded /\ s.ourPsbt = r.ourPsbt

Grows ==
    /\ DOMAIN trades \subseteq DOMAIN trades'
    /\ \A i \in DOMAIN trades : Later(trades[i], trades'[i])

(* What has been said of an address, a transaction or a pledge stays true. *)
LEMMA Preserve ==
    ASSUME Grows
    PROVE  /\ \A s, a, cp, o : IsAddress(s, a, cp, o) => IsAddress(s, a, cp, o)'
           /\ \A x : Genuine(x) => Genuine(x)'
           /\ \A i, x : Committed(i, x) => Committed(i, x)'
           /\ \A x, a : Pledged(x, a) => Pledged(x, a)'
           /\ \A p : Shared(p) => Shared(p)'
<1>1. ASSUME NEW s, NEW a, NEW cp, NEW o, IsAddress(s, a, cp, o)
      PROVE  IsAddress(s, a, cp, o)'
  <2>1. s \in DOMAIN trades' /\ Later(trades[s], trades'[s])
    BY <1>1 DEF IsAddress, Grows
  <2>2. GetOrderType(trades'[s]) = GetOrderType(trades[s])
    BY <2>1 DEF Later, GetOrderType, GetRole
  <2> QED BY <1>1, <2>1, <2>2 DEF IsAddress, Later
<1>2. ASSUME NEW s, NEW x, IsBuyer(s, x) PROVE IsBuyer(s, x)'
  <2>1. s \in DOMAIN trades' /\ Later(trades[s], trades'[s])
    BY <1>2 DEF IsBuyer, Grows
  <2>2. GetOrderType(trades'[s]) = GetOrderType(trades[s])
    BY <2>1 DEF Later, GetOrderType, GetRole
  <2> QED BY <1>2, <2>1, <2>2 DEF IsBuyer, Later
<1>3. ASSUME NEW s, NEW x, Committed(s, x) PROVE Committed(s, x)'
  <2>1. s \in DOMAIN trades' /\ Later(trades[s], trades'[s])
    BY <1>3 DEF Committed, Grows
  <2> QED BY <1>3, <2>1 DEF Committed, Later, Bonded
<1>4. ASSUME NEW x, Genuine(x) PROVE Genuine(x)'
  BY <1>1, <1>2, <1>4 DEF Genuine
<1>5. ASSUME NEW x, NEW a, Pledged(x, a) PROVE Pledged(x, a)'
  BY <1>3, <1>5 DEF Pledged
<1>6. ASSUME NEW p, Shared(p) PROVE Shared(p)'
  BY <1>4, <1>5, <1>6 DEF Shared
<1> QED BY <1>1, <1>3, <1>4, <1>5, <1>6

(* The records and messages that stay keep their part of the invariant.    *)
LEMMA PreserveInv ==
    ASSUME Grows
    PROVE  /\ \A t, tr : RecordInv(t, tr) => RecordInv(t, tr)'
           /\ \A m : MessageInv(m) => MessageInv(m)'
           /\ \A x : Bound(x) => Bound(x)'
<1>1. ASSUME NEW t, NEW tr, NEW p, SaleOK(t, tr, p) PROVE SaleOK(t, tr, p)'
  BY <1>1, Preserve DEF SaleOK
<1>2. ASSUME NEW t, NEW p, PurchaseOK(t, p) PROVE PurchaseOK(t, p)'
  BY <1>2, Preserve DEF PurchaseOK
<1>3. ASSUME NEW t, NEW tr, RecordInv(t, tr) PROVE RecordInv(t, tr)'
  BY <1>1, <1>2, <1>3, Preserve DEF RecordInv
<1>4. ASSUME NEW m, MessageInv(m) PROVE MessageInv(m)'
  BY <1>4, Preserve DEF MessageInv
<1>5. ASSUME NEW x, Bound(x) PROVE Bound(x)'
  BY <1>5, Preserve DEF Bound
<1> QED BY <1>3, <1>4, <1>5

-----------------------------------------------------------------------------
(* A step of HasReply *)

(* tr is what HasReply works with: the record of the trade t after the     *)
(* message has been merged, or the record of a new trade.                  *)
Linked(t, tr) ==
    IF t \in DOMAIN trades
    THEN /\ Later(trades[t], tr)
         /\ tr.state = trades[t].state /\ tr.ourPsbt = trades[t].ourPsbt
    ELSE tr.state = "INITIATED" /\ tr.ourPsbt = {}

(* The state of a record changes only from INITIATED to PENDING.           *)
Proceeds(tr, r) ==
    /\ Later(tr, r)
    /\ r.state = tr.state \/ (tr.state = "INITIATED" /\ r.state = "PENDING")

(* Writing the record of one trade and leaving the chain alone keeps the   *)
(* invariant if it holds of what is new.                                   *)
LEMMA PutStep ==
    ASSUME TypeOK, AtomicInv, NEW t, Slot(t),
           NEW tr \in TradeState, NEW r \in TradeState,
           Linked(t, tr), Proceeds(tr, r), trades' = Put(t, r),
           UNCHANGED <<spent, confirmed>>
    PROVE  /\ Grows
           /\ t \in DOMAIN trades' /\ trades'[t] = r
           /\ /\ RecordInv(t, r)'
              /\ \A m \in msgs' \ msgs : MessageInv(m)'
              /\ \A x \in mempool' \ mempool : Bound(x)' /\ Inputs(x) \cap spent = {}
              => AtomicInv'
<1>1. DOMAIN trades' = DOMAIN trades \cup {t} /\ trades'[t] = r
      /\ \A i \in DOMAIN trades : i # t => trades'[i] = trades[i]
  BY DEF Put
<1>2. Grows
  <2>1. ASSUME NEW i \in DOMAIN trades PROVE Later(trades[i], trades'[i])
    <3>1. CASE i = t
      <4>1. Later(trades[t], tr) /\ Later(tr, r)
        BY <3>1 DEF Linked, Proceeds
      <4>2. GetOrderType(tr) = GetOrderType(trades[t])
        BY <4>1 DEF Later, GetOrderType, GetRole
      <4>3. Later(trades[t], r)
        BY <4>1, <4>2 DEF Later
      <4> QED BY <3>1, <4>3, <1>1
    <3>2. CASE i # t
      BY <3>2, <1>1 DEF Later
    <3> QED BY <3>1, <3>2
  <2> QED BY <2>1, <1>1 DEF Grows
<1>3. ASSUME RecordInv(t, r)',
             \A m \in msgs' \ msgs : MessageInv(m)',
             \A x \in mempool' \ mempool : Bound(x)' /\ Inputs(x) \cap spent = {}
      PROVE  AtomicInv'
  <2>1. ASSUME NEW i \in DOMAIN trades' PROVE RecordInv(i, trades[i])'
    <3>1. CASE i = t
      BY <3>1, <1>1, <1>3
    <3>2. CASE i # t
      <4>1. i \in DOMAIN trades /\ trades'[i] = trades[i]
        BY <3>2, <1>1
      <4>2. RecordInv(i, trades[i])
        BY <4>1 DEF AtomicInv
      <4> DEFINE q == trades[i]
      <4>3. \E z : z = q /\ RecordInv(i, z)
        BY <4>2
      <4>4. PICK z : z = trades[i] /\ RecordInv(i, z)
        BY <4>3
      <4>5. RecordInv(i, z)'
        BY <4>4, <1>2, PreserveInv
      <4> QED BY <4>1, <4>4, <4>5
    <3> QED BY <3>1, <3>2
  <2>2. ASSUME NEW m \in msgs' PROVE MessageInv(m)'
    <3>1. CASE m \in msgs
      BY <3>1, <1>2, PreserveInv DEF AtomicInv
    <3> QED BY <3>1, <1>3
  <2>3. ASSUME NEW i \in DOMAIN trades' PROVE OutcomeInv(trades[i])'
    <3>1. CASE i = t
      <4>1. CASE r.state \in {"SUCCESS", "FAILED"}
        <5>1. tr.state = r.state /\ tr.ourPsbt = r.ourPsbt
          BY <4>1 DEF Proceeds, Later, Bonded
        <5>2. t \in DOMAIN trades /\ trades[t].state = r.state
              /\ trades[t].ourPsbt = r.ourPsbt
          BY <5>1, <4>1 DEF Linked
        <5>3. OutcomeInv(trades[t])
          BY <5>2 DEF AtomicInv
        <5> QED BY <3>1, <1>1, <5>2, <5>3 DEF OutcomeInv
      <4>2. CASE r.state \notin {"SUCCESS", "FAILED"}
        BY <3>1, <4>2, <1>1 DEF OutcomeInv
      <4> QED BY <4>1, <4>2
    <3>2. CASE i # t
      BY <3>2, <1>1 DEF AtomicInv, OutcomeInv
    <3> QED BY <3>1, <3>2
  <2>4. ASSUME NEW x \in (mempool \cup confirmed)' PROVE Bound(x)'
    <3>1. CASE x \in mempool \cup confirmed
      BY <3>1, <1>2, PreserveInv DEF AtomicInv, OnChain
    <3> QED BY <3>1, <1>3
  <2>5. \A x \in mempool' : Inputs(x) \cap spent' = {}
    BY <1>3 DEF AtomicInv
  <2>6. \A x \in confirmed' : Inputs(x) \subseteq spent'
    BY DEF AtomicInv
  <2> QED BY <2>1, <2>2, <2>3, <2>4, <2>5, <2>6 DEF AtomicInv, OnChain, Inputs
<1> QED BY <1>1, <1>2, <1>3

(* What a seller may sign: the psbt of the buyer of this very trade.       *)
LEMMA SaleSigned ==
    ASSUME NEW t \in TradeId, NEW tr \in TradeState, RecordInv(t, tr),
           NEW p \in tr.theirPsbt, SellerCanSign(tr, p)
    PROVE  /\ SaleOK(t, tr, SignPsbt(p, tr.account))
           /\ SignPsbt(p, tr.account).tx = p.tx
           /\ SignPsbt(p, tr.account).sigs = p.sigs \cup {tr.account}
           /\ p.tx.buyer = tr.counterparty
<1>1. p \in Psbt /\ Shared(p) /\ GetOrderType(tr) = "ASK" /\ tr.sellerData \subseteq {t}
  BY DEF TradeState, RecordInv, SellerCanSign
<1>2. /\ SignPsbt(p, tr.account).tx = p.tx
      /\ SignPsbt(p, tr.account).sigs = p.sigs \cup {tr.account}
  BY <1>1 DEF SignPsbt, Psbt
<1>3. p.tx.addr = t /\ p.tx.units = tr.units /\ p.tx.buyer = tr.counterparty
  BY <1>1 DEF SellerCanSign, SellerAgrees, CheckForSellerOutputs
<1> QED BY <1>1, <1>2, <1>3 DEF SaleOK, Shared

(* The transaction that a maker finalises is the one of this trade, and if *)
(* it is complete then the counterparty has bound itself to it.            *)
LEMMA FinalOK ==
    ASSUME NEW t \in TradeId, NEW tr \in TradeState, RecordInv(t, tr), Linked(t, tr),
           NEW p \in FinalPsbts(tr)
    PROVE  /\ tr.state = "INITIATED" /\ Genuine(p.tx) /\ p.tx.units = tr.units
           /\ GetOrderType(tr) = "ASK" =>
                 /\ SaleOK(t, tr, p) /\ p.tx.addr = t
                 /\ tr.ourPsbt # {} => tr.ourPsbt = {p}
                 /\ Complete(tr, p) => Committed(p.tx.change, p.tx)
           /\ GetOrderType(tr) = "BID" =>
                 /\ p.tx.change = t /\ \E q \in tr.ourPsbt : q.tx = p.tx
                 /\ Complete(tr, p) => Committed(p.tx.addr, p.tx)
<1>0. tr.state = "INITIATED" /\ tr.account # tr.counterparty
  BY DEF FinalPsbts, RecordInv, Parties
<1>1. CASE GetOrderType(tr) = "ASK"
  <2>1. SaleOK(t, tr, p)
    <3>1. CASE p \in tr.ourPsbt
      BY <3>1, <1>1 DEF RecordInv
    <3>2. CASE p \notin tr.ourPsbt
      <4>1. PICK q \in tr.theirPsbt : SellerCanSign(tr, q) /\ p = SignPsbt(q, tr.account)
        BY <3>2, <1>1 DEF FinalPsbts
      <4> QED BY <4>1, SaleSigned
    <3> QED BY <3>1, <3>2
  <2>2. tr.ourPsbt # {} => tr.ourPsbt = {p}
    <3>1. ASSUME tr.ourPsbt # {} PROVE p \in tr.ourPsbt
      BY <3>1, <1>1 DEF FinalPsbts, SellerCanSign
    <3> QED BY <3>1 DEF RecordInv
  <2>3. Complete(tr, p) => Committed(p.tx.change, p.tx)
    <3> SUFFICES ASSUME Complete(tr, p) PROVE Committed(p.tx.change, p.tx)
      OBVIOUS
    <3>1. Pledged(p.tx, tr.counterparty)
      BY <2>1, <1>0 DEF SaleOK, Complete
    <3>2. p.tx.buyer = tr.counterparty
      <4>1. t \in DOMAIN trades /\ trades[t].counterparty = p.tx.buyer
        BY <2>1 DEF SaleOK, Genuine, IsAddress
      <4> QED BY <4>1 DEF Linked, Later
    <3> QED BY <3>1, <3>2 DEF Pledged
  <2> QED BY <1>0, <1>1, <2>1, <2>2, <2>3 DEF SaleOK
<1>2. CASE GetOrderType(tr) # "ASK"
  <2>1. PICK q \in tr.ourPsbt : p = [q EXCEPT !.sigs = @ \cup SigsFor(tr.theirPsbt, q.tx)]
    BY <1>2 DEF FinalPsbts
  <2>2. q \in Psbt /\ p.tx = q.tx /\ p.sigs = q.sigs \cup SigsFor(tr.theirPsbt, q.tx)
    <3>1. q \in Psbt
      BY DEF TradeState
    <3> QED BY <3>1, <2>1 DEF Psbt
  <2>3. GetOrderType(tr) = "BID"
    BY <1>2, TradesAssumption DEF GetOrderType, TradeState
  <2>4. Genuine(p.tx) /\ p.tx.change = t
    BY <2>2, <2>3 DEF RecordInv, PurchaseOK
  <2>5. t \in DOMAIN trades /\ IsBuyer(t, p.tx)
    BY <2>4 DEF Genuine, IsBuyer
  <2>6. /\ tr.account = p.tx.buyer /\ tr.counterparty = p.tx.name.own
        /\ tr.units = p.tx.units /\ tr.ourPsbt = {[tx |-> p.tx, sigs |-> {p.tx.buyer}]}
    BY <2>5 DEF IsBuyer, Linked, Later
  <2>7. Complete(tr, p) => Committed(p.tx.addr, p.tx)
    <3> SUFFICES ASSUME Complete(tr, p) PROVE Committed(p.tx.addr, p.tx)
      OBVIOUS
    <3>1. q.sigs = {tr.account}
      BY <2>6
    <3>2. tr.counterparty \in SigsFor(tr.theirPsbt, q.tx)
      BY <3>1, <2>2, <1>0 DEF Complete
    <3>3. PICK z \in tr.theirPsbt : z.tx = q.tx /\ tr.counterparty \in z.sigs
      BY <3>2 DEF SigsFor
    <3>4. Pledged(p.tx, tr.counterparty)
      BY <3>3, <2>2 DEF RecordInv, Shared
    <3>5. p.tx.buyer # tr.counterparty
      BY <2>6, <1>0
    <3> QED BY <3>4, <3>5 DEF Pledged
  <2> QED BY <1>0, <2>3, <2>2, <2>4, <2>6, <2>7
<1> QED BY <1>1, <1>2

(* The records tr and r of the trade t differ only in what HasReply sets.  *)
Alike(t, tr, r) ==
    /\ r.account = tr.account /\ r.counterparty = tr.counterparty
    /\ r.order = tr.order /\ r.units = tr.units /\ r.theirPsbt = tr.theirPsbt
    /\ \/ r.sellerData = tr.sellerData
       \/ GetOrderType(tr) = "ASK" /\ r.sellerData = {t}

(* The psbt in r may be stored in the record tr of the trade t.            *)
NewPsbt(t, tr, r) ==
    /\ \A p, q \in r.ourPsbt : p = q
    /\ \A p \in r.ourPsbt : /\ GetOrderType(tr) = "ASK" => SaleOK(t, tr, p)
                            /\ GetOrderType(tr) = "BID" => PurchaseOK(t, p)

(* A record that keeps what RecordInv is about keeps it.                   *)
LEMMA SameRecord ==
    ASSUME NEW t, NEW tr, NEW r, RecordInv(t, tr)', Alike(t, tr, r),
           r.ourPsbt = tr.ourPsbt \/ NewPsbt(t, tr, r)'
    PROVE  RecordInv(t, r)'
<1>1. GetOrderType(r) = GetOrderType(tr)
  BY DEF GetOrderType, GetRole, Alike
<1>2. \A p : SaleOK(t, r, p)' <=> SaleOK(t, tr, p)'
  BY DEF SaleOK, Alike
<1>3. GetOrderType(tr)' = GetOrderType(tr)
  BY DEF GetOrderType, GetRole
<1>4. GetOrderType(r)' = GetOrderType(r)
  BY DEF GetOrderType, GetRole
<1> QED BY <1>1, <1>2, <1>3, <1>4 DEF RecordInv, NewPsbt, Alike

(* Every outcome of HasReply keeps the invariant.                          *)
LEMMA ReplyStep ==
    ASSUME NoLostReply, TypeOK, AtomicInv, NEW t, Slot(t), NEW tr \in TradeState,
           NEW taking, RecordInv(t, tr), Linked(t, tr),
           taking # {} => GetRole(tr) = "TAKER",
           \/ HasReply(t, tr)
           \/ CreateSellerData(t, tr, taking)
           \/ NoReply(t, tr, taking),
           UNCHANGED <<spent, confirmed>>
    PROVE  AtomicInv'
<1> USE TradesAssumption
<1>a. /\ TradesOK /\ nameVer \in [Account -> Nat]
      /\ tr.account \in Account /\ tr.counterparty \in Account /\ t \in TradeId
  <2>1. TradesOK
    BY DEF TypeOK, TradesOK
  <2>2. t \in TradeId
    BY <2>1, PutType
  <2> QED BY <2>1, <2>2 DEF TypeOK, TradeState
<1>b. /\ Parties(tr.account, tr.counterparty, tr.order)
      /\ GetRole(tr) = "TAKER" => tr.counterparty = Maker[tr.order]
  BY DEF RecordInv, Parties, GetRole
<1>c. GetOrderType(tr) \in {"ASK", "BID"}
  BY DEF GetOrderType, TradeState
<1>d. \A r \in TradeState : Proceeds(tr, r) /\ trades' = Put(t, r) =>
         /\ Grows /\ t \in DOMAIN trades' /\ trades'[t] = r /\ RecordInv(t, tr)'
         /\ /\ RecordInv(t, r)'
            /\ \A m \in msgs' \ msgs : MessageInv(m)'
            /\ \A x \in mempool' \ mempool : Bound(x)' /\ Inputs(x) \cap spent = {}
            => AtomicInv'
  BY PutStep, PreserveInv
<1>1. ASSUME NEW k, k # {} => GetRole(tr) = "TAKER", CreateSellerData(t, tr, k)
      PROVE  AtomicInv'
  <2> DEFINE out == NameOut(tr.account, nameVer[tr.account])
             m == ReplyFor(tr, k, {t}, {})
  <2>1. /\ tr.state = "INITIATED" /\ GetOrderType(tr) = "ASK" /\ tr.sellerData = {}
        /\ trades' = Put(t, [tr EXCEPT !.sellerData = {t}, !.nameOutput = {out}])
        /\ msgs' = msgs \cup {m} /\ mempool' = mempool
    BY <1>1 DEF CreateSellerData, NeedsSellerData
  <2>2. [tr EXCEPT !.sellerData = {t}, !.nameOutput = {out}] \in TradeState
    BY <1>a, OutputType DEF TradeState
  <2>3. PICK r \in TradeState :
          /\ trades' = Put(t, r)
          /\ r.account = tr.account /\ r.counterparty = tr.counterparty
          /\ r.order = tr.order /\ r.units = tr.units /\ r.theirPsbt = tr.theirPsbt
          /\ r.ourPsbt = tr.ourPsbt /\ r.sellerData = {t} /\ r.state = tr.state
    BY <2>1, <2>2 DEF TradeState
  <2>4. Proceeds(tr, r)
    BY <2>1, <2>3 DEF Proceeds, Later, Bonded
  <2>5. RecordInv(t, tr)' /\ t \in DOMAIN trades' /\ trades'[t] = r
    BY <1>d, <2>3, <2>4
  <2>6. RecordInv(t, r)'
    <3>1. Alike(t, tr, r)
      BY <2>1, <2>3 DEF Alike
    <3> QED BY <3>1, <2>3, <2>5, SameRecord
  <2>7. MessageInv(m)'
    <3>1. IsAddress(t, tr.account, tr.counterparty, tr.order)'
      BY <2>1, <2>3, <2>5 DEF IsAddress, GetOrderType, GetRole
    <3> QED BY <3>1, <1>1, <1>b DEF MessageInv, ReplyFor, Parties
  <2> QED BY <1>d, <2>1, <2>3, <2>4, <2>6, <2>7
<1>2. CASE TakerSignsSale(t, tr)
  <2>1. PICK p \in tr.theirPsbt :
          LET signed == SignPsbt(p, tr.account) IN
          /\ SellerCanSign(tr, p)
          /\ trades' = Put(t, [tr EXCEPT !.ourPsbt = {signed}, !.state = "PENDING"])
          /\ msgs' = msgs \cup {ReplyFor(tr, {}, {}, {signed})}
          /\ mempool' = mempool
    BY <1>2 DEF TakerSignsSale
  <2>2. /\ p \in Psbt /\ tr.state = "INITIATED" /\ tr.ourPsbt = {}
        /\ GetOrderType(tr) = "ASK" /\ Shared(p)
    BY <2>1 DEF TradeState, SellerCanSign, RecordInv
  <2>3. PICK signed \in Psbt :
          /\ signed = SignPsbt(p, tr.account)
          /\ SaleOK(t, tr, signed) /\ signed.tx = p.tx
          /\ signed.sigs = p.sigs \cup {tr.account} /\ p.tx.buyer = tr.counterparty
    BY <2>1, <2>2, <1>a, SaleSigned, SignPsbtType
  <2> DEFINE m == ReplyFor(tr, {}, {}, {signed})
  <2>4. [tr EXCEPT !.ourPsbt = {signed}, !.state = "PENDING"] \in TradeState
    BY DEF TradeState
  <2>5. PICK r \in TradeState :
          /\ trades' = Put(t, r)
          /\ r.account = tr.account /\ r.counterparty = tr.counterparty
          /\ r.order = tr.order /\ r.units = tr.units /\ r.theirPsbt = tr.theirPsbt
          /\ r.sellerData = tr.sellerData /\ r.ourPsbt = {signed} /\ r.state = "PENDING"
    BY <2>1, <2>3, <2>4 DEF TradeState
  <2>6. msgs' = msgs \cup {m}
    BY <2>1, <2>3
  <2>7. Proceeds(tr, r)
    BY <2>2, <2>5 DEF Proceeds, Later, Bonded
  <2>8. Grows /\ RecordInv(t, tr)' /\ t \in DOMAIN trades' /\ trades'[t] = r
    BY <1>d, <2>5, <2>7
  <2>9. Genuine(signed.tx)' /\ \A a \in p.sigs : Pledged(signed.tx, a)'
    BY <2>2, <2>3, <2>8, Preserve DEF Shared
  <2>10. SaleOK(t, tr, signed)'
    BY <2>3, <2>9 DEF SaleOK
  <2>11. RecordInv(t, r)'
    <3>1. NewPsbt(t, tr, r)'
      BY <2>2, <2>5, <2>10 DEF NewPsbt, GetOrderType, GetRole
    <3>2. Alike(t, tr, r)
      BY <2>5 DEF Alike
    <3> QED BY <3>1, <3>2, <2>8, SameRecord
  <2>12. Pledged(signed.tx, tr.account)'
    <3>1. signed.tx.addr = t /\ signed.tx.units = tr.units
      BY <2>3 DEF SaleOK
    <3>2. signed.tx.name.own = tr.account
      BY <2>9, <3>1, <2>5, <2>8 DEF Genuine, IsAddress
    <3>3. Committed(t, signed.tx)'
      BY <3>1, <2>5, <2>8 DEF Committed
    <3> QED BY <3>1, <3>2, <3>3, <2>3, <1>b DEF Pledged, Parties
  <2>13. MessageInv(m)'
    <3>1. Shared(signed)'
      BY <2>3, <2>9, <2>12 DEF Shared
    <3> QED BY <3>1, <1>b DEF MessageInv, ReplyFor, Parties
  <2> QED BY <1>d, <2>1, <2>5, <2>6, <2>7, <2>11, <2>13
<1>3. CASE BuyerConstructs(t, tr)
  <2>1. PICK shared \in SUBSET Account, st \in {"PENDING", "INITIATED"} :
          /\ FundAndSign(t, tr, shared, st)
          /\ shared = {} \/ (shared = {tr.account} /\ st = "PENDING")
    BY <1>3, <1>a DEF BuyerConstructs
  <2>2. PICK c \in Fundable(tr.account), addr \in tr.sellerData :
          LET x == ConstructTransaction(t, tr, addr, c) IN
          /\ BuyerCanConstruct(tr)
          /\ trades' = Put(t, [tr EXCEPT !.state = st,
                          !.ourPsbt = {[tx |-> x, sigs |-> {tr.account}]}])
          /\ msgs' = msgs \cup {ReplyFor(tr, {}, {}, {[tx |-> x, sigs |-> shared]})}
          /\ UNCHANGED mempool
    BY <2>1 DEF FundAndSign
  <2>3. tr.state = "INITIATED" /\ GetOrderType(tr) = "BID" /\ tr.ourPsbt = {}
    BY <2>2 DEF BuyerCanConstruct
  <2>4. PICK x \in Tx :
          /\ x = ConstructTransaction(t, tr, addr, c)
          /\ x.order = tr.order /\ x.units = tr.units /\ x.buyer = tr.account
          /\ x.name.own = tr.counterparty /\ x.addr = addr /\ x.change = t
    <3>1. c \in Nat /\ addr \in TradeId /\ nameVer[tr.counterparty] \in Nat
      BY <1>a DEF Fundable, TradeState
    <3>2. /\ NameOut(tr.counterparty, nameVer[tr.counterparty]) \in Output
          /\ CoinOut(tr.account, c) \in Output
          /\ NameOut(tr.counterparty, nameVer[tr.counterparty]).own = tr.counterparty
      BY <3>1, <1>a, OutputType DEF NameOut
    <3> DEFINE y == ConstructTransaction(t, tr, addr, c)
    <3>3. /\ y \in Tx /\ y.order = tr.order /\ y.units = tr.units /\ y.buyer = tr.account
          /\ y.name.own = tr.counterparty /\ y.addr = addr /\ y.change = t
      BY <3>1, <3>2, <1>a DEF ConstructTransaction, Tx, TradeState
    <3> QED BY <3>3
  <2> DEFINE q == [tx |-> x, sigs |-> {tr.account}]
             m == ReplyFor(tr, {}, {}, {[tx |-> x, sigs |-> shared]})
  <2>5. q \in Psbt
    BY <1>a DEF Psbt
  <2>6. [tr EXCEPT !.state = st, !.ourPsbt = {q}] \in TradeState
    BY <2>5 DEF TradeState
  <2>7. PICK r \in TradeState :
          /\ trades' = Put(t, r)
          /\ r.account = tr.account /\ r.counterparty = tr.counterparty
          /\ r.order = tr.order /\ r.units = tr.units /\ r.theirPsbt = tr.theirPsbt
          /\ r.sellerData = tr.sellerData /\ r.ourPsbt = {q} /\ r.state = st
    BY <2>2, <2>4, <2>6 DEF TradeState
  <2>8. msgs' = msgs \cup {m}
    BY <2>2, <2>4
  <2>9. Proceeds(tr, r)
    BY <2>3, <2>7 DEF Proceeds, Later, Bonded
  <2>10. Grows /\ RecordInv(t, tr)' /\ t \in DOMAIN trades' /\ trades'[t] = r
    BY <1>d, <2>7, <2>9
  <2>11. Genuine(x)'
    <3>1. IsAddress(addr, tr.counterparty, tr.account, tr.order)'
      BY <2>3, <2>10, Preserve DEF RecordInv
    <3>2. GetOrderType(r) = "BID"
      BY <2>3, <2>7 DEF GetOrderType, GetRole
    <3>3. IsBuyer(t, x)'
      BY <3>2, <2>4, <2>7, <2>10 DEF IsBuyer, GetOrderType, GetRole
    <3> QED BY <3>1, <3>3, <2>4 DEF Genuine
  <2>12. PurchaseOK(t, q)'
    BY <2>11, <2>4 DEF PurchaseOK
  <2>13. RecordInv(t, r)'
    <3>1. NewPsbt(t, tr, r)'
      BY <2>3, <2>7, <2>12 DEF NewPsbt, GetOrderType, GetRole
    <3>2. Alike(t, tr, r)
      BY <2>7 DEF Alike
    <3> QED BY <3>1, <3>2, <2>10, SameRecord
  <2>14. \A a \in shared : Pledged(x, a)'
    <3>1. CASE shared = {tr.account} /\ st = "PENDING"
      <4>1. q \in r.ourPsbt /\ q.tx = x /\ r.state = "PENDING" /\ r.units = x.units
        BY <3>1, <2>4, <2>7
      <4>2. Committed(t, x)'
        BY <4>1, <2>10 DEF Committed
      <4> QED BY <3>1, <4>2, <2>4 DEF Pledged
    <3> QED BY <2>1, <3>1
  <2>15. MessageInv(m)'
    <3>1. Shared([tx |-> x, sigs |-> shared])'
      BY <2>11, <2>14 DEF Shared
    <3> QED BY <3>1, <1>b DEF MessageInv, ReplyFor, Parties
  <2> QED BY <1>d, <2>2, <2>7, <2>8, <2>9, <2>13, <2>15
<1>4. CASE MakerBroadcasts(t, tr) \/ BroadcastRefused(t, tr)
  <2>1. PICK p \in FinalPsbts(tr) :
          /\ Complete(tr, p)
          /\ \/ /\ trades' = Put(t, WithFinal(tr, p)) /\ mempool' = mempool
             \/ /\ trades' = Put(t, [WithFinal(tr, p) EXCEPT !.state = "PENDING"])
                /\ mempool' = mempool \cup {p.tx} /\ Accepts(p.tx)
          /\ msgs' = msgs
    BY <1>4 DEF MakerBroadcasts, BroadcastRefused
  <2>2. PICK x : x = p.tx
    OBVIOUS
  <2>3. WithFinal(tr, p) \in TradeState /\ WithFinal(tr, p).ourPsbt # {}
    BY FinalPsbtsType
  <2>4. /\ tr.state = "INITIATED" /\ Genuine(x) /\ x.units = tr.units
        /\ GetOrderType(tr) = "ASK" =>
              /\ SaleOK(t, tr, p) /\ x.addr = t
              /\ tr.ourPsbt # {} => tr.ourPsbt = {p}
              /\ Committed(x.change, x)
        /\ GetOrderType(tr) = "BID" =>
              /\ x.change = t /\ \E q \in tr.ourPsbt : q.tx = x
              /\ Committed(x.addr, x)
    BY <1>a, <2>1, <2>2, FinalOK
  <2>5. PICK r \in TradeState :
          /\ trades' = Put(t, r)
          /\ r.account = tr.account /\ r.counterparty = tr.counterparty
          /\ r.order = tr.order /\ r.units = tr.units /\ r.theirPsbt = tr.theirPsbt
          /\ r.sellerData = tr.sellerData
          /\ r.ourPsbt = IF GetOrderType(tr) = "ASK" THEN {p} ELSE tr.ourPsbt
          /\ \/ r.state = "INITIATED" /\ mempool' = mempool
             \/ r.state = "PENDING" /\ mempool' = mempool \cup {x} /\ Accepts(x)
    <3>1. CASE trades' = Put(t, WithFinal(tr, p)) /\ mempool' = mempool
      <4>1. WithFinal(tr, p).state = "INITIATED"
        BY <2>4 DEF WithFinal, TradeState
      <4> QED BY <3>1, <4>1, <2>3 DEF WithFinal, TradeState
    <3>2. CASE /\ trades' = Put(t, [WithFinal(tr, p) EXCEPT !.state = "PENDING"])
               /\ mempool' = mempool \cup {p.tx} /\ Accepts(p.tx)
      <4>1. [WithFinal(tr, p) EXCEPT !.state = "PENDING"] \in TradeState
        BY <2>3 DEF TradeState
      <4> QED BY <3>2, <4>1, <2>2 DEF WithFinal, TradeState
    <3> QED BY <2>1, <3>1, <3>2
  <2>7. Proceeds(tr, r)
    BY <2>4, <2>5 DEF Proceeds, Later, Bonded
  <2>8. Grows /\ RecordInv(t, tr)' /\ t \in DOMAIN trades' /\ trades'[t] = r
    BY <1>d, <2>5, <2>7
  <2>9. RecordInv(t, r)'
    <3>0. Alike(t, tr, r)
      BY <2>5 DEF Alike
    <3>1. CASE GetOrderType(tr) = "ASK"
      <4>1. SaleOK(t, tr, p)'
        BY <3>1, <2>4, <2>8, Preserve DEF SaleOK
      <4>2. NewPsbt(t, tr, r)'
        BY <3>1, <4>1, <2>5 DEF NewPsbt, GetOrderType, GetRole
      <4> QED BY <3>0, <4>2, <2>8, SameRecord
    <3>2. CASE GetOrderType(tr) # "ASK"
      <4>1. r.ourPsbt = tr.ourPsbt
        BY <3>2, <2>5
      <4> QED BY <3>0, <4>1, <2>8, SameRecord
    <3> QED BY <3>1, <3>2
  <2>10. r.state = "PENDING" => Bound(x)'
    <3> SUFFICES ASSUME r.state = "PENDING" PROVE Bound(x)'
      OBVIOUS
    <3>1. Committed(t, x)'
      BY <2>2, <2>4, <2>5, <2>8, <1>c DEF Committed
    <3>2. Genuine(x)' /\ \A i : Committed(i, x) => Committed(i, x)'
      BY <2>4, <2>8, Preserve
    <3> QED BY <3>1, <3>2, <2>4, <1>c DEF Bound
  <2>11. \A y \in mempool' \ mempool : Bound(y)' /\ Inputs(y) \cap spent = {}
    BY <2>5, <2>10 DEF Accepts
  <2> QED BY <1>d, <2>1, <2>5, <2>7, <2>9, <2>11
<1>5. ASSUME NEW k, k # {} => GetRole(tr) = "TAKER", trades' = Put(t, tr),
             msgs' = msgs \/ msgs' = msgs \cup {ReplyFor(tr, k, {}, {})},
             mempool' = mempool
      PROVE  AtomicInv'
  <2>1. Proceeds(tr, tr)
    BY DEF Proceeds, Later
  <2>2. RecordInv(t, tr)'
    BY <1>5, <1>d, <2>1
  <2>3. MessageInv(ReplyFor(tr, k, {}, {}))'
    BY <1>5, <1>b DEF MessageInv, ReplyFor, Parties
  <2> QED BY <1>5, <1>d, <2>1, <2>2, <2>3
<1>6. CASE NoReply(t, tr, taking) \/ NoReply(t, tr, {})
  BY <1>5, <1>6 DEF NoReply
<1>7. CASE ThrowsAfterLock(t, tr) /\ trades' = Put(t, tr)
  BY <1>5, <1>7 DEF ThrowsAfterLock
<1>8. ~BroadcastReplyLost(t, tr)
  BY DEF NoLostReply, BroadcastReplyLost
<1> QED BY <1>1, <1>2, <1>3, <1>4, <1>6, <1>7, <1>8 DEF HasReply

-----------------------------------------------------------------------------
(* The other steps *)

(* A message merged into the record of a trade, old or new, keeps it sound:*)
(* addresses and psbts may come from another attempt for the same order,   *)
(* but always from the counterparty and genuine.                           *)
LEMMA Merge ==
    ASSUME NEW m \in Message, MessageInv(m), NEW t, NEW tr \in TradeState,
           RecordInv(t, tr), Linked(t, tr),
           tr.account = m.to, tr.counterparty = m.from, tr.order = m.order
    PROVE  RecordInv(t, HandleMessage(tr, m)) /\ Linked(t, HandleMessage(tr, m))
<1>1. CASE tr.state # "INITIATED"
  BY <1>1 DEF HandleMessage
<1>2. CASE tr.state = "INITIATED"
  <2> DEFINE r == HandleMessage(tr, m)
  <2>1. /\ r.account = tr.account /\ r.counterparty = tr.counterparty
        /\ r.order = tr.order /\ r.units = tr.units /\ r.ourPsbt = tr.ourPsbt
        /\ r.state = tr.state
        /\ r.sellerData = MergeSellerData(tr, m.sellerData)
        /\ r.theirPsbt = MergePsbt(tr, m.psbt)
    BY <1>2 DEF HandleMessage, TradeState
  <2> HIDE DEF r
  <2>2. GetOrderType(r) = GetOrderType(tr)
    BY <2>1 DEF GetOrderType, GetRole
  <2>3. GetOrderType(tr) = "ASK" => r.sellerData = tr.sellerData
    BY <2>1 DEF MergeSellerData
  <2>4. r.sellerData = tr.sellerData \/ r.sellerData = m.sellerData
    BY <2>1 DEF MergeSellerData
  <2>5. \A p \in r.theirPsbt : Shared(p)
    BY <2>1 DEF MergePsbt, RecordInv, MessageInv
  <2>6. RecordInv(t, r)
    <3>1. \A p : SaleOK(t, r, p) <=> SaleOK(t, tr, p)
      BY <2>1 DEF SaleOK
    <3>2. GetOrderType(tr) = "BID" => \A s \in r.sellerData :
             IsAddress(s, tr.counterparty, tr.account, tr.order)
      BY <2>4 DEF RecordInv, MessageInv
    <3> QED BY <2>1, <2>2, <2>3, <2>5, <3>1, <3>2 DEF RecordInv
  <2>7. Linked(t, r)
    <3>1. CASE t \in DOMAIN trades
      <4>1. Later(trades[t], tr) /\ tr.state = trades[t].state
            /\ tr.ourPsbt = trades[t].ourPsbt
        BY <3>1 DEF Linked
      <4>2. GetOrderType(trades[t]) = GetOrderType(tr)
        BY <4>1 DEF Later, GetOrderType, GetRole
      <4> QED BY <3>1, <4>1, <4>2, <2>1, <2>3 DEF Linked, Later
    <3>2. CASE t \notin DOMAIN trades
      BY <3>2, <2>1 DEF Linked
    <3> QED BY <3>1, <3>2
  <2> QED BY <2>6, <2>7 DEF r
<1> QED BY <1>1, <1>2

(* The record of a new trade is sound.                                     *)
LEMMA NewTradeOK ==
    ASSUME NEW a, NEW o, NEW cp, NEW u, NEW t, t \notin DOMAIN trades,
           Parties(a, cp, o)
    PROVE  RecordInv(t, NewTrade(a, o, cp, u)) /\ Linked(t, NewTrade(a, o, cp, u))
BY DEF RecordInv, Linked, NewTrade

(* Mining and spending leave trades and messages alone.  A block spends    *)
(* the inputs of what it confirms and throws out what conflicts with it.   *)
LEMMA ChainStep ==
    ASSUME AtomicInv, UNCHANGED <<trades, msgs>>, NEW outs,
           SpendOutputs(outs),
           \/ confirmed' = confirmed
           \/ \E x \in mempool : confirmed' = confirmed \cup {x} /\ outs = Inputs(x)
    PROVE  AtomicInv'
<1>1. Grows
  BY DEF Grows, Later
<1>2. \A x \in confirmed' \ confirmed : x \in mempool /\ Inputs(x) = outs
  OBVIOUS
<1>3. mempool' \subseteq mempool /\ spent' = spent \cup outs
  BY DEF SpendOutputs
<1>4. ASSUME NEW t \in DOMAIN trades' PROVE RecordInv(t, trades[t])'
  <2>1. PICK tr : tr = trades[t] /\ RecordInv(t, tr)
    BY <1>4 DEF AtomicInv
  <2>2. RecordInv(t, tr)'
    BY <2>1, <1>1, PreserveInv
  <2> QED BY <2>1, <2>2
<1>5. \A m \in msgs' : MessageInv(m)'
  BY <1>1, PreserveInv DEF AtomicInv
<1>6. ASSUME NEW t \in DOMAIN trades' PROVE OutcomeInv(trades[t])'
  <2>1. OutcomeInv(trades[t]) /\ trades'[t] = trades[t] /\ confirmed \subseteq confirmed'
    BY <1>6 DEF AtomicInv
  <2>2. ASSUME NEW p \in trades[t].ourPsbt, trades[t].state = "FAILED"
        PROVE  p.tx \notin confirmed' /\ Inputs(p.tx) \cap spent' # {}
    <3>1. p.tx \notin confirmed /\ Inputs(p.tx) \cap spent # {}
      BY <2>1, <2>2 DEF OutcomeInv
    <3>2. p.tx \notin mempool
      BY <3>1 DEF AtomicInv
    <3> QED BY <3>1, <3>2, <1>2, <1>3
  <2> QED BY <2>1, <2>2 DEF OutcomeInv, Inputs
<1>7. \A x \in mempool' \cup confirmed' : Bound(x)'
  BY <1>1, <1>2, <1>3, PreserveInv DEF AtomicInv, OnChain
<1>8. \A x \in mempool' : Inputs(x) \cap spent' = {}
  BY <1>3 DEF AtomicInv, SpendOutputs
<1>9. \A x \in confirmed' : Inputs(x) \subseteq spent'
  BY <1>2, <1>3 DEF AtomicInv
<1> QED BY <1>4, <1>5, <1>6, <1>7, <1>8, <1>9 DEF AtomicInv, OnChain, Inputs

(* How HasReply comes to be called: TakeOrder and ProcessMessage, with a   *)
(* sound record of an existing trade or of a new one.                      *)
LEMMA ReplyCases ==
    ASSUME TypeOK, AtomicInv,
           \/ \E a \in Account, o \in Order, u \in Units : TakeOrder(a, o, u)
           \/ \E m \in msgs : ProcessMessage(m)
    PROVE  \E t \in TradeId, tr \in TradeState, taking \in SUBSET Nat :
             /\ Slot(t) /\ RecordInv(t, tr) /\ Linked(t, tr)
             /\ taking # {} => GetRole(tr) = "TAKER"
             /\ \/ /\ HasReply(t, tr)
                   /\ \/ t \in DOMAIN trades
                      \/ tr.theirPsbt = {} /\ GetRole(tr) = "MAKER"
                \/ CreateSellerData(t, tr, taking)
                \/ NoReply(t, tr, taking)
                \/ ThrowsAfterLock(t, tr) /\ UNCHANGED trades
             /\ UNCHANGED <<finalised, chainVars>>
<1> USE TradesAssumption
<1>a. \A t \in TradeId : IsNextId(t) => Slot(t) /\ t \notin DOMAIN trades
  BY DEF IsNextId, Slot, TradeId
<1>b. \A t \in DOMAIN trades : t \in TradeId /\ trades[t] \in TradeState /\ Slot(t)
  BY DEF TypeOK, TradeId, Slot
<1>1. ASSUME NEW a \in Account, NEW o \in Order, NEW u \in Units, TakeOrder(a, o, u)
      PROVE  \E t \in TradeId, tr \in TradeState, taking \in SUBSET Nat :
               /\ Slot(t) /\ RecordInv(t, tr) /\ Linked(t, tr)
               /\ GetRole(tr) = "TAKER"
               /\ \/ CreateSellerData(t, tr, taking)
                  \/ NoReply(t, tr, taking)
                  \/ ThrowsAfterLock(t, tr) /\ UNCHANGED trades
               /\ UNCHANGED <<finalised, chainVars>>
  <2>1. PICK tr \in TradeState : tr = NewTrade(a, o, Maker[o], u)
    BY NewTradeType
  <2>2. PICK t \in TradeId :
          /\ IsNextId(t) /\ Maker[o] # a
          /\ \/ CreateSellerData(t, tr, {u})
             \/ NoReply(t, tr, {u})
             \/ ThrowsAfterLock(t, tr) /\ UNCHANGED trades
          /\ UNCHANGED <<finalised, chainVars>>
    BY <1>1, <2>1 DEF TakeOrder
  <2>3. Parties(a, Maker[o], o) /\ t \notin DOMAIN trades /\ Slot(t)
    BY <2>2, <1>a DEF Parties
  <2>4. RecordInv(t, tr) /\ Linked(t, tr)
    BY <2>1, <2>3, NewTradeOK
  <2>5. GetRole(tr) = "TAKER"
    BY <2>1, <2>2 DEF GetRole, NewTrade
  <2>6. {u} \in SUBSET Nat
    OBVIOUS
  <2> QED BY <2>2, <2>3, <2>4, <2>5, <2>6
<1>2. ASSUME NEW m \in msgs, ProcessMessage(m)
      PROVE  \E t \in TradeId, tr \in TradeState :
               /\ Slot(t) /\ RecordInv(t, tr) /\ Linked(t, tr)
               /\ HasReply(t, tr)
               /\ t \in DOMAIN trades \/ (tr.theirPsbt = {} /\ GetRole(tr) = "MAKER")
               /\ UNCHANGED <<finalised, chainVars>>
  <2>1. m \in Message /\ MessageInv(m)
    BY DEF TypeOK, AtomicInv
  <2>2. CASE OrderTaken(m)
    <3>1. PICK u \in m.taking, t \in TradeId :
            /\ IsNextId(t)
            /\ HasReply(t, HandleMessage(NewTrade(m.to, m.order, m.from, u), m))
            /\ UNCHANGED <<finalised, chainVars>>
      BY <2>2 DEF OrderTaken
    <3>2. PICK base \in TradeState : base = NewTrade(m.to, m.order, m.from, u)
      BY <2>1, NewTradeType DEF Message
    <3>3. PICK tr \in TradeState : tr = HandleMessage(base, m)
      BY <3>2, <2>1, HandleMessageType
    <3>4. /\ m.to = Maker[m.order] /\ m.psbt = {} /\ Parties(m.to, m.from, m.order)
          /\ t \notin DOMAIN trades /\ Slot(t)
      BY <2>1, <3>1, <1>a DEF MessageInv, Parties
    <3>5. /\ RecordInv(t, base) /\ Linked(t, base)
          /\ base.account = m.to /\ base.counterparty = m.from /\ base.order = m.order
          /\ base.theirPsbt = {}
      BY <3>2, <3>4, NewTradeOK DEF NewTrade
    <3>6. RecordInv(t, tr) /\ Linked(t, tr)
      BY <3>3, <3>5, <2>1, Merge
    <3>7. tr.account = base.account /\ tr.order = base.order /\ tr.theirPsbt = {}
      BY <3>3, <3>4, <3>5 DEF HandleMessage, MergePsbt, TradeState
    <3>8. GetRole(tr) = "MAKER"
      BY <3>4, <3>5, <3>7 DEF GetRole
    <3> QED BY <3>1, <3>2, <3>3, <3>4, <3>6, <3>7, <3>8
  <2>3. CASE Process(m)
    <3>1. PICK t \in DOMAIN trades :
            /\ Matches(t, m)
            /\ HasReply(t, HandleMessage(trades[t], m))
            /\ UNCHANGED <<finalised, chainVars>>
      BY <2>3 DEF Process
    <3>2. PICK base \in TradeState : base = trades[t]
      BY <1>b
    <3>3. PICK tr \in TradeState : tr = HandleMessage(base, m)
      BY <3>2, <2>1, HandleMessageType
    <3>4. /\ RecordInv(t, base) /\ Linked(t, base)
          /\ base.account = m.to /\ base.counterparty = m.from /\ base.order = m.order
      BY <3>1, <3>2 DEF AtomicInv, Linked, Later, Matches
    <3>5. RecordInv(t, tr) /\ Linked(t, tr)
      BY <3>3, <3>4, <2>1, Merge
    <3> QED BY <3>1, <3>2, <3>3, <3>5, <1>b
  <2> QED BY <1>2, <2>2, <2>3 DEF ProcessMessage
<1> QED BY <1>1, <1>2, {} \in SUBSET Nat

(* The updater finalises a trade.                                          *)
LEMMA FinaliseStep ==
    ASSUME TypeOK, AtomicInv, NEW t \in DOMAIN trades, NEW st, Finalise(t, st),
           \/ trades[t].state = "INITIATED" /\ st = "ABANDONED"
           \/ /\ trades[t].state = "PENDING" /\ st = "SUCCESS"
              /\ \A p \in trades[t].ourPsbt : p.tx \in confirmed
           \/ /\ trades[t].state = "PENDING" /\ st = "FAILED"
              /\ \A p \in trades[t].ourPsbt :
                    p.tx \notin confirmed /\ Inputs(p.tx) \cap spent # {}
    PROVE  Grows /\ AtomicInv'
<1>1. /\ DOMAIN trades' = DOMAIN trades
      /\ trades'[t] = [trades[t] EXCEPT !.state = st]
      /\ \A i \in DOMAIN trades : i # t => trades'[i] = trades[i]
      /\ UNCHANGED <<msgs, mempool, spent, confirmed>>
  BY DEF Finalise, Put, chainVars
<1>2. trades[t] \in TradeState
  BY DEF TypeOK
<1>3. \A i \in DOMAIN trades :
        LET r == trades[i] s == trades'[i] IN
        /\ s.account = r.account /\ s.counterparty = r.counterparty
        /\ s.order = r.order /\ s.units = r.units /\ s.sellerData = r.sellerData
        /\ s.ourPsbt = r.ourPsbt /\ s.theirPsbt = r.theirPsbt
        /\ s.state = IF i = t THEN st ELSE r.state
  BY <1>1, <1>2 DEF TradeState
<1>4. Grows
  BY <1>1, <1>3 DEF Grows, Later, Bonded
<1>5. ASSUME NEW i \in DOMAIN trades' PROVE RecordInv(i, trades[i])'
  <2>1. PICK tr : tr = trades[i] /\ RecordInv(i, tr)
    BY <1>1, <1>5 DEF AtomicInv
  <2>2. RecordInv(i, tr)'
    BY <2>1, <1>4, PreserveInv
  <2>3. PICK r : r = trades'[i]
    OBVIOUS
  <2>4. Alike(i, tr, r) /\ r.ourPsbt = tr.ourPsbt
    BY <2>1, <2>3, <1>1, <1>3 DEF Alike
  <2>5. RecordInv(i, r)'
    BY <2>2, <2>4, SameRecord
  <2> QED BY <2>3, <2>5
<1>6. \A m \in msgs' : MessageInv(m)'
  BY <1>1, <1>4, PreserveInv DEF AtomicInv
<1>7. ASSUME NEW i \in DOMAIN trades' PROVE OutcomeInv(trades[i])'
  BY <1>1, <1>3 DEF AtomicInv, OutcomeInv, Inputs
<1>8. \A x \in mempool' \cup confirmed' : Bound(x)'
  BY <1>1, <1>4, PreserveInv DEF AtomicInv, OnChain
<1>9. AtomicInv'
  BY <1>1, <1>5, <1>6, <1>7, <1>8 DEF AtomicInv, OnChain, Inputs
<1> QED BY <1>4, <1>9

(* What Update finds out about a trade is the truth.                       *)
LEMMA UpdateOutcome ==
    ASSUME AtomicInv, NEW t \in DOMAIN trades, Abandon(t) \/ UpdatePending(t)
    PROVE  \E st \in Final :
             /\ Finalise(t, st)
             /\ \/ trades[t].state = "INITIATED" /\ st = "ABANDONED"
                \/ /\ trades[t].state = "PENDING" /\ st = "SUCCESS"
                   /\ \A p \in trades[t].ourPsbt : p.tx \in confirmed
                \/ /\ trades[t].state = "PENDING" /\ st = "FAILED"
                   /\ \A p \in trades[t].ourPsbt :
                         p.tx \notin confirmed /\ Inputs(p.tx) \cap spent # {}
<1>1. \A p, q \in trades[t].ourPsbt : p = q
  BY DEF AtomicInv, RecordInv
<1>2. CASE Abandon(t)
  BY <1>2 DEF Abandon, Final
<1>3. CASE UpdatePending(t)
  <2>1. PICK p \in trades[t].ourPsbt :
          /\ trades[t].state = "PENDING"
          /\ \/ p.tx \in confirmed /\ Finalise(t, "SUCCESS")
             \/ /\ p.tx \notin OnChain
                /\ Inputs(p.tx) \cap spent # {}
                /\ Finalise(t, "FAILED")
    BY <1>3 DEF UpdatePending
  <2>2. \A q \in trades[t].ourPsbt : q = p
    BY <1>1
  <2>3. CASE p.tx \in confirmed /\ Finalise(t, "SUCCESS")
    BY <2>1, <2>2, <2>3 DEF Final
  <2>4. CASE /\ p.tx \notin OnChain /\ Inputs(p.tx) \cap spent # {}
             /\ Finalise(t, "FAILED")
    BY <2>1, <2>2, <2>4 DEF Final, OnChain
  <2> QED BY <2>1, <2>3, <2>4
<1> QED BY <1>2, <1>3

(* The invariant is inductive as long as no reply of sendrawtransaction is *)
(* lost.                                                                   *)
LEMMA AtomicStep ==
    ASSUME NoLostReply, TypeOK, AtomicInv, [Next]_vars
    PROVE  AtomicInv'
<1>0. ASSUME UNCHANGED <<trades, msgs, mempool, spent, confirmed>> PROVE AtomicInv'
  <2>1. SpendOutputs({}) /\ UNCHANGED <<trades, msgs>> /\ confirmed' = confirmed
    BY <1>0 DEF SpendOutputs
  <2> QED BY <2>1, ChainStep
<1>1. CASE \/ \E a \in Account, o \in Order, u \in Units : TakeOrder(a, o, u)
           \/ \E m \in msgs : ProcessMessage(m)
  <2>1. PICK t \in TradeId, tr \in TradeState, taking \in SUBSET Nat :
          /\ Slot(t) /\ RecordInv(t, tr) /\ Linked(t, tr)
          /\ taking # {} => GetRole(tr) = "TAKER"
          /\ \/ HasReply(t, tr)
             \/ CreateSellerData(t, tr, taking)
             \/ NoReply(t, tr, taking)
             \/ ThrowsAfterLock(t, tr) /\ UNCHANGED trades
          /\ UNCHANGED <<finalised, chainVars>>
    BY <1>1, ReplyCases
  <2>2. UNCHANGED <<spent, confirmed>>
    BY <2>1 DEF chainVars
  <2>3. CASE ThrowsAfterLock(t, tr) /\ UNCHANGED trades
    BY <1>0, <2>2, <2>3 DEF ThrowsAfterLock
  <2> QED BY <2>1, <2>2, <2>3, ReplyStep
<1>2. ASSUME NEW t \in DOMAIN trades, Abandon(t) \/ UpdatePending(t) PROVE AtomicInv'
  BY <1>2, UpdateOutcome, FinaliseStep
<1>3. ASSUME NEW o \in Removable, RemoveOrder(o) PROVE AtomicInv'
  BY <1>0, <1>3 DEF RemoveOrder, chainVars
<1>4. ASSUME NEW t \in DOMAIN trades, HandleFailure(t) \/ HandleSuccess(t)
      PROVE  AtomicInv'
  BY <1>0, <1>4 DEF HandleFailure, Release, UnlockFails, HandleSuccess, Settle, chainVars
<1>5. ASSUME NEW x \in mempool, Mine(x) PROVE AtomicInv'
  <2>1. /\ SpendOutputs(Inputs(x)) /\ UNCHANGED <<trades, msgs>>
        /\ confirmed' = confirmed \cup {x}
    BY <1>5 DEF Mine
  <2> QED BY <2>1, ChainStep
<1>6. ASSUME NEW a \in Account, SpendName(a) PROVE AtomicInv'
  <2>1. /\ SpendOutputs({NameOut(a, nameVer[a])}) /\ UNCHANGED <<trades, msgs>>
        /\ confirmed' = confirmed
    BY <1>6 DEF SpendName
  <2> QED BY <2>1, ChainStep
<1>7. ASSUME NEW a \in Account, NEW c \in Coin, SpendCoin(a, c) PROVE AtomicInv'
  <2>1. /\ SpendOutputs({CoinOut(a, c)}) /\ UNCHANGED <<trades, msgs>>
        /\ confirmed' = confirmed
    BY <1>7 DEF SpendCoin
  <2> QED BY <2>1, ChainStep
<1>8. CASE UNCHANGED vars
  BY <1>0, <1>8 DEF vars, chainVars
<1> QED BY <1>1, <1>2, <1>3, <1>4, <1>5, <1>6, <1>7, <1>8 DEF Next

(* The invariant holds in every reachable state.                           *)
LEMMA AtomicInvariant ==
    ASSUME NoLostReply
    PROVE  Spec => []AtomicInv
<1>1. Init => AtomicInv
  BY DEF Init, AtomicInv, OnChain
<1>2. TypeOK /\ AtomicInv /\ [Next]_vars => AtomicInv'
  BY AtomicStep
<1> QED BY <1>1, <1>2, TypeCorrect, PTL DEF Spec

-----------------------------------------------------------------------------
(* What the invariant is for *)

(* A confirmed or accepted transaction is the business of two trades.      *)
LEMMA BoundBacks ==
    ASSUME AtomicInv, NEW x \in OnChain
    PROVE  Backs(x.addr, x) /\ Backs(x.change, x)
<1>1. Bound(x)
  BY DEF AtomicInv
<1>2. x \in confirmed \/ Inputs(x) \cap spent = {}
  BY DEF AtomicInv, OnChain
<1>3. ASSUME NEW t, Committed(t, x) PROVE trades[t].state # "FAILED"
  <2>1. OutcomeInv(trades[t])
    BY <1>3 DEF Committed, AtomicInv
  <2> QED BY <1>2, <1>3, <2>1 DEF OutcomeInv, Committed
<1>4. trades[x.addr].order = x.order /\ trades[x.change].order = x.order
  BY <1>1 DEF Bound, Genuine, IsAddress, IsBuyer
<1> QED BY <1>1, <1>3, <1>4 DEF Bound, Committed, Backs

(* Trades are atomic, for any accounts and orders and any number of        *)
(* attempts, with messages lost, repeated and reordered and RPC calls that *)
(* throw: what Trade::HasReply puts on the network settles one trade of    *)
(* each party, which agree on order and amount, and neither is ever        *)
(* ABANDONED or FAILED.  Only the loss of the reply of sendrawtransaction  *)
(* is excluded, because it does break the property.                        *)
THEOREM TradesAreAtomic ==
    ASSUME NoLostReply
    PROVE  Spec => []AtomicTrade
<1>1. AtomicInv => AtomicTrade
  <2> SUFFICES ASSUME AtomicInv, NEW x \in OnChain
               PROVE  /\ Backs(x.addr, x) /\ Backs(x.change, x)
                      /\ trades[x.addr].account = x.name.own
                      /\ trades[x.addr].counterparty = x.buyer
                      /\ trades[x.change].account = x.buyer
                      /\ trades[x.change].counterparty = x.name.own
    BY DEF AtomicTrade
  <2>1. Genuine(x)
    BY DEF AtomicInv, Bound
  <2> QED BY <2>1, BoundBacks DEF Genuine, IsAddress, IsBuyer
<1> QED BY <1>1, AtomicInvariant, PTL

(* A trade that Trade::Update has abandoned is over: its account's         *)
(* signature is on no transaction of the trade that anybody else has seen, *)
(* so HandleFailure may unlock its outputs.                                *)
THEOREM AbandonIsSafe ==
    ASSUME NoLostReply
    PROVE  Spec => []AbandonedIsSafe
<1>1. AtomicInv => AbandonedIsSafe
  <2> SUFFICES ASSUME AtomicInv, NEW t \in DOMAIN trades, trades[t].state = "ABANDONED"
               PROVE  /\ \A x \in OnChain : t \notin {x.addr, x.change}
                      /\ \A m \in msgs : \A p \in m.psbt :
                            t \in {p.tx.addr, p.tx.change} => trades[t].account \notin p.sigs
    BY DEF AbandonedIsSafe
  <2>1. \A x : ~Committed(t, x)
    BY DEF Committed
  <2>2. \A x \in OnChain : t \notin {x.addr, x.change}
    BY <2>1 DEF AtomicInv, Bound
  <2>3. ASSUME NEW m \in msgs, NEW p \in m.psbt, t \in {p.tx.addr, p.tx.change},
               trades[t].account \in p.sigs
        PROVE  FALSE
    <3>1. Genuine(p.tx) /\ Pledged(p.tx, trades[t].account)
      BY <2>3 DEF AtomicInv, MessageInv, Shared
    <3>2. RecordInv(t, trades[t])
      BY DEF AtomicInv
    <3>3. CASE t = p.tx.change
      <4>1. trades[t].account = p.tx.buyer
        BY <3>1, <3>3 DEF Genuine, IsBuyer
      <4> QED BY <3>1, <3>3, <4>1, <2>1 DEF Pledged
    <3>4. CASE t = p.tx.addr
      <4>1. trades[t].account = p.tx.name.own /\ trades[t].counterparty = p.tx.buyer
        BY <3>1, <3>4 DEF Genuine, IsAddress
      <4>2. p.tx.buyer # trades[t].account
        BY <4>1, <3>2 DEF RecordInv, Parties
      <4> QED BY <3>1, <3>4, <4>2, <2>1 DEF Pledged
    <3> QED BY <2>3, <3>3, <3>4
  <2> QED BY <2>2, <2>3
<1> QED BY <1>1, AtomicInvariant, PTL

-----------------------------------------------------------------------------
(* Trades implements AtomicSwap *)

(* The refinement mapping of MCTrades.                                     *)
Phase == [t \in TradeId |-> IF t \in DOMAIN trades
                            THEN PhaseOf(trades[t].state) ELSE "none"]
OwnerOf == [t \in TradeId |-> IF t \in DOMAIN trades
                              THEN trades[t].account ELSE "nobody"]
Swaps == {{x.addr, x.change} : x \in confirmed}

(* Writing the record r of the trade t is a move of the record t.          *)
LEMMA PutMoves ==
    ASSUME NEW t \in TradeId, NEW r, trades' = Put(t, r), DOMAIN trades \subseteq TradeId
    PROVE  /\ Phase' = [Phase EXCEPT ![t] = PhaseOf(r.state)]
           /\ OwnerOf' = [OwnerOf EXCEPT ![t] = r.account]
           /\ t \in DOMAIN trades => Phase[t] = PhaseOf(trades[t].state)
           /\ t \notin DOMAIN trades => Phase[t] = "none"
           /\ t \in DOMAIN trades /\ r.account = trades[t].account => OwnerOf' = OwnerOf
<1>1. \A i : PhaseOf(trades[i].state)' = PhaseOf(trades'[i].state)
  BY DEF PhaseOf
<1>2. /\ DOMAIN trades' = DOMAIN trades \cup {t} /\ trades'[t] = r
      /\ \A i \in DOMAIN trades : i # t => trades'[i] = trades[i]
  BY DEF Put
<1>3. Phase' = [i \in TradeId |-> IF i \in DOMAIN trades'
                                  THEN PhaseOf(trades'[i].state) ELSE "none"]
  BY <1>1 DEF Phase, TradeId, PhaseOf
<1>4. Phase' = [Phase EXCEPT ![t] = PhaseOf(r.state)]
  BY <1>2, <1>3 DEF Phase
<1>5. OwnerOf' = [OwnerOf EXCEPT ![t] = r.account]
  BY <1>2 DEF OwnerOf, TradeId
<1>6. t \in DOMAIN trades => Phase[t] = PhaseOf(trades[t].state)
  BY DEF Phase
<1>7. t \notin DOMAIN trades => Phase[t] = "none"
  BY DEF Phase
<1>8. t \in DOMAIN trades /\ r.account = trades[t].account => OwnerOf' = OwnerOf
  BY <1>5 DEF OwnerOf
<1> QED BY <1>4, <1>5, <1>6, <1>7, <1>8

(* The shape of what HasReply does to the trades.                          *)
LEMMA ReplyShape ==
    ASSUME TypeOK, NEW t \in TradeId, NEW tr \in TradeState, NEW taking \in SUBSET Nat,
           RecordInv(t, tr), Linked(t, tr), NoLostReply,
           \/ /\ HasReply(t, tr)
              /\ t \in DOMAIN trades \/ (tr.theirPsbt = {} /\ GetRole(tr) = "MAKER")
           \/ CreateSellerData(t, tr, taking)
           \/ NoReply(t, tr, taking)
           \/ ThrowsAfterLock(t, tr) /\ UNCHANGED trades
    PROVE  \/ UNCHANGED trades
           \/ \E r : /\ trades' = Put(t, r) /\ r.account = tr.account
                     /\ \/ r.state = tr.state
                        \/ /\ tr.state = "INITIATED" /\ r.state = "PENDING"
                           /\ t \in DOMAIN trades
<1>1. ASSUME NEW k, CreateSellerData(t, tr, k) \/ NoReply(t, tr, k)
      PROVE  \E r : trades' = Put(t, r) /\ r.account = tr.account /\ r.state = tr.state
  <2>1. CASE CreateSellerData(t, tr, k)
    <3>1. PICK r : /\ r = [tr EXCEPT !.sellerData = {t},
                            !.nameOutput = {NameOut(tr.account, nameVer[tr.account])}]
                   /\ trades' = Put(t, r)
      BY <2>1 DEF CreateSellerData
    <3>2. r.account = tr.account /\ r.state = tr.state
      BY <3>1 DEF TradeState
    <3> QED BY <3>1, <3>2
  <2>2. CASE NoReply(t, tr, k)
    BY <2>2 DEF NoReply
  <2> QED BY <1>1, <2>1, <2>2
<1>2. CASE TakerSignsSale(t, tr) /\ t \in DOMAIN trades
  <2>1. PICK p, r : /\ SellerCanSign(tr, p) /\ trades' = Put(t, r)
                    /\ r = [tr EXCEPT !.ourPsbt = {SignPsbt(p, tr.account)},
                                      !.state = "PENDING"]
    BY <1>2 DEF TakerSignsSale
  <2>2. r.account = tr.account /\ r.state = "PENDING"
    BY <2>1 DEF TradeState
  <2>3. tr.state = "INITIATED"
    BY <2>1 DEF SellerCanSign
  <2> QED BY <1>2, <2>1, <2>2, <2>3
<1>3. CASE TakerSignsSale(t, tr) /\ tr.theirPsbt = {}
  BY <1>3 DEF TakerSignsSale
<1>4. ASSUME NEW shared, NEW st, FundAndSign(t, tr, shared, st)
      PROVE  /\ tr.state = "INITIATED"
             /\ \E r : trades' = Put(t, r) /\ r.account = tr.account /\ r.state = st
  <2>1. PICK x, r : /\ BuyerCanConstruct(tr) /\ trades' = Put(t, r)
                    /\ r = [tr EXCEPT !.state = st,
                               !.ourPsbt = {[tx |-> x, sigs |-> {tr.account}]}]
    BY <1>4 DEF FundAndSign
  <2>2. r.account = tr.account /\ r.state = st
    BY <2>1 DEF TradeState
  <2> QED BY <2>1, <2>2 DEF BuyerCanConstruct
<1>5. ASSUME NEW p \in FinalPsbts(tr)
      PROVE  /\ tr.state = "INITIATED"
             /\ LET r == [WithFinal(tr, p) EXCEPT !.state = "PENDING"] IN
                r.account = tr.account /\ r.state = "PENDING"
             /\ WithFinal(tr, p).account = tr.account
             /\ WithFinal(tr, p).state = tr.state
             /\ t \in DOMAIN trades \/ tr.theirPsbt # {}
  <2>1. tr.state = "INITIATED"
    BY DEF FinalPsbts
  <2>2. t \in DOMAIN trades \/ tr.theirPsbt # {}
    BY DEF FinalPsbts, Linked
  <2> QED BY <2>1, <2>2 DEF WithFinal, TradeState
<1>6. ASSUME t \in DOMAIN trades \/ tr.theirPsbt = {}, MakerBroadcasts(t, tr)
      PROVE  /\ tr.state = "INITIATED" /\ t \in DOMAIN trades
             /\ \E r : trades' = Put(t, r) /\ r.account = tr.account /\ r.state = "PENDING"
  BY <1>5, <1>6 DEF MakerBroadcasts
<1>7. CASE BroadcastRefused(t, tr)
  BY <1>5, <1>7 DEF BroadcastRefused
<1>8. CASE ThrowsAfterLock(t, tr) /\ trades' = Put(t, tr)
  BY <1>8
<1>9. ~BroadcastReplyLost(t, tr)
  BY DEF NoLostReply, BroadcastReplyLost
<1>10. ASSUME BuyerConstructs(t, tr),
              t \in DOMAIN trades \/ GetRole(tr) = "MAKER"
       PROVE  \E r : /\ trades' = Put(t, r) /\ r.account = tr.account
                     /\ \/ r.state = tr.state
                        \/ /\ tr.state = "INITIATED" /\ r.state = "PENDING"
                           /\ t \in DOMAIN trades
  BY <1>4, <1>10 DEF BuyerConstructs
<1> QED BY <1>1, <1>2, <1>3, <1>6, <1>7, <1>8, <1>9, <1>10 DEF HasReply

(* A trade is a party of at most one confirmed transaction, its own.       *)
LEMMA SwappedOwn ==
    ASSUME AtomicInv, NEW t, NEW y \in confirmed, t \in {y.addr, y.change}
    PROVE  /\ t \in DOMAIN trades
           /\ \A p \in trades[t].ourPsbt : p.tx = y
<1>1. Committed(t, y)
  BY DEF AtomicInv, Bound, OnChain
<1>2. t \in DOMAIN trades
  BY <1>1 DEF Committed
<1>3. RecordInv(t, trades[t])
  BY <1>2 DEF AtomicInv
<1> QED BY <1>1, <1>2, <1>3 DEF Committed, RecordInv

(* Every step of Trades is a step of AtomicSwap, or changes nothing there. *)
LEMMA SwapStep ==
    ASSUME NoLostReply, TypeOK, AtomicInv, [Next]_vars
    PROVE  [Swap!Next]_(Swap!vars)
<1> DEFINE Goal == Swap!Next \/ UNCHANGED <<Phase, OwnerOf, Swaps>>
<1>b. SUFFICES Goal
  BY DEF Swap!vars, Phase, OwnerOf, Swaps
<1>c. /\ DOMAIN trades \subseteq TradeId
      /\ \A t \in DOMAIN trades : trades[t] \in TradeState
  BY TradesAssumption DEF TypeOK, TradeId
<1>d. PhaseOf("INITIATED") = "open" /\ PhaseOf("PENDING") = "committed"
      /\ PhaseOf("SUCCESS") = "done" /\ PhaseOf("FAILED") = "off"
      /\ PhaseOf("ABANDONED") = "off"
  BY DEF PhaseOf
<1>e. confirmed' = confirmed => Swaps' = Swaps
  BY DEF Swaps
<1>f. UNCHANGED <<trades, confirmed>> => UNCHANGED <<Phase, OwnerOf, Swaps>>
  BY DEF Phase, OwnerOf, Swaps, PhaseOf, TradeId
<1>1. CASE \/ \E a \in Account, o \in Order, u \in Units : TakeOrder(a, o, u)
           \/ \E m \in msgs : ProcessMessage(m)
  <2>1. PICK t \in TradeId, tr \in TradeState, taking \in SUBSET Nat :
          /\ Slot(t) /\ RecordInv(t, tr) /\ Linked(t, tr)
          /\ \/ /\ HasReply(t, tr)
                /\ t \in DOMAIN trades \/ (tr.theirPsbt = {} /\ GetRole(tr) = "MAKER")
             \/ CreateSellerData(t, tr, taking)
             \/ NoReply(t, tr, taking)
             \/ ThrowsAfterLock(t, tr) /\ UNCHANGED trades
          /\ UNCHANGED <<finalised, chainVars>>
    BY <1>1, ReplyCases
  <2>2. confirmed' = confirmed /\ Swaps' = Swaps
    BY <2>1, <1>e DEF chainVars
  <2>3. CASE UNCHANGED trades
    BY <2>2, <2>3, <1>f
  <2>4. ASSUME NEW r, trades' = Put(t, r), r.account = tr.account,
               \/ r.state = tr.state
               \/ /\ tr.state = "INITIATED" /\ r.state = "PENDING"
                  /\ t \in DOMAIN trades
        PROVE  Goal
    <3>1. /\ Phase' = [Phase EXCEPT ![t] = PhaseOf(r.state)]
          /\ OwnerOf' = [OwnerOf EXCEPT ![t] = r.account]
          /\ t \in DOMAIN trades => Phase[t] = PhaseOf(trades[t].state)
          /\ t \notin DOMAIN trades => Phase[t] = "none"
          /\ t \in DOMAIN trades /\ r.account = trades[t].account => OwnerOf' = OwnerOf
      BY <1>c, <2>4, PutMoves
    <3>2. CASE t \notin DOMAIN trades
      <4>1. r.state = "INITIATED" /\ r.account \in Account
        BY <2>1, <2>4, <3>2 DEF Linked, TradeState
      <4>2. Swap!Start(t)
        BY <3>1, <3>2, <4>1, <2>2, <1>d DEF Swap!Start, Swap!Move, Phase, OwnerOf, Swaps
      <4> QED BY <4>2 DEF Swap!Next
    <3>3. CASE t \in DOMAIN trades /\ r.state = tr.state
      <4>1. tr.account = trades[t].account /\ tr.state = trades[t].state
        BY <2>1, <3>3 DEF Linked, Later
      <4>2. Phase' = Phase /\ OwnerOf' = OwnerOf
        BY <3>1, <3>3, <4>1, <2>4 DEF Phase
      <4> QED BY <4>2, <2>2
    <3>4. CASE t \in DOMAIN trades /\ tr.state = "INITIATED" /\ r.state = "PENDING"
      <4>1. tr.account = trades[t].account /\ tr.state = trades[t].state
        BY <2>1, <3>4 DEF Linked, Later
      <4>2. /\ Phase[t] = "open" /\ Phase' = [Phase EXCEPT ![t] = "committed"]
            /\ OwnerOf' = OwnerOf
        BY <3>1, <3>4, <4>1, <2>4, <1>d
      <4>3. Swap!Commit(t)
        BY <4>2, <2>2 DEF Swap!Commit, Swap!Move, Phase, OwnerOf, Swaps
      <4> QED BY <4>3 DEF Swap!Next
    <3> QED BY <2>4, <3>2, <3>3, <3>4
  <2> QED BY <2>1, <2>3, <2>4, ReplyShape
<1>2. ASSUME NEW t \in DOMAIN trades, Abandon(t) \/ UpdatePending(t) PROVE Goal
  <2>1. PICK st \in Final :
          /\ Finalise(t, st)
          /\ \/ trades[t].state = "INITIATED" /\ st = "ABANDONED"
             \/ /\ trades[t].state = "PENDING" /\ st = "SUCCESS"
                /\ \A p \in trades[t].ourPsbt : p.tx \in confirmed
             \/ /\ trades[t].state = "PENDING" /\ st = "FAILED"
                /\ \A p \in trades[t].ourPsbt :
                      p.tx \notin confirmed /\ Inputs(p.tx) \cap spent # {}
    BY <1>2, UpdateOutcome
  <2>2. PICK r : trades' = Put(t, r) /\ r = [trades[t] EXCEPT !.state = st]
    BY <2>1 DEF Finalise
  <2>3. r.account = trades[t].account /\ r.state = st /\ t \in TradeId
    BY <2>2, <1>c DEF TradeState
  <2>4. /\ Phase' = [Phase EXCEPT ![t] = PhaseOf(st)]
        /\ Phase[t] = PhaseOf(trades[t].state)
        /\ OwnerOf' = OwnerOf /\ Swaps' = Swaps
    <3>1. Swaps' = Swaps
      BY <1>e, <2>1 DEF Finalise, chainVars
    <3>2. /\ Phase' = [Phase EXCEPT ![t] = PhaseOf(r.state)]
          /\ Phase[t] = PhaseOf(trades[t].state)
          /\ OwnerOf' = OwnerOf
      BY <1>c, <2>2, <2>3, PutMoves
    <3> QED BY <3>1, <3>2, <2>3
  <2>5. CASE st = "ABANDONED"
    <3>1. Swap!CallOff(t)
      BY <2>1, <2>4, <2>5, <1>d DEF Swap!CallOff, Swap!Move, Phase, OwnerOf, Swaps
    <3> QED BY <3>1, <2>3 DEF Swap!Next
  <2>6. CASE st = "SUCCESS"
    <3>1. PICK p \in trades[t].ourPsbt : p.tx \in confirmed
      BY <2>1, <2>6, <1>c DEF TradeState
    <3>2. t \in {p.tx.addr, p.tx.change}
      <4>1. RecordInv(t, trades[t]) /\ GetOrderType(trades[t]) \in {"ASK", "BID"}
        BY <1>c, TradesAssumption DEF AtomicInv, GetOrderType, TradeState
      <4> QED BY <4>1 DEF RecordInv, SaleOK, PurchaseOK
    <3>3. Swap!Swapped(t)
      BY <3>1, <3>2 DEF Swap!Swapped
    <3>4. Swap!Finish(t)
      BY <2>1, <2>4, <2>6, <3>3, <1>d DEF Swap!Finish, Swap!Move, Phase, OwnerOf, Swaps
    <3> QED BY <3>4, <2>3 DEF Swap!Next
  <2>7. CASE st = "FAILED"
    <3>1. PICK p \in trades[t].ourPsbt : p.tx \notin confirmed
      BY <2>1, <2>7, <1>c DEF TradeState
    <3>2. ~Swap!Swapped(t)
      BY <3>1, SwappedOwn DEF Swap!Swapped
    <3>3. Swap!Fail(t)
      BY <2>1, <2>4, <2>7, <3>2, <1>d DEF Swap!Fail, Swap!Move, Phase, OwnerOf, Swaps
    <3> QED BY <3>3, <2>3 DEF Swap!Next
  <2> QED BY <2>5, <2>6, <2>7 DEF Final
<1>3. ASSUME NEW x \in mempool, Mine(x) PROVE Goal
  <2>1. confirmed' = confirmed \cup {x} /\ UNCHANGED trades
    BY <1>3 DEF Mine
  <2>2. x \notin confirmed
    BY DEF AtomicInv, Inputs
  <2>3. Bound(x) /\ Backs(x.addr, x) /\ Backs(x.change, x)
    BY BoundBacks DEF AtomicInv, OnChain
  <2>4. ASSUME NEW t, Backs(t, x) PROVE t \in TradeId /\ Phase[t] = "committed" /\ ~Swap!Swapped(t)
    <3>1. t \in DOMAIN trades /\ \E p \in trades[t].ourPsbt : p.tx = x
      BY <2>4 DEF Backs
    <3>2. OutcomeInv(trades[t])
      BY <3>1 DEF AtomicInv
    <3>3. trades[t].state = "PENDING"
      BY <2>2, <2>4, <3>1, <3>2 DEF OutcomeInv, Backs
    <3>4. t \in TradeId /\ Phase[t] = "committed"
      BY <3>1, <3>3, <1>c, <1>d DEF Phase
    <3>5. ~Swap!Swapped(t)
      BY <3>1, <2>2, SwappedOwn DEF Swap!Swapped
    <3> QED BY <3>4, <3>5
  <2>5. OwnerOf[x.addr] # OwnerOf[x.change]
    <3>1. /\ x.addr \in DOMAIN trades /\ x.change \in DOMAIN trades
          /\ trades[x.addr].account = x.name.own /\ trades[x.change].account = x.buyer
          /\ trades[x.addr].counterparty = x.buyer
      BY <2>3 DEF Bound, Genuine, IsAddress, IsBuyer
    <3>2. x.name.own # x.buyer
      BY <3>1 DEF AtomicInv, RecordInv, Parties
    <3> QED BY <3>1, <3>2, <1>c DEF OwnerOf
  <2>6. Swaps' = Swaps \cup {{x.addr, x.change}}
    BY <2>1 DEF Swaps
  <2>7. Phase' = Phase /\ OwnerOf' = OwnerOf
    BY <2>1 DEF Phase, OwnerOf, PhaseOf, TradeId
  <2>8. Swap!Exchange(x.addr, x.change)
    BY <2>3, <2>4, <2>5, <2>6, <2>7 DEF Swap!Exchange, Phase, OwnerOf, Swaps
  <2> QED BY <2>3, <2>4, <2>8 DEF Swap!Next
<1>4. ASSUME \/ \E t \in DOMAIN trades : HandleFailure(t) \/ HandleSuccess(t)
             \/ \E o \in Removable : RemoveOrder(o)
             \/ \E a \in Account : SpendName(a)
             \/ \E a \in Account, c \in Coin : SpendCoin(a, c)
             \/ UNCHANGED vars
      PROVE  Goal
  <2>1. UNCHANGED <<trades, confirmed>>
    BY <1>4 DEF HandleFailure, Release, UnlockFails, HandleSuccess, Settle, RemoveOrder,
                SpendName, SpendCoin, vars, chainVars
  <2> QED BY <2>1, <1>f
<1> QED BY <1>1, <1>2, <1>3, <1>4 DEF Next

(* HasReply, Update and the chain implement the atomic swap: for all        *)
(* accounts, orders and bounds, a trade can be called off only before its  *)
(* owner has committed, a block settles the trades of both owners at once, *)
(* and SUCCESS and FAILED say truthfully whether that has happened.        *)
THEOREM TradesImplementSwap ==
    ASSUME NoLostReply
    PROVE  Spec => SwapsAtomically
<1>1. Init => Swap!Init
  BY DEF Init, Swap!Init
<1>2. TypeOK /\ AtomicInv /\ [Next]_vars => [Swap!Next]_(Swap!vars)
  BY SwapStep
<1> QED BY <1>1, <1>2, TypeCorrect, AtomicInvariant, PTL DEF Spec, SwapsAtomically, Swap!Spec

-----------------------------------------------------------------------------
(* Sums over finite sets *)

(* A set of numbers that is not empty has a least one.                     *)
LEMMA LeastNumber ==
    ASSUME NEW T \in SUBSET Nat, T # {} PROVE \E p \in T : \A k \in T : p <= k
<1>1. PICK R : R = OpToRel(<, Nat) /\ IsWellFoundedOn(R, Nat)
  BY NatLessThanWellFounded, Zenon
<1>2. PICK p \in T : \A k \in T : ~(<<k, p>> \in R)
  BY <1>1, WFMin
<1>3. \A k \in T : k < p => <<k, p>> \in R
  BY <1>1, Zenon DEF OpToRel
<1>4. \A k \in T : ~(k < p)
  BY <1>2, <1>3
<1>5. p \in Int /\ \A k \in T : k \in Int
  OBVIOUS
<1>6. \A k \in T : p <= k
  BY <1>4, <1>5
<1> QED BY <1>6

(* Induction over the subsets of a finite set: among counterexamples, one  *)
(* is such that none is left when one of its elements is removed.          *)
LEMMA LeastSet ==
    ASSUME NEW U, IsFiniteSet(U), NEW B \in SUBSET (SUBSET U), B # {}
    PROVE  \E m \in B : \A x \in m : m \ {x} \notin B
<1> DEFINE T == {Cardinality(s) : s \in B}
<1>1. \A s \in SUBSET U : IsFiniteSet(s) /\ Cardinality(s) \in Nat
  BY FS_Subset, FS_CardinalityType
<1>2. T \in SUBSET Nat /\ T # {}
  BY <1>1
<1> HIDE DEF T
<1>3. PICK p \in T : \A k \in T : p <= k
  BY <1>2, LeastNumber
<1>4. PICK m \in B : p = Cardinality(m)
  BY DEF T
<1>5. ASSUME NEW x \in m, m \ {x} \in B PROVE FALSE
  <2>1. Cardinality(m \ {x}) = p - 1
    BY <1>1, <1>4, FS_RemoveElement
  <2>2. Cardinality(m \ {x}) \in T
    BY <1>5 DEF T
  <2>3. p \in Nat
    BY <1>2
  <2> QED BY <2>1, <2>2, <2>3, <1>3
<1> QED BY <1>5

(* The element of s that a fold takes first.                               *)
First(s) == CHOOSE x \in s : TRUE

(* The equation that defines the sums of f over the subsets of U.          *)
Fold(f, U, g) ==
    [s \in SUBSET U |-> IF s = {} THEN 0 ELSE f[First(s)] + g[s \ {First(s)}]]
Tally(f) == CHOOSE g : g = Fold(f, DOMAIN f, g)

(* The sums exist.                                                         *)
LEMMA TallyExists ==
    ASSUME NEW U, IsFiniteSet(U), NEW f \in [U -> Nat]
    PROVE  \E g \in [SUBSET U -> Nat] : g = Fold(f, U, g)
<1>1. \A s \in SUBSET U : IsFiniteSet(s) /\ Cardinality(s) \in Nat
  BY FS_Subset, FS_CardinalityType
<1>2. \A s \in SUBSET U : s # {} => First(s) \in s
  BY DEF First
<1> DEFINE Upto(g, n) ==
             \A s \in SUBSET U : Cardinality(s) <= n => g[s] = Fold(f, U, g)[s]
           Bad == {n \in Nat : ~\E g \in [SUBSET U -> Nat] : Upto(g, n)}
<1>3. ASSUME NEW g \in [SUBSET U -> Nat] PROVE Fold(f, U, g) \in [SUBSET U -> Nat]
  <2>1. ASSUME NEW s \in SUBSET U, s # {} PROVE f[First(s)] + g[s \ {First(s)}] \in Nat
    <3>1. First(s) \in U /\ s \ {First(s)} \in SUBSET U
      BY <2>1, <1>2
    <3> QED BY <3>1
  <2> QED BY <2>1 DEF Fold
<1>4. Bad = {}
  <2> SUFFICES ASSUME Bad # {} PROVE FALSE
    OBVIOUS
  <2>1. PICK n \in Bad : \A k \in Bad : n <= k
    BY LeastNumber
  <2>2. CASE n = 0
    <3> DEFINE z == [s \in SUBSET U |-> 0]
    <3>1. z \in [SUBSET U -> Nat]
      OBVIOUS
    <3>2. ASSUME NEW s \in SUBSET U, Cardinality(s) <= 0 PROVE z[s] = Fold(f, U, z)[s]
      <4>1. s = {}
        BY <1>1, <3>2, FS_EmptySet
      <4> QED BY <4>1 DEF Fold
    <3>3. Upto(z, 0)
      BY <3>2
    <3> QED BY <3>1, <3>3, <2>1, <2>2
  <2>3. CASE n # 0
    <3>1. n - 1 \in Nat /\ ~(n <= n - 1)
      BY <2>3
    <3>2. PICK g \in [SUBSET U -> Nat] : Upto(g, n - 1)
      BY <2>1, <3>1
    <3>3. PICK h : h = Fold(f, U, g) /\ h \in [SUBSET U -> Nat]
      BY <1>3
    <3>4. ASSUME NEW s \in SUBSET U, Cardinality(s) <= n PROVE h[s] = Fold(f, U, h)[s]
      <4>1. CASE s = {}
        BY <4>1, <3>3 DEF Fold
      <4>2. CASE s # {}
        <5>1. PICK c : c = First(s) /\ c \in s
          BY <4>2, <1>2
        <5>2. s \ {c} \in SUBSET U /\ Cardinality(s \ {c}) = Cardinality(s) - 1
          BY <5>1, <1>1, FS_RemoveElement
        <5>3. Cardinality(s \ {c}) <= n - 1
          BY <5>2, <3>4, <1>1
        <5>4. g[s \ {c}] = Fold(f, U, g)[s \ {c}]
          BY <5>2, <5>3, <3>2
        <5>5. h[s] = f[c] + g[s \ {c}]
          BY <5>1, <3>3, <4>2 DEF Fold
        <5>6. Fold(f, U, h)[s] = f[c] + h[s \ {c}]
          BY <5>1, <4>2 DEF Fold
        <5> QED BY <5>4, <5>5, <5>6, <3>3
      <4> QED BY <4>1, <4>2
    <3>5. Upto(h, n)
      BY <3>4
    <3> QED BY <3>3, <3>5, <2>1
  <2> QED BY <2>2, <2>3
<1>5. PICK g \in [SUBSET U -> Nat] : Upto(g, Cardinality(U))
  <2>1. Cardinality(U) \in Nat
    BY <1>1
  <2> QED BY <2>1, <1>4
<1>6. \A s \in SUBSET U : Cardinality(s) <= Cardinality(U)
  BY FS_Subset
<1>7. \A s \in SUBSET U : g[s] = Fold(f, U, g)[s]
  BY <1>5, <1>6
<1>8. g = Fold(f, U, g)
  BY <1>7 DEF Fold
<1> QED BY <1>8

(* The sums of f: of no numbers, and of at least one.                      *)
LEMMA TallyLaw ==
    ASSUME NEW U, IsFiniteSet(U), NEW f \in [U -> Nat]
    PROVE  /\ Tally(f) \in [SUBSET U -> Nat]
           /\ Tally(f) = Fold(f, U, Tally(f))
<1>1. DOMAIN f = U
  OBVIOUS
<1>2. PICK g \in [SUBSET U -> Nat] : g = Fold(f, U, g)
  BY TallyExists
<1>3. Tally(f) = Fold(f, U, Tally(f))
  BY <1>1, <1>2, Zenon DEF Tally
<1>4. PICK t : t = Tally(f) /\ t = Fold(f, U, t)
  BY <1>3
<1> DEFINE B == {s \in SUBSET U : t[s] # g[s]}
<1>5. B = {}
  <2> SUFFICES ASSUME B # {} PROVE FALSE
    OBVIOUS
  <2>1. PICK m \in B : \A x \in m : m \ {x} \notin B
    BY LeastSet
  <2>2. m # {}
    BY <1>2, <1>4 DEF Fold
  <2>3. PICK c : c = First(m) /\ c \in m
    BY <2>2 DEF First
  <2>4. t[m] = f[c] + t[m \ {c}]
    BY <1>4, <2>2, <2>3 DEF Fold
  <2>5. g[m] = f[c] + g[m \ {c}]
    BY <1>2, <2>2, <2>3 DEF Fold
  <2>6. t[m \ {c}] = g[m \ {c}]
    BY <2>1, <2>3
  <2> QED BY <2>4, <2>5, <2>6
<1>6. t = g
  <2>1. t = [s \in SUBSET U |-> t[s]] /\ g = [s \in SUBSET U |-> g[s]]
    BY <1>4 DEF Fold
  <2> QED BY <2>1, <1>5
<1> QED BY <1>2, <1>3, <1>4, <1>6

(* It does not matter which number is added first.                         *)
LEMMA TallyRemove ==
    ASSUME NEW U, IsFiniteSet(U), NEW f \in [U -> Nat],
           NEW S \in SUBSET U, NEW x \in S
    PROVE  Tally(f)[S] = f[x] + Tally(f)[S \ {x}]
<1>1. PICK t \in [SUBSET U -> Nat] : t = Tally(f) /\ t = Fold(f, U, t)
  BY TallyLaw
<1> DEFINE B == {s \in SUBSET U : \E y \in s : t[s] # f[y] + t[s \ {y}]}
<1>2. B = {}
  <2> SUFFICES ASSUME B # {} PROVE FALSE
    OBVIOUS
  <2>1. PICK m \in B : \A y \in m : m \ {y} \notin B
    BY LeastSet
  <2>2. PICK y \in m : t[m] # f[y] + t[m \ {y}]
    OBVIOUS
  <2>3. PICK c : c = First(m) /\ c \in m
    BY DEF First
  <2>4. t[m] = f[c] + t[m \ {c}]
    BY <1>1, <2>3 DEF Fold
  <2>5. c # y /\ y \in m \ {c} /\ c \in m \ {y}
    BY <2>2, <2>3, <2>4
  <2>6. t[m \ {c}] = f[y] + t[(m \ {c}) \ {y}]
    BY <2>1, <2>3, <2>5
  <2>7. t[m \ {y}] = f[c] + t[(m \ {y}) \ {c}]
    BY <2>1, <2>5
  <2>8. (m \ {c}) \ {y} = (m \ {y}) \ {c} /\ (m \ {c}) \ {y} \in SUBSET U
    OBVIOUS
  <2>9. f[c] \in Nat /\ f[y] \in Nat /\ t[(m \ {c}) \ {y}] \in Nat
    BY <2>3, <2>8
  <2>10. t[m \ {y}] = f[c] + t[(m \ {c}) \ {y}]
    BY <2>7, <2>8
  <2> QED BY <2>2, <2>4, <2>6, <2>9, <2>10
<1> QED BY <1>1, <1>2

(* The sum over two sets without a common element.                         *)
LEMMA TallyUnion ==
    ASSUME NEW U, IsFiniteSet(U), NEW f \in [U -> Nat],
           NEW S \in SUBSET U, NEW R \in SUBSET U, S \cap R = {}
    PROVE  Tally(f)[S \cup R] = Tally(f)[S] + Tally(f)[R]
<1>1. PICK t \in [SUBSET U -> Nat] : t = Tally(f) /\ t = Fold(f, U, t)
  BY TallyLaw
<1>2. ASSUME NEW s \in SUBSET U, NEW x \in s PROVE t[s] = f[x] + t[s \ {x}]
  BY <1>1, TallyRemove
<1> DEFINE B == {r \in SUBSET R : t[S \cup r] # t[S] + t[r]}
<1>3. B = {}
  <2> SUFFICES ASSUME B # {} PROVE FALSE
    OBVIOUS
  <2>1. B \in SUBSET (SUBSET U)
    OBVIOUS
  <2>2. PICK m \in B : \A y \in m : m \ {y} \notin B
    BY <2>1, LeastSet
  <2>3. m # {}
    <3>1. t[{}] = 0
      BY <1>1 DEF Fold
    <3>2. t[S \cup {}] = t[S] + t[{}]
      BY <3>1
    <3> QED BY <3>2
  <2>4. PICK y : y \in m
    BY <2>3
  <2>5. t[m] = f[y] + t[m \ {y}]
    BY <1>2, <2>4
  <2>6. S \cup m \in SUBSET U /\ y \in S \cup m /\ (S \cup m) \ {y} = S \cup (m \ {y})
    BY <2>4
  <2>7. t[S \cup m] = f[y] + t[S \cup (m \ {y})]
    BY <1>2, <2>6
  <2>8. t[S \cup (m \ {y})] = t[S] + t[m \ {y}]
    BY <2>2, <2>4
  <2>9. f[y] \in Nat /\ t[S] \in Nat /\ t[m \ {y}] \in Nat
    BY <2>4
  <2> QED BY <2>5, <2>7, <2>8, <2>9
<1> QED BY <1>1, <1>3

(* A sum is at most another one if every number in it is at most one of    *)
(* the other sum, a different one each time.                               *)
LEMMA TallyInjection ==
    ASSUME NEW U, IsFiniteSet(U), NEW f \in [U -> Nat], NEW S \in SUBSET U,
           NEW W, IsFiniteSet(W), NEW g \in [W -> Nat], NEW R \in SUBSET W,
           NEW h \in [S -> R],
           \A x, y \in S : h[x] = h[y] => x = y,
           \A x \in S : f[x] <= g[h[x]]
    PROVE  Tally(f)[S] <= Tally(g)[R]
<1>1. PICK t \in [SUBSET U -> Nat] : t = Tally(f) /\ t = Fold(f, U, t)
  BY TallyLaw
<1>2. PICK u \in [SUBSET W -> Nat] : u = Tally(g) /\ u = Fold(g, W, u)
  BY TallyLaw
<1>3. ASSUME NEW s \in SUBSET U, NEW x \in s PROVE t[s] = f[x] + t[s \ {x}]
  BY <1>1, TallyRemove
<1>4. ASSUME NEW s \in SUBSET W, NEW x \in s PROVE u[s] = g[x] + u[s \ {x}]
  BY <1>2, TallyRemove
<1> DEFINE Im(s) == {h[x] : x \in s}
           B == {s \in SUBSET S : ~(t[s] <= u[Im(s)])}
<1>5. \A s \in SUBSET S : Im(s) \in SUBSET R /\ Im(s) \in SUBSET W
  OBVIOUS
<1>6. B = {}
  <2> SUFFICES ASSUME B # {} PROVE FALSE
    OBVIOUS
  <2>1. B \in SUBSET (SUBSET U)
    OBVIOUS
  <2>2. PICK m \in B : \A y \in m : m \ {y} \notin B
    BY <2>1, LeastSet
  <2>3. m # {}
    <3>1. t[{}] = 0
      BY <1>1 DEF Fold
    <3>2. Im({}) = {} /\ u[{}] \in Nat
      OBVIOUS
    <3>3. t[{}] <= u[Im({})]
      BY <3>1, <3>2
    <3> QED BY <3>3
  <2>4. PICK y : y \in m
    BY <2>3
  <2>5. t[m] = f[y] + t[m \ {y}]
    BY <1>3, <2>4
  <2>6. h[y] \in Im(m) /\ Im(m) \ {h[y]} = Im(m \ {y})
    BY <2>4
  <2>7. u[Im(m)] = g[h[y]] + u[Im(m \ {y})]
    <3>1. PICK i \in SUBSET W : i = Im(m)
      BY <1>5
    <3>2. u[i] = g[h[y]] + u[i \ {h[y]}]
      BY <3>1, <1>4, <2>6
    <3> QED BY <3>1, <3>2, <2>6
  <2>8. t[m \ {y}] <= u[Im(m \ {y})]
    BY <2>2, <2>4
  <2>9. /\ f[y] \in Nat /\ g[h[y]] \in Nat /\ f[y] <= g[h[y]]
        /\ t[m \ {y}] \in Nat /\ u[Im(m \ {y})] \in Nat
    BY <2>4, <1>5
  <2>10. t[m] <= u[Im(m)]
    BY ONLY <2>5, <2>7, <2>8, <2>9
  <2> QED BY <2>10
<1>7. t[S] <= u[Im(S)]
  BY <1>6
<1>8. u[R] = u[Im(S)] + u[R \ Im(S)]
  <2>1. PICK i : i = Im(S) /\ i \in SUBSET R
    BY <1>5
  <2>0. R \ i \in SUBSET W /\ i \in SUBSET W
    BY <2>1
  <2>2. PICK j \in SUBSET W : j = R \ i /\ i \in SUBSET W
    BY <2>0
  <2>3. i \cap j = {} /\ i \cup j = R
    BY <2>1, <2>2
  <2>4. Tally(g)[i \cup j] = Tally(g)[i] + Tally(g)[j]
    BY <2>2, <2>3, TallyUnion
  <2> QED BY <2>1, <2>2, <2>3, <2>4, <1>2
<1>9. t[S] \in Nat /\ u[Im(S)] \in Nat /\ u[R \ Im(S)] \in Nat
  BY <1>5
<1> QED BY <1>1, <1>2, <1>7, <1>8, <1>9

(* Whatever satisfies the equation of the sums for a subset has them.      *)
LEMMA FoldIsTally ==
    ASSUME NEW U, IsFiniteSet(U), NEW f \in [U -> Nat], NEW S \in SUBSET U
    PROVE  /\ \E it : it = Fold(f, S, it)
           /\ \A it : it = Fold(f, S, it) => it[S] = Tally(f)[S]
<1>1. PICK t \in [SUBSET U -> Nat] : t = Tally(f) /\ t = Fold(f, U, t)
  BY TallyLaw
<1>2. PICK r : r = [s \in SUBSET S |-> t[s]]
  OBVIOUS
<1>3. r = Fold(f, S, r)
  <2>1. ASSUME NEW s \in SUBSET S PROVE r[s] = Fold(f, S, r)[s]
    <3>1. s \in SUBSET U /\ s \ {First(s)} \in SUBSET S
      OBVIOUS
    <3>2. t[s] = IF s = {} THEN 0 ELSE f[First(s)] + t[s \ {First(s)}]
      BY <3>1, <1>1 DEF Fold
    <3>3. r[s] = t[s] /\ r[s \ {First(s)}] = t[s \ {First(s)}]
      BY <3>1, <1>2
    <3> QED BY <3>2, <3>3 DEF Fold
  <2> QED BY <2>1, <1>2 DEF Fold
<1>4. ASSUME NEW it, it = Fold(f, S, it) PROVE it[S] = t[S]
  <2> DEFINE B == {s \in SUBSET S : it[s] # t[s]}
  <2>1. B = {}
    <3> SUFFICES ASSUME B # {} PROVE FALSE
      OBVIOUS
    <3>1. B \in SUBSET (SUBSET U)
      OBVIOUS
    <3>2. PICK m \in B : \A x \in m : m \ {x} \notin B
      BY <3>1, LeastSet
    <3>3. m # {}
      BY <1>1, <1>4 DEF Fold
    <3>4. PICK c : c = First(m) /\ c \in m
      BY <3>3 DEF First
    <3>5. t[m] = f[c] + t[m \ {c}]
      BY <1>1, <3>3, <3>4 DEF Fold
    <3>6. it[m] = f[c] + it[m \ {c}]
      BY <1>4, <3>3, <3>4 DEF Fold
    <3>7. t[m \ {c}] = it[m \ {c}]
      BY <3>2, <3>4
    <3> QED BY <3>5, <3>6, <3>7
  <2> QED BY <2>1
<1> QED BY <1>1, <1>3, <1>4

SumOf(f, S) == MapThenSumSet(LAMBDA x : f[x], S)
SumOfUnits(S) == MapThenSumSet(LAMBDA x : x.units, S)

(* The sum of a function is one of its sums.                               *)
LEMMA SumIsTally ==
    ASSUME NEW U, IsFiniteSet(U), NEW f \in [U -> Nat], NEW S \in SUBSET U
    PROVE  SumOf(f, S) = Tally(f)[S]
<1> DEFINE it == CHOOSE g : g = Fold(f, S, g)
<1>1. SumOf(f, S) = it[S]
  BY DEF SumOf, MapThenSumSet, MapThenFoldSet, Fold, First
<1>2. it = Fold(f, S, it)
  BY FoldIsTally, Zenon
<1> QED BY <1>1, <1>2, FoldIsTally

(* The equation that defines the sum of the units of transactions.         *)
UnitsFold(S, g) ==
    [s \in SUBSET S |-> IF s = {} THEN 0 ELSE First(s).units + g[s \ {First(s)}]]

(* The sum of the units of transactions is one of the sums of f.           *)
LEMMA UnitSumIsTally ==
    ASSUME NEW U, IsFiniteSet(U), NEW f \in [U -> Nat], NEW S \in SUBSET U,
           \A x \in U : f[x] = x.units
    PROVE  SumOfUnits(S) = Tally(f)[S]
<1> DEFINE it == CHOOSE g : g = UnitsFold(S, g)
<1>1. SumOfUnits(S) = it[S]
  BY DEF SumOfUnits, MapThenSumSet, MapThenFoldSet, UnitsFold, First
<1>2. ASSUME NEW g PROVE UnitsFold(S, g) = Fold(f, S, g)
  <2>1. \A s \in SUBSET S : s # {} => First(s) \in U
    BY DEF First
  <2> QED BY <2>1 DEF UnitsFold, Fold
<1>3. PICK r : r = Fold(f, S, r)
  BY FoldIsTally
<1>5. r = UnitsFold(S, r)
  BY <1>2, <1>3
<1>4. it = UnitsFold(S, it)
  BY <1>5, Zenon
<1> QED BY <1>1, <1>2, <1>4, FoldIsTally

-----------------------------------------------------------------------------
(* What is offered and what has been sold *)

(* The trade t is one of the maker of its order.                           *)
OfMaker(t) == trades[t].account = Maker[trades[t].order]
Sold(t) == OfMaker(t) /\ trades[t].state = "SUCCESS"
Claims(t) == OfMaker(t) /\ (t \in Unreleased \/ trades[t].state = "SUCCESS")

(* An order is sold at most once, and then it is gone and nobody else      *)
(* negotiates about it; what its maker negotiates about is not more than   *)
(* what is offered.                                                        *)
SalesInv ==
    /\ \A t \in DOMAIN trades :
          Sold(t) /\ t \notin finalised => ownOrder[trades[t].order] = "gone"
    /\ \A s, t \in DOMAIN trades :
          Sold(s) /\ Claims(t) /\ trades[s].order = trades[t].order => s = t
    /\ \A t \in Unreleased :
          OfMaker(t) => trades[t].units <= maxUnits[trades[t].order]

(* An order its maker negotiates about is locked or removed, and there is  *)
(* only one such trade.                                                    *)
LEMMA MakerLocks ==
    ASSUME TypeOK, OrderLocked, NEW t \in Unreleased, OfMaker(t)
    PROVE  /\ ownOrder[trades[t].order] \in {"locked", "gone"}
           /\ \A s \in Unreleased :
                 OfMaker(s) /\ trades[s].order = trades[t].order => s = t
<1>1. t \in DOMAIN trades /\ trades[t].order \in Order
  BY DEF Unreleased, TypeOK, TradeState
<1>2. t \in Keepers(trades[t].order)
  BY DEF Keepers, OfMaker
<1>3. \A s \in Unreleased :
        OfMaker(s) /\ trades[s].order = trades[t].order => s \in Keepers(trades[t].order)
  BY DEF Keepers, OfMaker
<1>4. LockFits(ownOrder[trades[t].order], Keepers(trades[t].order))
  BY <1>1, OrderLockedParts
<1>5. ownOrder[trades[t].order] \in {"none", "open", "locked", "gone"}
  BY <1>1 DEF TypeOK
<1> QED BY <1>2, <1>3, <1>4, <1>5 DEF LockFits

(* A step that writes no trade and brings no order back keeps the          *)
(* invariant.                                                              *)
LEMMA SalesFrame ==
    ASSUME TypeOK, SalesInv, trades' = trades, maxUnits' = maxUnits,
           finalised' = finalised,
           \A o \in Order : ownOrder[o] = "gone" => ownOrder'[o] = "gone"
    PROVE  SalesInv'
<1>1. \A t \in DOMAIN trades : trades[t].order \in Order
  BY DEF TypeOK, TradeState
<1>2. Unreleased' = Unreleased
  BY DEF Unreleased, IsFinalised, Final
<1>3. \A t : /\ OfMaker(t)' <=> OfMaker(t)
             /\ Sold(t)' <=> Sold(t)
             /\ Claims(t)' <=> Claims(t)
  BY <1>2 DEF OfMaker, Sold, Claims
<1> QED BY <1>1, <1>2, <1>3 DEF SalesInv

(* HasReply keeps the invariant: CheckOrder limits what a new trade of the *)
(* maker is about.                                                         *)
LEMMA SalesReply ==
    ASSUME TypeOK, OrderLocked, SalesInv, NEW t \in TradeId, NEW tr \in TradeState,
           NEW taking \in SUBSET Nat, NEW r \in TradeState, NEW outs,
           Replies(t, tr, taking, r, outs)
    PROVE  SalesInv'
<1>1. /\ Call(t, tr, taking) /\ Effect(t, tr, taking, r, outs) /\ LocksOrder(t, tr)
      /\ finalised' = finalised
  BY DEF Replies
<1>2. /\ DOMAIN trades' = DOMAIN trades \cup {t} /\ trades'[t] = r
      /\ \A i \in DOMAIN trades : i # t => trades'[i] = trades[i]
      /\ Unreleased' = Unreleased \cup {t}
      /\ t \in DOMAIN trades => t \in Unreleased
  <2>1. Written(t, tr, r, outs)
    BY <1>1, EffectFacts
  <2> QED BY <2>1 DEF Written
<1>3. /\ r.account = tr.account /\ r.order = tr.order /\ r.units = tr.units
      /\ r.state # "SUCCESS"
      /\ t \in DOMAIN trades => /\ tr.account = trades[t].account
                                /\ tr.order = trades[t].order
                                /\ tr.units = trades[t].units
  BY <1>1 DEF Effect, Call, IsFinalised, Final
<1>4. /\ maxUnits' = maxUnits
      /\ \A o \in Order : ownOrder[o] = "gone" => ownOrder'[o] = "gone"
      /\ t \notin DOMAIN trades /\ tr.account = Maker[tr.order] =>
            tr.units <= maxUnits[tr.order]
  BY <1>1 DEF LocksOrder, TypeOK
<1>5. \A i \in DOMAIN trades' : Sold(i)' =>
        i \in DOMAIN trades /\ i # t /\ Sold(i) /\ trades'[i] = trades[i]
  BY <1>2, <1>3 DEF Sold, OfMaker
<1>6. \A i \in DOMAIN trades : trades[i].order \in Order
  BY DEF TypeOK, TradeState
<1>7. \A i \in DOMAIN trades' : Sold(i)' /\ i \notin finalised' =>
        ownOrder'[trades'[i].order] = "gone"
  BY <1>1, <1>4, <1>5, <1>6 DEF SalesInv
<1>8. ASSUME NEW i \in DOMAIN trades', NEW j \in DOMAIN trades', Sold(i)', Claims(j)',
             trades'[i].order = trades'[j].order
      PROVE  i = j
  <2>1. i \in DOMAIN trades /\ i # t /\ Sold(i) /\ trades'[i] = trades[i]
    BY <1>5, <1>8
  <2>2. CASE j \in DOMAIN trades
    <3>1. trades'[j].order = trades[j].order /\ Claims(j)
      BY <2>2, <1>2, <1>3, <1>8 DEF Claims, OfMaker
    <3> QED BY <2>1, <2>2, <3>1, <1>8 DEF SalesInv
  <2>3. CASE j \notin DOMAIN trades
    <3>1. j = t /\ t \notin DOMAIN trades /\ tr.account = Maker[tr.order]
      BY <2>3, <1>2, <1>3, <1>8 DEF Claims, OfMaker
    <3>2. trades[i].order = tr.order /\ ownOrder[tr.order] = "open"
      BY <2>1, <3>1, <1>1, <1>2, <1>3, <1>8 DEF LocksOrder
    <3>3. i \in finalised
      BY <2>1, <3>2 DEF SalesInv
    <3>4. i \in Unreleased /\ OfMaker(i)
      BY <2>1, <3>3 DEF Unreleased, Sold
    <3>5. ownOrder[tr.order] \in {"locked", "gone"}
      BY <3>2, <3>4, MakerLocks
    <3> QED BY <3>2, <3>5
  <2> QED BY <2>2, <2>3
<1>9. ASSUME NEW i \in Unreleased', OfMaker(i)'
      PROVE  trades'[i].units <= maxUnits'[trades'[i].order]
  <2>1. CASE i = t /\ t \in DOMAIN trades
    <3>1. t \in Unreleased /\ OfMaker(t)
      BY <2>1, <1>2, <1>3, <1>9 DEF OfMaker
    <3> QED BY <2>1, <3>1, <1>2, <1>3, <1>4 DEF SalesInv
  <2>2. CASE i = t /\ t \notin DOMAIN trades
    BY <2>2, <1>2, <1>3, <1>4, <1>9 DEF OfMaker
  <2>3. CASE i # t
    <3>1. i \in Unreleased /\ i \in DOMAIN trades
      BY <2>3, <1>2, <1>9 DEF Unreleased
    <3> QED BY <2>3, <3>1, <1>2, <1>4, <1>9 DEF SalesInv, OfMaker
  <2> QED BY <2>1, <2>2, <2>3
<1> QED BY <1>7, <1>8, <1>9 DEF SalesInv

(* The updater keeps the invariant: an active trade of the maker is the    *)
(* only one for its order, which has not been sold yet.                    *)
LEMMA SalesEnd ==
    ASSUME TypeOK, OrderLocked, SalesInv, NEW t \in DOMAIN trades, NEW st \in Final,
           Ends(t, st)
    PROVE  SalesInv'
<1>1. /\ Finalise(t, st) /\ ~IsFinalised(trades[t])
      /\ finalised' = finalised \cup {t} /\ ownOrder' = ownOrder /\ maxUnits' = maxUnits
  BY DEF Ends, Finalise
<1>2. /\ DOMAIN trades' = DOMAIN trades /\ Unreleased' = Unreleased
      /\ \A i \in DOMAIN trades :
            /\ trades'[i].account = trades[i].account
            /\ trades'[i].order = trades[i].order /\ trades'[i].units = trades[i].units
            /\ trades'[i].state = IF i = t THEN st ELSE trades[i].state
  BY <1>1, FinaliseFacts
<1>3. t \in Unreleased
  BY <1>1 DEF Unreleased
<1>4. \A i \in DOMAIN trades : OfMaker(i)' <=> OfMaker(i)
  BY <1>2 DEF OfMaker
<1>5. \A i \in DOMAIN trades : Sold(i)' => Sold(i) \/ (i = t /\ OfMaker(t))
  BY <1>2, <1>4 DEF Sold
<1>6. /\ OfMaker(t) => Claims(t)
      /\ \A i \in DOMAIN trades : Claims(i)' <=> Claims(i)
  BY <1>2, <1>3, <1>4 DEF Claims
<1>11. ASSUME OfMaker(t), NEW s \in DOMAIN trades, Claims(s),
             trades[s].order = trades[t].order
      PROVE  s = t
  <2>1. CASE s \in Unreleased
    BY <2>1, <1>3, <1>11, MakerLocks DEF Claims
  <2>2. CASE Sold(s)
    BY <2>2, <1>6, <1>11 DEF SalesInv
  <2> QED BY <2>1, <2>2, <1>11 DEF Claims, Sold
<1>7. \A i \in DOMAIN trades' : Sold(i)' /\ i \notin finalised' =>
        ownOrder'[trades'[i].order] = "gone"
  BY <1>1, <1>2, <1>5 DEF SalesInv
<1>8. \A i, j \in DOMAIN trades' :
        Sold(i)' /\ Claims(j)' /\ trades'[i].order = trades'[j].order => i = j
  BY <1>2, <1>5, <1>6, <1>11 DEF SalesInv
<1>9. \A i \in Unreleased' :
        OfMaker(i)' => trades'[i].units <= maxUnits'[trades'[i].order]
  BY <1>1, <1>2, <1>4 DEF SalesInv, Unreleased
<1> QED BY <1>7, <1>8, <1>9 DEF SalesInv

(* The clean up after a trade t keeps the invariant.                       *)
LEMMA SalesCleanUp ==
    ASSUME TypeOK, OrderLocked, SalesInv, NEW t \in DOMAIN trades,
           t \in finalised, IsFinalised(trades[t]),
           trades' = trades, finalised' = finalised \ {t},
           \A o \in Order : ownOrder[o] = "gone" => ownOrder'[o] = "gone",
           Sold(t) => ownOrder'[trades[t].order] = "gone",
           \A o \in Order : ownOrder[o] # "none" => maxUnits'[o] = maxUnits[o]
    PROVE  SalesInv'
<1>1. t \in Unreleased /\ Unreleased' = Unreleased \ {t}
  BY CleanUp
<1>2. \A i \in DOMAIN trades : (Sold(i)' <=> Sold(i)) /\ (OfMaker(i)' <=> OfMaker(i))
  BY DEF Sold, OfMaker
<1>3. \A i \in DOMAIN trades : trades[i].order \in Order
  BY DEF TypeOK, TradeState
<1>4. \A i \in DOMAIN trades' : Sold(i)' /\ i \notin finalised' =>
        ownOrder'[trades'[i].order] = "gone"
  BY <1>2, <1>3 DEF SalesInv
<1>5. \A i, j \in DOMAIN trades' :
        Sold(i)' /\ Claims(j)' /\ trades'[i].order = trades'[j].order => i = j
  BY <1>1, <1>2 DEF SalesInv, Claims
<1>6. ASSUME NEW i \in Unreleased', OfMaker(i)'
      PROVE  trades'[i].units <= maxUnits'[trades'[i].order]
  <2>1. i \in Unreleased /\ i \in DOMAIN trades /\ OfMaker(i)
    BY <1>1, <1>2, <1>6 DEF Unreleased
  <2>2. ownOrder[trades[i].order] # "none"
    BY <2>1, MakerLocks
  <2> QED BY <2>1, <2>2, <1>3 DEF SalesInv
<1> QED BY <1>4, <1>5, <1>6 DEF SalesInv

OwnOrders(a, ty) == {o \in Order : Maker[o] = a /\ Type[o] = ty}

(* The order can be taken, or its maker negotiates about it still; what is *)
(* left of it then comes back even if it was removed.                      *)
Offered(o) ==
    \/ ownOrder[o] \in {"open", "locked"}
    \/ \E t \in Unreleased : OfMaker(t) /\ trades[t].order = o

(* The books c assign to every order what is sold or still offered of it:  *)
(* that is enough for the order, and no account has more than it offered   *)
(* initially.                                                              *)
Books(c) ==
    /\ c \in [Order -> Nat]
    /\ \A o \in Order : Offered(o) => maxUnits[o] <= c[o]
    /\ \A t \in DOMAIN trades : Sold(t) => trades[t].units <= c[trades[t].order]
    /\ \A a \in Account, ty \in {"ASK", "BID"} :
          Tally(c)[OwnOrders(a, ty)] <= Tally(InitUnits)[OwnOrders(a, ty)]

Balanced == \E c : Books(c)

(* The books stay as they are if nothing more is offered, and what is sold *)
(* is covered.                                                             *)
LEMMA BooksKeep ==
    ASSUME NEW c, Books(c), maxUnits' = maxUnits,
           \A o \in Order : Offered(o)' => Offered(o),
           \A t \in DOMAIN trades' : Sold(t)' =>
              \/ /\ t \in DOMAIN trades /\ Sold(t)
                 /\ trades'[t].units = trades[t].units
                 /\ trades'[t].order = trades[t].order
              \/ trades'[t].units <= c[trades'[t].order]
    PROVE  Books(c)'
BY DEF Books

(* What is left of a sold order is offered again: the books transfer it.   *)
LEMMA BooksSplit ==
    ASSUME IsFiniteSet(Order), NEW c \in [Order -> Nat], NEW o \in Order, NEW n \in Order,
           o # n, NEW rest \in Nat, rest <= c[o], Maker[n] = Maker[o], Type[n] = Type[o],
           NEW a, NEW ty
    PROVE  LET d == [c EXCEPT ![o] = c[o] - rest, ![n] = rest] IN
           /\ d \in [Order -> Nat]
           /\ Tally(d)[OwnOrders(a, ty)] <= Tally(c)[OwnOrders(a, ty)]
<1>1. PICK d : d = [c EXCEPT ![o] = c[o] - rest, ![n] = rest]
  OBVIOUS
<1>2. /\ d \in [Order -> Nat] /\ d[o] = c[o] - rest /\ d[n] = rest
      /\ \A i \in Order : i # o /\ i # n => d[i] = c[i]
  BY <1>1
<1>3. PICK own \in SUBSET Order : own = OwnOrders(a, ty)
  BY DEF OwnOrders
<1>4. ASSUME NEW S \in SUBSET Order, o \notin S, n \notin S
      PROVE  Tally(d)[S] <= Tally(c)[S]
  <2>1. PICK h : h = [i \in S |-> i]
    OBVIOUS
  <2>2. h \in [S -> S] /\ (\A x, y \in S : h[x] = h[y] => x = y)
        /\ \A x \in S : d[x] <= c[h[x]]
    BY <2>1, <1>2, <1>4
  <2> QED BY <2>2, <1>2, TallyInjection
<1>5. Tally(d) \in [SUBSET Order -> Nat] /\ Tally(c) \in [SUBSET Order -> Nat]
  BY <1>2, TallyLaw
<1>6. CASE o \in own
  <2>1. n \in own
    BY <1>3, <1>6 DEF OwnOrders
  <2>2. PICK s1 \in SUBSET Order : s1 = own \ {o} /\ n \in s1
    BY <2>1
  <2>0. s1 \ {n} \in SUBSET Order /\ o \notin s1
    BY <2>2
  <2>3. PICK s2 \in SUBSET Order : s2 = s1 \ {n} /\ o \notin s2 /\ n \notin s2
    BY <2>0
  <2>4. Tally(d)[own] = d[o] + Tally(d)[s1] /\ Tally(c)[own] = c[o] + Tally(c)[s1]
    BY <1>2, <1>6, <2>2, TallyRemove
  <2>5. Tally(d)[s1] = d[n] + Tally(d)[s1 \ {n}] /\ Tally(c)[s1] = c[n] + Tally(c)[s1 \ {n}]
    BY <1>2, <2>2, TallyRemove
  <2>6. Tally(d)[s2] <= Tally(c)[s2]
    BY <2>3, <1>4
  <2>7. Tally(d)[s2] \in Nat /\ Tally(c)[s2] \in Nat /\ c[n] \in Nat /\ c[o] \in Nat
    BY <1>5
  <2>8. Tally(d)[own] <= Tally(c)[own]
    BY ONLY <2>3, <2>4, <2>5, <2>6, <2>7, <1>2, rest \in Nat
  <2> QED BY <2>8, <1>1, <1>2, <1>3
<1>7. CASE o \notin own
  <2>1. n \notin own
    BY <1>3, <1>7 DEF OwnOrders
  <2>2. Tally(d)[own] <= Tally(c)[own]
    BY <2>1, <1>4, <1>7
  <2> QED BY <2>2, <1>1, <1>2, <1>3
<1> QED BY <1>6, <1>7

(* HandleSuccess keeps sales and books in order.                           *)
LEMMA SettleStep ==
    ASSUME IsFiniteSet(Order), TypeOK, OrderLocked, SalesInv, Balanced,
           NEW t \in DOMAIN trades, HandleSuccess(t)
    PROVE  SalesInv' /\ Balanced'
<1> USE TradesAssumption
<1>1. /\ t \in finalised /\ trades[t].state = "SUCCESS" /\ IsFinalised(trades[t])
      /\ finalised' = finalised \ {t} /\ trades' = trades
  BY DEF HandleSuccess, Settle, IsFinalised, Final
<1>2. PICK c : Books(c)
  BY DEF Balanced
<1>3. /\ c \in [Order -> Nat] /\ maxUnits \in [Order -> Nat]
      /\ ownOrder \in [Order -> {"none", "open", "locked", "gone"}]
  BY <1>2 DEF Books, TypeOK
<1>4. PICK o \in Order, u \in Nat : o = trades[t].order /\ u = trades[t].units
  BY DEF TypeOK, TradeState
<1>5. \A i \in DOMAIN trades : Sold(i)' <=> Sold(i)
  BY <1>1 DEF Sold, OfMaker
<1>6. t \in Unreleased /\ Unreleased' = Unreleased \ {t}
  BY <1>1, CleanUp
<1>9. \A i \in Order : /\ Offered(i)' => \/ ownOrder'[i] \in {"open", "locked"}
                                         \/ Offered(i)
                       /\ ownOrder[i] \in {"open", "locked"} => Offered(i)
  BY <1>1, <1>6 DEF Offered, OfMaker
<1>7. CASE ~OfMaker(t)
  <2>1. ownOrder' = ownOrder /\ maxUnits' = maxUnits
    BY <1>7 DEF HandleSuccess, Settle, OfMaker, GetRole
  <2>2. SalesInv'
    <3>1. ~Sold(t)
      BY <1>7 DEF Sold
    <3> QED BY <2>1, <3>1, <1>1, SalesCleanUp
  <2>3. Books(c)'
    BY <1>1, <1>2, <1>5, <1>9, <2>1, BooksKeep
  <2> QED BY <2>2, <2>3 DEF Balanced
<1>8. CASE OfMaker(t)
  <2>1. /\ ownOrder[o] # "none" /\ u <= maxUnits[o] /\ maxUnits[o] <= c[o]
        /\ Sold(t) /\ maxUnits[o] \in Nat /\ c[o] \in Nat
    <3>1. ownOrder[o] # "none" /\ Offered(o)
      BY <1>4, <1>6, <1>8, MakerLocks DEF Offered
    <3>2. u <= maxUnits[o]
      BY <1>4, <1>6, <1>8 DEF SalesInv
    <3>3. maxUnits[o] <= c[o]
      BY <1>2, <3>1 DEF Books
    <3> QED BY <3>1, <3>2, <3>3, <1>1, <1>3, <1>8 DEF Sold
  <2>2. \/ \E n \in Order :
              /\ IsFreshCopy(n, o)
              /\ ownOrder' = [ownOrder EXCEPT ![o] = "gone", ![n] = "open"]
              /\ maxUnits' = [maxUnits EXCEPT ![n] = maxUnits[o] - u]
        \/ ownOrder' = [ownOrder EXCEPT ![o] = "gone"] /\ maxUnits' = maxUnits
    BY <1>4, <1>8 DEF HandleSuccess, Settle, OfMaker, GetRole
  <2>3. CASE ownOrder' = [ownOrder EXCEPT ![o] = "gone"] /\ maxUnits' = maxUnits
    <3>1. /\ ownOrder'[o] = "gone"
          /\ \A i \in Order : i # o => ownOrder'[i] = ownOrder[i]
      BY <2>3, <1>3
    <3>2. SalesInv'
      BY <3>1, <2>3, <1>1, <1>4, SalesCleanUp
    <3>3. Books(c)'
      BY <1>1, <1>2, <1>5, <1>9, <2>3, <3>1, BooksKeep
    <3> QED BY <3>2, <3>3 DEF Balanced
  <2>4. ASSUME NEW n \in Order, IsFreshCopy(n, o),
               ownOrder' = [ownOrder EXCEPT ![o] = "gone", ![n] = "open"],
               maxUnits' = [maxUnits EXCEPT ![n] = maxUnits[o] - u]
        PROVE  SalesInv' /\ Balanced'
    <3>1. o # n /\ ownOrder[n] = "none" /\ Maker[n] = Maker[o] /\ Type[n] = Type[o]
      BY <2>1, <2>4 DEF IsFreshCopy
    <3>2. /\ ownOrder'[o] = "gone" /\ ownOrder'[n] = "open"
          /\ maxUnits'[n] = maxUnits[o] - u
          /\ \A i \in Order : i # n => maxUnits'[i] = maxUnits[i]
          /\ \A i \in Order : i # n /\ i # o => ownOrder'[i] = ownOrder[i]
      BY <2>4, <3>1, <1>3
    <3>3. SalesInv'
      <4>1. \A i \in Order : ownOrder[i] = "gone" => ownOrder'[i] = "gone"
        BY <3>1, <3>2
      <4>2. \A i \in Order : ownOrder[i] # "none" => maxUnits'[i] = maxUnits[i]
        BY <3>1, <3>2
      <4> QED BY <3>2, <4>1, <4>2, <1>1, <1>4, SalesCleanUp
    <3>4. PICK rest \in Nat : rest = maxUnits[o] - u /\ rest <= c[o]
      BY <2>1
    <3>5. PICK d : d = [c EXCEPT ![o] = c[o] - rest, ![n] = rest]
      OBVIOUS
    <3>6. /\ d[o] = c[o] - rest /\ d[n] = rest
          /\ \A i \in Order : i # o /\ i # n => d[i] = c[i]
      BY <3>1, <3>5, <1>3
    <3>7. \A a, ty : /\ d \in [Order -> Nat]
                     /\ Tally(d)[OwnOrders(a, ty)] <= Tally(c)[OwnOrders(a, ty)]
      BY <3>1, <3>4, <3>5, <1>3, BooksSplit
    <3>8. ASSUME NEW i \in Order, Offered(i)' PROVE maxUnits'[i] <= d[i]
      <4>1. CASE i = n
        BY <4>1, <3>2, <3>4, <3>6
      <4>2. CASE i # n /\ i # o
        BY <4>2, <3>2, <3>6, <3>8, <1>2, <1>9 DEF Books
      <4>3. CASE i = o
        <5>1. PICK s \in Unreleased : s # t /\ OfMaker(s) /\ trades[s].order = o
          BY <4>3, <3>2, <3>8, <1>1, <1>6 DEF Offered, OfMaker
        <5>2. s = t
          BY <5>1, <1>4, <1>6, <1>8, MakerLocks
        <5> QED BY <5>1, <5>2
      <4> QED BY <4>1, <4>2, <4>3
    <3>9. ASSUME NEW i \in DOMAIN trades', Sold(i)'
          PROVE  trades'[i].units <= d[trades'[i].order]
      <4>1. i \in DOMAIN trades /\ Sold(i) /\ trades[i].order \in Order
        BY <3>9, <1>1, <1>5 DEF TypeOK, TradeState
      <4>2. CASE trades[i].order = o
        <5>1. i = t
          BY <4>1, <4>2, <2>1, <1>4 DEF SalesInv, Claims, Sold
        <5>2. u <= c[o] - rest
          BY <2>1, <3>4
        <5> QED BY <5>1, <5>2, <1>1, <1>4, <3>6
      <4>3. CASE trades[i].order = n
        <5>1. i \notin finalised
          <6> SUFFICES ASSUME i \in finalised PROVE FALSE
            OBVIOUS
          <6>1. i \in Unreleased /\ OfMaker(i)
            BY <4>1 DEF Unreleased, Sold
          <6>2. ownOrder[n] # "none"
            BY <6>1, <4>3, MakerLocks
          <6> QED BY <6>2, <3>1
        <5>2. ownOrder[n] = "gone"
          BY <5>1, <4>1, <4>3 DEF SalesInv
        <5> QED BY <5>2, <3>1
      <4>4. CASE trades[i].order # o /\ trades[i].order # n
        BY <4>1, <4>4, <3>6, <1>1, <1>2 DEF Books
      <4> QED BY <4>2, <4>3, <4>4
    <3>10. ASSUME NEW a \in Account, NEW ty \in {"ASK", "BID"}
           PROVE  Tally(d)[OwnOrders(a, ty)] <= Tally(InitUnits)[OwnOrders(a, ty)]
      <4>1. /\ Tally(d) \in [SUBSET Order -> Nat] /\ Tally(c) \in [SUBSET Order -> Nat]
            /\ Tally(InitUnits) \in [SUBSET Order -> Nat]
        BY <3>7, <1>3, TallyLaw
      <4>2. OwnOrders(a, ty) \in SUBSET Order
        BY DEF OwnOrders
      <4>3. Tally(c)[OwnOrders(a, ty)] <= Tally(InitUnits)[OwnOrders(a, ty)]
        BY <1>2 DEF Books
      <4>4. Tally(d)[OwnOrders(a, ty)] <= Tally(c)[OwnOrders(a, ty)]
        BY <3>7
      <4> QED BY <4>1, <4>2, <4>3, <4>4
    <3>11. Books(d)'
      BY <3>7, <3>8, <3>9, <3>10 DEF Books, OwnOrders
    <3> QED BY <3>3, <3>11 DEF Balanced
  <2> QED BY <2>2, <2>3, <2>4
<1> QED BY <1>7, <1>8

(* Sales and books stay in order with every step.                          *)
LEMMA BooksStep ==
    ASSUME IsFiniteSet(Order), TypeOK, WalletInv, TakingToMaker, OrderLocked,
           SalesInv, Balanced, [Next]_vars
    PROVE  SalesInv' /\ Balanced'
<1> USE TradesAssumption
<1>1. PICK c : Books(c)
  BY DEF Balanced
<1>2. /\ ownOrder \in [Order -> {"none", "open", "locked", "gone"}]
      /\ \A i \in DOMAIN trades : trades[i].order \in Order
  BY DEF TypeOK, TradeState
<1>3. ASSUME NEW t \in TradeId, NEW tr \in TradeState, NEW taking \in SUBSET Nat,
             NEW r \in TradeState, NEW outs, Replies(t, tr, taking, r, outs)
      PROVE  SalesInv' /\ Balanced'
  <2>1. SalesInv'
    BY <1>3, SalesReply
  <2>2. /\ Call(t, tr, taking) /\ Effect(t, tr, taking, r, outs) /\ LocksOrder(t, tr)
        /\ finalised' = finalised
    BY <1>3 DEF Replies
  <2>3. /\ DOMAIN trades' = DOMAIN trades \cup {t} /\ trades'[t] = r
        /\ \A i \in DOMAIN trades : i # t => trades'[i] = trades[i]
        /\ Unreleased' = Unreleased \cup {t}
        /\ t \in DOMAIN trades => t \in Unreleased
    <3>1. Written(t, tr, r, outs)
      BY <2>2, EffectFacts
    <3> QED BY <3>1 DEF Written
  <2>4. /\ r.state # "SUCCESS" /\ r.account = tr.account /\ r.order = tr.order
        /\ t \in DOMAIN trades => /\ tr.account = trades[t].account
                                  /\ tr.order = trades[t].order
    BY <2>2 DEF Effect, Call, IsFinalised, Final
  <2>5. \A i \in DOMAIN trades' : Sold(i)' =>
          i \in DOMAIN trades /\ Sold(i) /\ trades'[i] = trades[i]
    BY <2>3, <2>4 DEF Sold, OfMaker
  <2>6. maxUnits' = maxUnits
    BY <2>2 DEF LocksOrder
  <2>8. ASSUME NEW o \in Order, Offered(o)' PROVE Offered(o)
    <3>1. ownOrder'[o] \in {"open", "locked"} => ownOrder[o] \in {"open", "locked"}
      BY <2>2, <1>2 DEF LocksOrder
    <3>2. ASSUME NEW i \in Unreleased, i # t, OfMaker(i)', trades'[i].order = o
          PROVE  OfMaker(i) /\ trades[i].order = o
      BY <2>3, <3>2 DEF OfMaker, Unreleased
    <3>3. ASSUME OfMaker(t)', trades'[t].order = o
          PROVE  \/ ownOrder[o] = "open"
                 \/ t \in Unreleased /\ OfMaker(t) /\ trades[t].order = o
      BY <2>2, <2>3, <2>4, <3>3 DEF OfMaker, LocksOrder
    <3> QED BY <2>3, <2>8, <3>1, <3>2, <3>3 DEF Offered
  <2>7. Books(c)'
    BY <2>5, <2>6, <2>8, <1>1, BooksKeep
  <2> QED BY <2>1, <2>7 DEF Balanced
<1>4. ASSUME trades' = trades, finalised' = finalised, maxUnits' = maxUnits,
             \A o \in Order : ownOrder'[o] \in {ownOrder[o], "gone"}
      PROVE  SalesInv' /\ Balanced'
  <2>1. SalesInv'
    BY <1>4, SalesFrame
  <2>2. \A o \in Order : Offered(o)' => Offered(o)
    BY <1>4 DEF Offered, OfMaker, Unreleased, IsFinalised, Final
  <2>3. Books(c)'
    BY <1>1, <1>4, <2>2, BooksKeep DEF Sold, OfMaker
  <2> QED BY <2>1, <2>3 DEF Balanced
<1>5. ASSUME NEW a \in Account, NEW out, OnlyLocks(a, out) PROVE SalesInv' /\ Balanced'
  BY <1>4, <1>5 DEF OnlyLocks
<1>6. CASE Outsider
  BY <1>4, <1>6 DEF Outsider, Mine, SpendName, SpendCoin, Idle
<1>10. ASSUME NEW o \in Order, Removes(o) PROVE SalesInv' /\ Balanced'
  BY <1>2, <1>4, <1>10 DEF Removes
<1>7. ASSUME NEW t \in DOMAIN trades, NEW st \in Final, Ends(t, st)
      PROVE  SalesInv' /\ Balanced'
  <2>1. SalesInv'
    BY <1>7, SalesEnd
  <2>2. /\ Finalise(t, st) /\ ~IsFinalised(trades[t])
        /\ ownOrder' = ownOrder /\ maxUnits' = maxUnits
    BY <1>7 DEF Ends, Finalise
  <2>3. /\ DOMAIN trades' = DOMAIN trades /\ Unreleased' = Unreleased
        /\ \A i \in DOMAIN trades :
              /\ trades'[i].account = trades[i].account
              /\ trades'[i].order = trades[i].order /\ trades'[i].units = trades[i].units
              /\ trades'[i].state = IF i = t THEN st ELSE trades[i].state
    BY <2>2, FinaliseFacts
  <2>4. ASSUME OfMaker(t) PROVE trades'[t].units <= c[trades'[t].order]
    <3>1. t \in Unreleased
      BY <2>2 DEF Unreleased
    <3>2. PICK o \in Order, u \in Nat : o = trades[t].order /\ u = trades[t].units
      BY DEF TypeOK, TradeState
    <3>3. Offered(o) /\ u <= maxUnits[o]
      BY <2>4, <3>1, <3>2 DEF SalesInv, Offered
    <3>4. maxUnits[o] <= c[o] /\ maxUnits[o] \in Nat /\ c[o] \in Nat
      BY <1>1, <3>3 DEF Books, TypeOK
    <3> QED BY <2>3, <3>2, <3>3, <3>4
  <2>5. \A i \in DOMAIN trades' : Sold(i)' =>
              \/ /\ i \in DOMAIN trades /\ Sold(i)
                 /\ trades'[i].units = trades[i].units
                 /\ trades'[i].order = trades[i].order
              \/ trades'[i].units <= c[trades'[i].order]
    <3>1. ASSUME NEW i \in DOMAIN trades', Sold(i)', i # t
          PROVE  /\ i \in DOMAIN trades /\ Sold(i)
                 /\ trades'[i].units = trades[i].units
                 /\ trades'[i].order = trades[i].order
      BY <2>3, <3>1 DEF Sold, OfMaker
    <3>2. ASSUME Sold(t)' PROVE OfMaker(t)
      BY <2>3, <3>2 DEF Sold, OfMaker
    <3> QED BY <3>1, <3>2, <2>4
  <2>7. \A o \in Order : Offered(o)' => Offered(o)
    BY <2>2, <2>3 DEF Offered, OfMaker, Unreleased
  <2>6. Books(c)'
    BY <1>1, <2>2, <2>5, <2>7, BooksKeep
  <2> QED BY <2>1, <2>6 DEF Balanced
<1>8. ASSUME NEW t \in DOMAIN trades, Unlocks(t) PROVE SalesInv' /\ Balanced'
  <2>1. /\ t \in finalised /\ IsFinalised(trades[t]) /\ trades[t].state # "SUCCESS"
        /\ finalised' = finalised \ {t} /\ trades' = trades /\ maxUnits' = maxUnits
        /\ \A o \in HeldOrders(trades[t]) : ownOrder[o] = "locked"
        /\ ownOrder' = [o \in Order |->
              IF o \in HeldOrders(trades[t]) THEN "open" ELSE ownOrder[o]]
    BY <1>8 DEF Unlocks, Release, Failed, IsFinalised, Final
  <2>2. \A o \in Order :
          \/ ownOrder'[o] = ownOrder[o]
          \/ ownOrder'[o] = "open" /\ ownOrder[o] = "locked"
    BY <2>1, <1>2
  <2>3. SalesInv'
    <3>1. ~Sold(t) /\ \A o \in Order : ownOrder[o] = "gone" => ownOrder'[o] = "gone"
      BY <2>1, <2>2 DEF Sold
    <3> QED BY <2>1, <3>1, SalesCleanUp
  <2>4. Unreleased' = Unreleased \ {t}
    BY <2>1, CleanUp
  <2>5. \A o \in Order : Offered(o)' => Offered(o)
    BY <2>1, <2>2, <2>4 DEF Offered, OfMaker
  <2>6. Books(c)'
    BY <1>1, <2>1, <2>5, BooksKeep DEF Sold, OfMaker
  <2> QED BY <2>3, <2>6 DEF Balanced
<1>9. ASSUME NEW t \in DOMAIN trades, HandleSuccess(t) PROVE SalesInv' /\ Balanced'
  BY <1>9, SettleStep
<1> QED BY <1>3, <1>5, <1>6, <1>7, <1>8, <1>9, <1>10, StepCases

(* The trade t of the maker is behind the transaction x.                   *)
Sells(t, x) ==
    /\ t \in DOMAIN trades /\ OfMaker(t)
    /\ trades[t].order = x.order /\ trades[t].units = x.units
    /\ trades[t].state \in {"PENDING", "SUCCESS"}
    /\ \A p \in trades[t].ourPsbt : p.tx = x
    /\ trades[t].ourPsbt # {}

(* There is such a trade for every transaction on the network.             *)
LEMMA MakerSells ==
    ASSUME AtomicInv, NEW x \in OnChain
    PROVE  \E t : Sells(t, x)
<1>1. /\ Backs(x.addr, x) /\ Backs(x.change, x)
      /\ trades[x.addr].account = x.name.own /\ trades[x.addr].counterparty = x.buyer
      /\ trades[x.change].account = x.buyer
  BY BoundBacks DEF AtomicInv, Bound, Genuine, IsAddress, IsBuyer
<1>2. ASSUME NEW t, Backs(t, x), trades[t].account = Maker[x.order] PROVE Sells(t, x)
  <2>1. t \in DOMAIN trades
    BY <1>2 DEF Backs
  <2>2. \A p, q \in trades[t].ourPsbt : p = q
    BY <2>1 DEF AtomicInv, RecordInv
  <2> QED BY <1>2, <2>2 DEF Backs, Sells, OfMaker
<1>3. Maker[x.order] \in {x.name.own, x.buyer}
  <2>1. x.addr \in DOMAIN trades /\ trades[x.addr].order = x.order
    BY <1>1 DEF Backs
  <2>2. Parties(trades[x.addr].account, trades[x.addr].counterparty, trades[x.addr].order)
    BY <2>1 DEF AtomicInv, RecordInv
  <2> QED BY <1>1, <2>1, <2>2 DEF Parties
<1> QED BY <1>1, <1>2, <1>3

(* An order is behind at most one transaction; then it is not open, and    *)
(* the books cover what is sold.                                           *)
LEMMA SoldOnce ==
    ASSUME TypeOK, OrderLocked, SalesInv, AtomicInv, NEW c, Books(c), NEW x \in OnChain
    PROVE  /\ x.order \in Order /\ x.units \in Nat
           /\ ownOrder[x.order] # "open" /\ x.units <= c[x.order]
           /\ \A y \in OnChain : y.order = x.order => y = x
<1>1. PICK t : Sells(t, x)
  BY MakerSells
<1>2. PICK o \in Order, u \in Nat : o = x.order /\ u = x.units
  BY DEF TypeOK, OnChain, Tx
<1>3. ASSUME NEW s, NEW y, Sells(s, y), y.order = o
      PROVE  /\ s \in DOMAIN trades /\ OfMaker(s) /\ trades[s].order = o
             /\ Claims(s) /\ (s \in Unreleased \/ Sold(s))
             /\ ownOrder[o] # "open"
  <2>1. /\ s \in DOMAIN trades /\ OfMaker(s) /\ trades[s].order = o
        /\ trades[s].state \in {"PENDING", "SUCCESS"}
    BY <1>3 DEF Sells
  <2>2. CASE s \in Unreleased
    BY <2>1, <2>2, MakerLocks DEF Claims
  <2>3. CASE s \notin Unreleased
    <3>1. Sold(s) /\ s \notin finalised
      BY <2>1, <2>3 DEF Unreleased, IsFinalised, Final, Sold
    <3> QED BY <2>1, <3>1 DEF SalesInv, Claims, Sold
  <2> QED BY <2>2, <2>3
<1>4. ownOrder[o] # "open"
  BY <1>1, <1>2, <1>3
<1>5. u <= c[o]
  <2>1. trades[t].units = u /\ trades[t].order = o /\ t \in DOMAIN trades /\ OfMaker(t)
    BY <1>1, <1>2 DEF Sells
  <2>2. CASE t \in Unreleased
    <3>1. u <= maxUnits[o] /\ Offered(o)
      BY <2>1, <2>2 DEF SalesInv, Offered
    <3>2. maxUnits[o] <= c[o] /\ maxUnits[o] \in Nat /\ c[o] \in Nat
      BY <3>1 DEF Books, TypeOK
    <3> QED BY <3>1, <3>2
  <2>3. CASE Sold(t)
    BY <2>1, <2>3 DEF Books
  <2> QED BY <1>1, <1>2, <1>3, <2>2, <2>3
<1>6. ASSUME NEW y \in OnChain, y.order = o PROVE y = x
  <2>1. PICK s : Sells(s, y)
    BY MakerSells
  <2>2. s = t
    <3>1. /\ s \in DOMAIN trades /\ OfMaker(s) /\ trades[s].order = o
          /\ Claims(s) /\ (s \in Unreleased \/ Sold(s))
      BY <1>3, <1>6, <2>1
    <3>2. /\ t \in DOMAIN trades /\ OfMaker(t) /\ trades[t].order = o
          /\ Claims(t) /\ (t \in Unreleased \/ Sold(t))
      BY <1>1, <1>2, <1>3
    <3>3. CASE s \in Unreleased /\ t \in Unreleased
      BY <3>1, <3>2, <3>3, MakerLocks
    <3>4. CASE Sold(s) \/ Sold(t)
      BY <3>1, <3>2, <3>4 DEF SalesInv
    <3> QED BY <3>1, <3>2, <3>3, <3>4
  <2> QED BY <1>1, <2>1, <2>2 DEF Sells
<1> QED BY <1>2, <1>4, <1>5, <1>6

(* The books show that nobody has sold and offers more than it had.        *)
LEMMA BooksCover ==
    ASSUME IsFiniteSet(Order), TypeOK, OrderLocked, SalesInv, AtomicInv, Balanced
    PROVE  NeverOversold
<1>1. PICK c : Books(c)
  BY DEF Balanced
<1>2. c \in [Order -> Nat] /\ maxUnits \in [Order -> Nat] /\ InitUnits \in [Order -> Nat]
  BY <1>1, TradesAssumption DEF Books, TypeOK
<1>3. ASSUME NEW x \in OnChain
      PROVE  /\ x.order \in Order /\ x.units \in Nat
             /\ ownOrder[x.order] # "open" /\ x.units <= c[x.order]
             /\ \A y \in OnChain : y.order = x.order => y = x
  BY <1>1, SoldOnce
<1>4. IsFiniteSet(OnChain)
  <2> DEFINE h == [x \in OnChain |-> x.order]
  <2>1. h \in Injection(OnChain, Order)
    BY <1>3 DEF Injection, IsInjective
  <2> QED BY <2>1, FS_Injection
<1>5. PICK f \in [OnChain -> Nat] : \A x \in OnChain : f[x] = x.units
  <2> DEFINE g == [x \in OnChain |-> x.units]
  <2>1. g \in [OnChain -> Nat] /\ \A x \in OnChain : g[x] = x.units
    BY <1>3
  <2> QED BY <2>1
<1>6. ASSUME NEW a \in Account, NEW ty \in {"ASK", "BID"}
      PROVE  LET own == {o \in Order : Maker[o] = a /\ Type[o] = ty}
                 sold == {x \in OnChain : x.order \in own}
                 open == {o \in own : ownOrder[o] = "open"} IN
             SumOfUnits(sold) + SumOf(maxUnits, open) <= SumOf(InitUnits, own)
  <2>1. PICK own \in SUBSET Order : own = OwnOrders(a, ty)
    BY DEF OwnOrders
  <2>2. PICK sold \in SUBSET OnChain : sold = {x \in OnChain : x.order \in own}
    OBVIOUS
  <2>3. PICK open \in SUBSET Order : open = {o \in own : ownOrder[o] = "open"}
    OBVIOUS
  <2>4. PICK shut \in SUBSET Order : shut = own \ open
    OBVIOUS
  <2>5. SumOfUnits(sold) = Tally(f)[sold]
    BY <1>4, <1>5, UnitSumIsTally
  <2>6. SumOf(maxUnits, open) = Tally(maxUnits)[open]
    BY <1>2, SumIsTally
  <2>7. SumOf(InitUnits, own) = Tally(InitUnits)[own]
    BY <1>2, SumIsTally
  <2>8. Tally(f)[sold] <= Tally(c)[shut]
    <3>1. PICK h : h = [x \in sold |-> x.order]
      OBVIOUS
    <3>2. /\ h \in [sold -> shut] /\ (\A x, y \in sold : h[x] = h[y] => x = y)
          /\ \A x \in sold : f[x] <= c[h[x]]
      BY <3>1, <2>2, <2>3, <2>4, <1>3, <1>5
    <3> QED BY <3>2, <1>2, <1>4, TallyInjection
  <2>9. Tally(maxUnits)[open] <= Tally(c)[open]
    <3>1. PICK h : h = [o \in open |-> o]
      OBVIOUS
    <3>2. /\ h \in [open -> open] /\ (\A x, y \in open : h[x] = h[y] => x = y)
          /\ \A x \in open : maxUnits[x] <= c[h[x]]
      BY <3>1, <2>3, <1>1 DEF Books, Offered
    <3> QED BY <3>2, <1>2, TallyInjection
  <2>10. Tally(c)[own] = Tally(c)[shut] + Tally(c)[open]
    <3>1. shut \cap open = {} /\ shut \cup open = own
      BY <2>3, <2>4
    <3>2. Tally(c)[shut \cup open] = Tally(c)[shut] + Tally(c)[open]
      BY <3>1, <1>2, TallyUnion
    <3> QED BY <3>1, <3>2
  <2>11. Tally(c)[own] <= Tally(InitUnits)[own]
    BY <2>1, <1>1 DEF Books
  <2>12. /\ Tally(c) \in [SUBSET Order -> Nat] /\ Tally(maxUnits) \in [SUBSET Order -> Nat]
         /\ Tally(InitUnits) \in [SUBSET Order -> Nat] /\ Tally(f) \in [SUBSET OnChain -> Nat]
    BY <1>2, <1>4, TallyLaw
  <2>13. /\ Tally(c)[own] \in Nat /\ Tally(c)[shut] \in Nat /\ Tally(c)[open] \in Nat
         /\ Tally(maxUnits)[open] \in Nat /\ Tally(InitUnits)[own] \in Nat
         /\ Tally(f)[sold] \in Nat
    BY <2>12
  <2>14. Tally(f)[sold] + Tally(maxUnits)[open] <= Tally(InitUnits)[own]
    BY ONLY <2>8, <2>9, <2>10, <2>11, <2>13
  <2>15. own = {o \in Order : Maker[o] = a /\ Type[o] = ty}
    BY <2>1 DEF OwnOrders
  <2> QED BY <2>2, <2>3, <2>5, <2>6, <2>7, <2>14, <2>15
<1> QED BY <1>6 DEF NeverOversold, SumOf, SumOfUnits

(* An account never sells and offers more than it offered initially: a     *)
(* trade of the maker is about at most what its order has, an order that   *)
(* is sold is gone before anybody can take it again, and HandleSuccess     *)
(* offers again only what is left of it, also if the order was removed     *)
(* while it was being sold.                                                *)
THEOREM NobodyOversells ==
    ASSUME NoLostReply, IsFiniteSet(Order)
    PROVE  Spec => []NeverOversold
<1>1. Init => SalesInv
  BY DEF Init, SalesInv, Unreleased
<1>2. Init => Balanced
  <2> SUFFICES ASSUME Init PROVE Balanced
    OBVIOUS
  <2>1. InitUnits \in [Order -> Nat]
    BY TradesAssumption
  <2>2. Tally(InitUnits) \in [SUBSET Order -> Nat]
    BY <2>1, TallyLaw
  <2>3. \A a, ty : OwnOrders(a, ty) \in SUBSET Order
    BY DEF OwnOrders
  <2>4. \A o \in Order : InitUnits[o] <= InitUnits[o]
    BY <2>1
  <2>5. Books(InitUnits)
    BY <2>1, <2>2, <2>3, <2>4 DEF Books, Offered, Unreleased, Init
  <2> QED BY <2>5 DEF Balanced
<1>3. TypeOK /\ WalletInv /\ TakingToMaker /\ OrderLocked /\ SalesInv /\ Balanced
      /\ [Next]_vars => SalesInv' /\ Balanced'
  BY BooksStep
<1>4. TypeOK /\ OrderLocked /\ SalesInv /\ AtomicInv /\ Balanced => NeverOversold
  BY BooksCover
<1> QED BY <1>1, <1>2, <1>3, <1>4, WalletInvariant, OrderLockFollowsTrades,
           AtomicInvariant, PTL DEF Spec

=============================================================================
