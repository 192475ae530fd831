---------------------------- MODULE TradesProofs ----------------------------
(***************************************************************************)
(* Theorems about Trades, for every set of accounts, orders and coins,     *)
(* every bound and every choice of faults, unless a theorem says           *)
(* otherwise: types, who signs first, and what trades hold.                *)
(***************************************************************************)
EXTENDS Trades, TLAPS

-----------------------------------------------------------------------------
(* Type correctness *)

(* Where a trade may be written: an existing one, or the next slot.        *)
Slot(t) == t \in DOMAIN trades \/ IsNextId(t)

TradesOK == \E n \in 0 .. MaxTrades : trades \in [1 .. n -> TradeState]

(* Writing back the record of a trade keeps the trades a sequence of       *)
(* records.                                                                *)
LEMMA PutType ==
    ASSUME TradesOK, NEW t, Slot(t), NEW tr \in TradeState
    PROVE  /\ \E n \in 0 .. MaxTrades : Put(t, tr) \in [1 .. n -> TradeState]
           /\ DOMAIN Put(t, tr) = DOMAIN trades \cup {t}
           /\ t \in TradeId
<1>1. PICK n \in 0 .. MaxTrades : trades \in [1 .. n -> TradeState]
  BY DEF TradesOK
<1>2. DOMAIN trades = 1 .. n
  BY <1>1
<1>0. MaxTrades \in Nat
  BY TradesAssumption
<1>3. PICK k \in 0 .. MaxTrades : DOMAIN trades \cup {t} = 1 .. k
  <2>1. CASE t \in DOMAIN trades
    BY <1>2, <2>1
  <2>2. CASE IsNextId(t)
    <3>1. t \in 1 .. MaxTrades /\ DOMAIN trades = 1 .. (t - 1)
      BY <2>2 DEF IsNextId, TradeId
    <3>2. 1 .. (t - 1) \cup {t} = 1 .. t /\ t \in 0 .. MaxTrades
      BY <3>1, <1>0
    <3> QED BY <3>1, <3>2
  <2> QED BY <2>1, <2>2 DEF Slot
<1>4. Put(t, tr) \in [1 .. k -> TradeState]
  BY <1>1, <1>2, <1>3 DEF Put
<1>5. t \in TradeId
  <2>1. t \in 1 .. k
    BY <1>3
  <2> QED BY <2>1, <1>0 DEF TradeId
<1> QED BY <1>3, <1>4, <1>5 DEF Put

LEMMA NewTradeType ==
    ASSUME NEW a \in Account, NEW o \in Order, NEW cp \in Account, NEW u \in Nat
    PROVE  NewTrade(a, o, cp, u) \in TradeState
BY DEF NewTrade, TradeState

LEMMA HandleMessageType ==
    ASSUME NEW tr \in TradeState, NEW m \in Message
    PROVE  HandleMessage(tr, m) \in TradeState
BY DEF HandleMessage, MergeSellerData, MergePsbt, TradeState, Message

LEMMA SignPsbtType ==
    ASSUME NEW p \in Psbt, NEW a \in Account
    PROVE  SignPsbt(p, a) \in Psbt /\ SignPsbt(p, a).tx = p.tx
BY DEF SignPsbt, Psbt

LEMMA OutputType ==
    ASSUME NEW a \in Account, NEW n \in Nat
    PROVE  NameOut(a, n) \in Output /\ CoinOut(a, n) \in Output
BY DEF NameOut, CoinOut, Output

LEMMA ReplyType ==
    ASSUME NEW tr \in TradeState, NEW taking \in SUBSET Nat,
           NEW sd \in SUBSET TradeId, NEW psbt \in SUBSET Psbt
    PROVE  ReplyFor(tr, taking, sd, psbt) \in Message
BY DEF ReplyFor, TradeState, Message

(* The psbts a maker can finalise are psbts.                               *)
LEMMA FinalPsbtsType ==
    ASSUME NEW tr \in TradeState, NEW p \in FinalPsbts(tr)
    PROVE  /\ p \in Psbt /\ WithFinal(tr, p) \in TradeState
           /\ WithFinal(tr, p).ourPsbt # {}
<1>1. p \in Psbt
  <2>1. tr.ourPsbt \subseteq Psbt /\ tr.theirPsbt \subseteq Psbt /\ tr.account \in Account
    BY DEF TradeState
  <2>2. \A q \in Psbt : SignPsbt(q, tr.account) \in Psbt
    BY <2>1, SignPsbtType
  <2>3. \A x : SigsFor(tr.theirPsbt, x) \subseteq Account
    BY <2>1 DEF SigsFor, Psbt
  <2>4. \A q \in Psbt, S \in SUBSET Account : [q EXCEPT !.sigs = @ \cup S] \in Psbt
    BY DEF Psbt
  <2> QED BY <2>1, <2>2, <2>3, <2>4 DEF FinalPsbts
<1>2. WithFinal(tr, p) \in TradeState
  BY <1>1 DEF WithFinal, TradeState
<1>3. WithFinal(tr, p).ourPsbt # {}
  <2>1. CASE GetOrderType(tr) = "ASK"
    BY <2>1 DEF WithFinal, TradeState
  <2>2. CASE GetOrderType(tr) # "ASK"
    BY <2>2 DEF WithFinal, FinalPsbts
  <2> QED BY <2>1, <2>2
<1> QED BY <1>1, <1>2, <1>3

(* What HasReply writes has the right type.                                *)
LEMMA HasReplyType ==
    ASSUME TypeOK, NEW t, Slot(t), NEW tr \in TradeState, NEW taking \in SUBSET Nat,
           \/ HasReply(t, tr)
           \/ CreateSellerData(t, tr, taking)
           \/ NoReply(t, tr, taking)
           \/ ThrowsAfterLock(t, tr) /\ UNCHANGED trades
    PROVE  /\ TradesOK'
           /\ DOMAIN trades \subseteq DOMAIN trades'
           /\ locked' \in [Account -> SUBSET Output]
           /\ msgs' \subseteq Message
           /\ mempool' \subseteq Tx
<1> USE TradesAssumption
<1>a. /\ TradesOK /\ nameVer \in [Account -> Nat] /\ msgs \subseteq Message
      /\ locked \in [Account -> SUBSET Output] /\ mempool \subseteq Tx
      /\ tr.account \in Account /\ tr.counterparty \in Account
  BY DEF TypeOK, TradesOK, TradeState
<1>b. /\ t \in TradeId
      /\ \A r \in TradeState : trades' = Put(t, r) =>
            TradesOK' /\ DOMAIN trades \subseteq DOMAIN trades'
  <2>1. TradesOK
    BY <1>a
  <2>2. tr \in TradeState
    OBVIOUS
  <2>3. t \in TradeId
    BY <2>1, <2>2, PutType
  <2>4. ASSUME NEW r \in TradeState, trades' = Put(t, r)
        PROVE  TradesOK' /\ DOMAIN trades \subseteq DOMAIN trades'
    <3>1. /\ \E n \in 0 .. MaxTrades : Put(t, r) \in [1 .. n -> TradeState]
          /\ DOMAIN Put(t, r) = DOMAIN trades \cup {t}
      BY <2>1, PutType
    <3>2. TradesOK' <=> \E n \in 0 .. MaxTrades : trades' \in [1 .. n -> TradeState]
      BY DEF TradesOK, TradeState, Psbt, Tx, Output
    <3> QED BY <3>1, <3>2, <2>4
  <2> QED BY <2>3, <2>4
<1>c. \A outs \in SUBSET Output :
        Lock(tr.account, outs) => locked' \in [Account -> SUBSET Output]
  BY <1>a DEF Lock
<1>d. \A k \in SUBSET Nat, sd \in SUBSET TradeId, ps \in SUBSET Psbt :
        ReplyFor(tr, k, sd, ps) \in Message
  BY ReplyType
<1>e. NameOut(tr.account, nameVer[tr.account]) \in Output
  BY <1>a, OutputType
<1>1. ASSUME NEW k \in SUBSET Nat, CreateSellerData(t, tr, k)
      PROVE  /\ TradesOK' /\ DOMAIN trades \subseteq DOMAIN trades'
             /\ locked' \in [Account -> SUBSET Output]
             /\ msgs' \subseteq Message /\ mempool' \subseteq Tx
  <2> DEFINE out == NameOut(tr.account, nameVer[tr.account])
             r == [tr EXCEPT !.sellerData = {t}, !.nameOutput = {out}]
  <2>1. r \in TradeState
    BY <1>b, <1>e DEF TradeState
  <2>2. ReplyFor(tr, k, {t}, {}) \in Message
    BY <1>b, <1>d
  <2> QED BY <1>1, <1>a, <1>b, <1>c, <1>e, <2>1, <2>2 DEF CreateSellerData
<1>2. CASE TakerSignsSale(t, tr)
  <2>1. PICK p \in tr.theirPsbt :
          LET signed == SignPsbt(p, tr.account) IN
          /\ trades' = Put(t, [tr EXCEPT !.ourPsbt = {signed}, !.state = "PENDING"])
          /\ msgs' = msgs \cup {ReplyFor(tr, {}, {}, {signed})}
          /\ UNCHANGED <<locked, mempool>>
    BY <1>2 DEF TakerSignsSale
  <2>2. SignPsbt(p, tr.account) \in Psbt
    <3>1. p \in Psbt
      BY DEF TradeState
    <3> QED BY <3>1, <1>a, SignPsbtType
  <2>3. [tr EXCEPT !.ourPsbt = {SignPsbt(p, tr.account)}, !.state = "PENDING"] \in TradeState
    BY <2>2 DEF TradeState
  <2>4. ReplyFor(tr, {}, {}, {SignPsbt(p, tr.account)}) \in Message
    BY <2>2, <1>d
  <2> QED BY <2>1, <2>3, <2>4, <1>a, <1>b
<1>3. CASE BuyerConstructs(t, tr)
  <2>1. PICK shared \in SUBSET Account, st \in {"PENDING", "INITIATED"} :
          FundAndSign(t, tr, shared, st)
    BY <1>3, <1>a DEF BuyerConstructs
  <2>2. PICK c \in Fundable(tr.account), addr \in tr.sellerData :
          LET x == ConstructTransaction(t, tr, addr, c) IN
          /\ Lock(tr.account, {x.coin})
          /\ trades' = Put(t, [tr EXCEPT !.state = st,
                          !.ourPsbt = {[tx |-> x, sigs |-> {tr.account}]}])
          /\ msgs' = msgs \cup {ReplyFor(tr, {}, {}, {[tx |-> x, sigs |-> shared]})}
          /\ UNCHANGED mempool
    BY <2>1 DEF FundAndSign
  <2> DEFINE x == ConstructTransaction(t, tr, addr, c)
  <2>3. x \in Tx
    <3>1. c \in Nat /\ addr \in TradeId /\ nameVer[tr.counterparty] \in Nat
      BY <1>a DEF Fundable, TradeState
    <3>2. /\ NameOut(tr.counterparty, nameVer[tr.counterparty]) \in Output
          /\ CoinOut(tr.account, c) \in Output
      BY <3>1, <1>a, OutputType
    <3> QED BY <3>1, <3>2, <1>b, <1>a DEF ConstructTransaction, Tx, TradeState
  <2> HIDE DEF x
  <2>4. x.coin \in Output
    BY <2>3 DEF Tx
  <2>5. [tr EXCEPT !.state = st, !.ourPsbt = {[tx |-> x, sigs |-> {tr.account}]}] \in TradeState
    <3>1. [tx |-> x, sigs |-> {tr.account}] \in Psbt
      BY <2>3, <1>a DEF Psbt
    <3> QED BY <3>1 DEF TradeState
  <2>6. [tx |-> x, sigs |-> shared] \in Psbt
    BY <2>3 DEF Psbt
  <2>7. ReplyFor(tr, {}, {}, {[tx |-> x, sigs |-> shared]}) \in Message
    BY <2>6, <1>d
  <2> QED BY <2>2, <2>4, <2>5, <2>7, <1>a, <1>b, <1>c DEF x
<1>4. CASE MakerBroadcasts(t, tr) \/ BroadcastRefused(t, tr) \/ BroadcastReplyLost(t, tr)
  <2>1. PICK p \in FinalPsbts(tr) :
          /\ \/ trades' = Put(t, WithFinal(tr, p))
             \/ trades' = Put(t, [WithFinal(tr, p) EXCEPT !.state = "PENDING"])
          /\ mempool' = mempool \cup {p.tx} \/ mempool' = mempool
          /\ UNCHANGED <<locked, msgs>>
    BY <1>4 DEF MakerBroadcasts, BroadcastRefused, BroadcastReplyLost
  <2>2. /\ p \in Psbt /\ WithFinal(tr, p) \in TradeState
        /\ WithFinal(tr, p).ourPsbt # {}
    BY FinalPsbtsType
  <2>3. [WithFinal(tr, p) EXCEPT !.state = "PENDING"] \in TradeState
    BY <2>2 DEF TradeState
  <2>4. p.tx \in Tx
    BY <2>2 DEF Psbt
  <2> QED BY <2>1, <2>2, <2>3, <2>4, <1>a, <1>b
<1>5. ASSUME NEW k \in SUBSET Nat, NoReply(t, tr, k)
      PROVE  /\ TradesOK' /\ DOMAIN trades \subseteq DOMAIN trades'
             /\ locked' \in [Account -> SUBSET Output]
             /\ msgs' \subseteq Message /\ mempool' \subseteq Tx
  <2>1. ReplyFor(tr, k, {}, {}) \in Message
    BY <1>d
  <2> QED BY <1>5, <2>1, <1>a, <1>b DEF NoReply
<1>6. CASE ThrowsAfterLock(t, tr) /\ (UNCHANGED trades \/ trades' = Put(t, tr))
  <2>1. locked' \in [Account -> SUBSET Output]
    <3>1. \A c \in Fundable(tr.account) : CoinOut(tr.account, c) \in Output
      BY <1>a, OutputType DEF Fundable
    <3>2. CASE Lock(tr.account, {NameOut(tr.account, nameVer[tr.account])})
      BY <3>2, <1>c, <1>e
    <3>3. CASE \E c \in Fundable(tr.account) :
                  Lock(tr.account, {CoinOut(tr.account, c)})
      BY <3>1, <3>3, <1>c
    <3> QED BY <1>6, <3>2, <3>3 DEF ThrowsAfterLock
  <2>2. TradesOK' /\ DOMAIN trades \subseteq DOMAIN trades'
    BY <1>6, <1>a, <1>b DEF TradesOK
  <2> QED BY <1>6, <2>1, <2>2, <1>a DEF ThrowsAfterLock
<1> QED BY <1>1, <1>2, <1>3, <1>4, <1>5, <1>6 DEF HasReply

(* The part of the type invariant that HasReply leaves alone.              *)
RestOK ==
    /\ finalised \subseteq DOMAIN trades
    /\ ownOrder \in [Order -> {"none", "open", "locked", "gone"}]
    /\ maxUnits \in [Order -> Nat]
    /\ running \subseteq Account
    /\ nameVer \in [Account -> Nat]
    /\ spent \subseteq Output
    /\ confirmed \subseteq Tx
    /\ holds \subseteq Account

LEMMA TypeOKParts ==
    /\ TypeOK <=> /\ TradesOK /\ RestOK
                  /\ locked \in [Account -> SUBSET Output]
                  /\ msgs \subseteq Message /\ mempool \subseteq Tx
    /\ TypeOK' <=> /\ TradesOK' /\ RestOK'
                   /\ locked' \in [Account -> SUBSET Output]
                   /\ msgs' \subseteq Message /\ mempool' \subseteq Tx
BY DEF TypeOK, TradesOK, RestOK, Message, Output, Tx, Psbt, TradeState

(* Every step of the specification keeps the state well typed.             *)
LEMMA TypeStep ==
    TypeOK /\ [Next]_vars => TypeOK'
<1> SUFFICES ASSUME TypeOK, [Next]_vars PROVE TypeOK'
  OBVIOUS
<1> USE TradesAssumption
<1>a. /\ TradesOK /\ RestOK /\ locked \in [Account -> SUBSET Output]
      /\ msgs \subseteq Message /\ mempool \subseteq Tx
  BY TypeOKParts
<1>b. \A t \in DOMAIN trades : t \in TradeId /\ trades[t] \in TradeState /\ Slot(t)
  BY <1>a DEF TradesOK, TradeId, Slot
<1>1. ASSUME NEW a \in Account, NEW o \in Order, NEW u \in Units, TakeOrder(a, o, u)
      PROVE  TypeOK'
  <2>1. NewTrade(a, o, Maker[o], u) \in TradeState
    BY NewTradeType
  <2>2. PICK t \in TradeId :
          /\ IsNextId(t)
          /\ \/ CreateSellerData(t, NewTrade(a, o, Maker[o], u), {u})
             \/ NoReply(t, NewTrade(a, o, Maker[o], u), {u})
             \/ ThrowsAfterLock(t, NewTrade(a, o, Maker[o], u)) /\ UNCHANGED trades
          /\ UNCHANGED <<finalised, ownOrder, maxUnits, running, chainVars>>
    BY <1>1 DEF TakeOrder
  <2>3. /\ TradesOK' /\ DOMAIN trades \subseteq DOMAIN trades'
        /\ locked' \in [Account -> SUBSET Output]
        /\ msgs' \subseteq Message /\ mempool' \subseteq Tx
    <3>1. Slot(t) /\ {u} \in SUBSET Nat
      BY <2>2 DEF Slot
    <3> QED BY <2>1, <2>2, <3>1, HasReplyType
  <2>4. RestOK'
    BY <1>a, <2>2, <2>3 DEF RestOK, chainVars
  <2> QED BY <2>3, <2>4, TypeOKParts
<1>2. ASSUME NEW m \in msgs, ProcessMessage(m) PROVE TypeOK'
  <2>1. m \in Message
    BY <1>a
  <2>2. PICK t \in TradeId, tr \in TradeState :
          /\ Slot(t)
          /\ HasReply(t, tr)
          /\ ownOrder' = ownOrder \/ ownOrder' = [ownOrder EXCEPT ![m.order] = "locked"]
          /\ UNCHANGED <<finalised, maxUnits, running, chainVars>>
    <3>1. CASE OrderTaken(m)
      <4>1. PICK u \in m.taking, t \in TradeId :
              /\ IsNextId(t)
              /\ ownOrder' = [ownOrder EXCEPT ![m.order] = "locked"]
              /\ HasReply(t, HandleMessage(NewTrade(m.to, m.order, m.from, u), m))
              /\ UNCHANGED <<finalised, maxUnits, running, chainVars>>
        BY <3>1 DEF OrderTaken
      <4>2. NewTrade(m.to, m.order, m.from, u) \in TradeState
        BY <2>1, NewTradeType DEF Message
      <4>3. HandleMessage(NewTrade(m.to, m.order, m.from, u), m) \in TradeState
        BY <4>2, <2>1, HandleMessageType
      <4> QED BY <4>1, <4>3 DEF Slot
    <3>2. CASE Process(m)
      <4>1. PICK t \in DOMAIN trades :
              /\ HasReply(t, HandleMessage(trades[t], m))
              /\ UNCHANGED <<finalised, ownOrder, maxUnits, running, chainVars>>
        BY <3>2 DEF Process
      <4>2. HandleMessage(trades[t], m) \in TradeState
        BY <1>b, <2>1, HandleMessageType
      <4> QED BY <4>1, <4>2, <1>b DEF chainVars
    <3> QED BY <1>2, <3>1, <3>2 DEF ProcessMessage
  <2>3. /\ TradesOK' /\ DOMAIN trades \subseteq DOMAIN trades'
        /\ locked' \in [Account -> SUBSET Output]
        /\ msgs' \subseteq Message /\ mempool' \subseteq Tx
    BY <2>2, {} \in SUBSET Nat, HasReplyType
  <2>4. RestOK'
    BY <1>a, <2>2, <2>3, <2>1 DEF RestOK, chainVars, Message
  <2> QED BY <2>3, <2>4, TypeOKParts
<1>3. ASSUME NEW t \in DOMAIN trades,
             NEW st \in {"ABANDONED", "SUCCESS", "FAILED"}, Finalise(t, st),
             st = "ABANDONED" \/ trades[t].ourPsbt # {}
      PROVE  TypeOK'
  <2>1. [trades[t] EXCEPT !.state = st] \in TradeState
    BY <1>b, <1>3 DEF TradeState, Final
  <2>2. /\ \E n \in 0 .. MaxTrades : trades' \in [1 .. n -> TradeState]
        /\ DOMAIN trades' = DOMAIN trades
    <3>1. trades' = Put(t, [trades[t] EXCEPT !.state = st])
      BY <1>3 DEF Finalise
    <3>2. Slot(t) /\ TradesOK
      BY <1>a, <1>b
    <3> DEFINE r == [trades[t] EXCEPT !.state = st]
    <3>3. r \in TradeState
      BY <2>1
    <3>4. trades' = Put(t, r)
      BY <3>1
    <3> HIDE DEF r
    <3>5. /\ \E n \in 0 .. MaxTrades : Put(t, r) \in [1 .. n -> TradeState]
          /\ DOMAIN Put(t, r) = DOMAIN trades \cup {t}
      BY <3>2, <3>3, PutType
    <3> QED BY <3>4, <3>5
  <2>3. TradesOK' /\ RestOK'
    BY <1>3, <1>a, <2>2
       DEF Finalise, RestOK, chainVars, TradesOK, TradeState, Psbt, Tx, Output
  <2> QED BY <1>3, <1>a, <2>3, TypeOKParts DEF Finalise
<1>4. ASSUME NEW t \in DOMAIN trades, HandleFailure(t) PROVE TypeOK'
  <2>1. RestOK' /\ locked' \in [Account -> SUBSET Output]
    BY <1>4, <1>a DEF HandleFailure, Release, UnlockFails, RestOK, chainVars
  <2> QED BY <1>4, <1>a, <2>1, TypeOKParts
          DEF HandleFailure, Release, UnlockFails, TradesOK
<1>5. ASSUME NEW t \in DOMAIN trades, HandleSuccess(t) PROVE TypeOK'
  <2>1. /\ finalised' \subseteq finalised
        /\ UNCHANGED <<trades, running, locked, msgs, mempool, chainVars>>
    BY <1>5 DEF HandleSuccess, Settle
  <2>2. trades[t].units \in Nat /\ trades[t].order \in Order
    BY <1>b DEF TradeState
  <2>3. maxUnits[trades[t].order] - trades[t].units \in Int
    BY <2>2, <1>a DEF RestOK
  <2>4. /\ ownOrder' \in [Order -> {"none", "open", "locked", "gone"}]
        /\ maxUnits' \in [Order -> Nat]
    BY <1>5, <1>a, <2>3 DEF HandleSuccess, Settle, RestOK
  <2>5. RestOK'
    BY <1>a, <2>1, <2>4 DEF RestOK, chainVars
  <2> QED BY <1>a, <2>1, <2>5, TypeOKParts DEF TradesOK
<1>6. ASSUME NEW x \in mempool, Mine(x) PROVE TypeOK'
  <2>1. /\ x \in Tx /\ Inputs(x) \subseteq Output
        /\ x.buyer \in Account /\ x.name.own \in Account
    BY <1>a DEF Tx, Inputs, Output
  <2>2. spent' \subseteq Output /\ mempool' \subseteq Tx /\ confirmed' \subseteq Tx
    BY <1>6, <1>a, <2>1 DEF Mine, SpendOutputs, RestOK
  <2>3. holds' \subseteq Account
    BY <1>6, <1>a, <2>1 DEF Mine, RestOK
  <2>4. nameVer' \in [Account -> Nat]
    <3>1. nameVer[x.name.own] + 1 \in Nat /\ nameVer \in [Account -> Nat]
      BY <2>1, <1>a DEF RestOK
    <3>2. nameVer' = [nameVer EXCEPT ![x.name.own] = @ + 1]
      BY <1>6 DEF Mine
    <3> QED BY <3>1, <3>2
  <2>5. RestOK'
    BY <1>6, <1>a, <2>2, <2>3, <2>4 DEF Mine, RestOK
  <2> QED BY <1>6, <1>a, <2>2, <2>5, TypeOKParts DEF Mine, TradesOK
<1>7. ASSUME NEW a \in Account, SpendName(a) PROVE TypeOK'
  <2>1. NameOut(a, nameVer[a]) \in Output
    BY <1>a, OutputType DEF RestOK
  <2>2. RestOK' /\ mempool' \subseteq Tx
    BY <1>7, <1>a, <2>1 DEF SpendName, SpendOutputs, RestOK
  <2> QED BY <1>7, <1>a, <2>2, TypeOKParts DEF SpendName, TradesOK
<1>8. ASSUME NEW a \in Account, NEW c \in Coin, SpendCoin(a, c) PROVE TypeOK'
  <2>1. CoinOut(a, c) \in Output
    BY OutputType
  <2>2. RestOK' /\ mempool' \subseteq Tx
    BY <1>8, <1>a, <2>1 DEF SpendCoin, SpendOutputs, RestOK
  <2> QED BY <1>8, <1>a, <2>2, TypeOKParts DEF SpendCoin, TradesOK
<1>9. CASE UNCHANGED vars
  BY <1>9, <1>a, TypeOKParts DEF vars, chainVars, TradesOK, RestOK
<1>10. ASSUME NEW t \in DOMAIN trades, Abandon(t) \/ UpdatePending(t) PROVE TypeOK'
  <2>1. \E st \in {"ABANDONED", "SUCCESS", "FAILED"} :
          Finalise(t, st) /\ (st = "ABANDONED" \/ trades[t].ourPsbt # {})
    BY <1>10 DEF Abandon, UpdatePending
  <2> QED BY <2>1, <1>3
<1>11. ASSUME NEW o \in Removable, RemoveOrder(o) PROVE TypeOK'
  <2>1. RestOK'
    BY <1>11, <1>a DEF RemoveOrder, RestOK, chainVars
  <2> QED BY <1>11, <1>a, <2>1, TypeOKParts DEF RemoveOrder, TradesOK
<1> QED BY <1>1, <1>2, <1>4, <1>5, <1>6, <1>7, <1>8, <1>9, <1>10, <1>11 DEF Next

(* Types: a trade only ever holds psbts, outputs and addresses, orders     *)
(* never offer a negative amount (the max_units of a reduced order do not  *)
(* underflow), and what is archived is a trade.                            *)
THEOREM TypeCorrect == Spec => []TypeOK
<1>1. Init => TypeOK
  <2> SUFFICES ASSUME Init PROVE TypeOK
    OBVIOUS
  <2>1. TradesOK
    <3>1. 0 \in 0 .. MaxTrades /\ 1 .. 0 = {}
      BY TradesAssumption
    <3>2. trades \in [1 .. 0 -> TradeState]
      BY <3>1 DEF Init
    <3> QED BY <3>1, <3>2 DEF TradesOK
  <2>2. RestOK
    BY TradesAssumption DEF Init, RestOK
  <2> QED BY <2>1, <2>2, TypeOKParts DEF Init
<1>2. TypeOK /\ [Next]_vars => TypeOK'
  BY TypeStep
<1> QED BY <1>1, <1>2, PTL DEF Spec

-----------------------------------------------------------------------------
(* The taker signs first *)

(* A psbt for the order o that does not carry the signature of its maker.  *)
Unsigned(psbts, o) == \A p \in psbts : Maker[o] \notin p.sigs

(* The inductive invariant: not only the messages, also what a trade has   *)
(* received is without the maker's signature, because a taker that sells   *)
(* signs and sends back the psbt it got.                                   *)
MakerSecret ==
    /\ \A m \in msgs : Unsigned(m.psbt, m.order)
    /\ \A t \in DOMAIN trades : Unsigned(trades[t].theirPsbt, trades[t].order)

LEMMA MakerSecretReply ==
    ASSUME TypeOK, MakerSecret, NEW t \in TradeId, NEW tr \in TradeState,
           NEW taking \in SUBSET Nat, Unsigned(tr.theirPsbt, tr.order),
           \/ HasReply(t, tr)
           \/ CreateSellerData(t, tr, taking)
           \/ NoReply(t, tr, taking)
           \/ ThrowsAfterLock(t, tr) /\ UNCHANGED trades
    PROVE  MakerSecret'
<1>1. \A r \in TradeState :
        /\ trades' = Put(t, r)
        /\ r.theirPsbt = tr.theirPsbt /\ r.order = tr.order
        => \A i \in DOMAIN trades' : Unsigned(trades'[i].theirPsbt, trades'[i].order)
  BY DEF Put, MakerSecret
<1>2. \A k, sd, ps : /\ msgs' = msgs \cup {ReplyFor(tr, k, sd, ps)}
                     /\ Unsigned(ps, tr.order)
                     => \A m \in msgs' : Unsigned(m.psbt, m.order)
  BY DEF MakerSecret, ReplyFor
<1>3. msgs' = msgs => \A m \in msgs' : Unsigned(m.psbt, m.order)
  BY DEF MakerSecret
<1>4. Unsigned({}, tr.order)
  BY DEF Unsigned
<1>5. ASSUME NEW k, CreateSellerData(t, tr, k) PROVE MakerSecret'
  <2> DEFINE r == [tr EXCEPT !.sellerData = {t},
                     !.nameOutput = {NameOut(tr.account, nameVer[tr.account])}]
  <2>1. r.theirPsbt = tr.theirPsbt /\ r.order = tr.order /\ r \in TradeState
    <3>1. tr.account \in Account /\ nameVer[tr.account] \in Nat
      BY DEF TypeOK, TradeState
    <3> QED BY <3>1, OutputType DEF TradeState
  <2>2. trades' = Put(t, r) /\ msgs' = msgs \cup {ReplyFor(tr, k, {t}, {})}
    BY <1>5 DEF CreateSellerData
  <2> QED BY <2>1, <2>2, <1>1, <1>2, <1>4 DEF MakerSecret
<1>6. CASE TakerSignsSale(t, tr)
  <2>1. PICK p \in tr.theirPsbt :
          LET signed == SignPsbt(p, tr.account) IN
          /\ GetRole(tr) = "TAKER"
          /\ trades' = Put(t, [tr EXCEPT !.ourPsbt = {signed}, !.state = "PENDING"])
          /\ msgs' = msgs \cup {ReplyFor(tr, {}, {}, {signed})}
    BY <1>6 DEF TakerSignsSale
  <2> DEFINE signed == SignPsbt(p, tr.account)
             r == [tr EXCEPT !.ourPsbt = {signed}, !.state = "PENDING"]
  <2>2. p \in Psbt /\ signed \in Psbt /\ signed.sigs = p.sigs \cup {tr.account}
    BY DEF TradeState, SignPsbt, Psbt
  <2>3. Unsigned({signed}, tr.order)
    BY <2>1, <2>2 DEF Unsigned, GetRole
  <2>4. r.theirPsbt = tr.theirPsbt /\ r.order = tr.order /\ r \in TradeState
    BY <2>2 DEF TradeState
  <2> QED BY <2>1, <2>3, <2>4, <1>1, <1>2 DEF MakerSecret
<1>7. CASE BuyerConstructs(t, tr)
  <2>1. PICK shared \in SUBSET Account, st \in {"PENDING", "INITIATED"} :
          /\ FundAndSign(t, tr, shared, st)
          /\ Maker[tr.order] \notin shared
    <3>1. CASE GetRole(tr) = "TAKER" /\ FundAndSign(t, tr, {tr.account}, "PENDING")
      BY <3>1 DEF GetRole, TradeState
    <3>2. CASE GetRole(tr) = "MAKER" /\ FundAndSign(t, tr, {}, "INITIATED")
      BY <3>2
    <3> QED BY <1>7, <3>1, <3>2 DEF BuyerConstructs
  <2>2. PICK c \in Fundable(tr.account), addr \in tr.sellerData :
          LET x == ConstructTransaction(t, tr, addr, c) IN
          /\ trades' = Put(t, [tr EXCEPT !.state = st,
                          !.ourPsbt = {[tx |-> x, sigs |-> {tr.account}]}])
          /\ msgs' = msgs \cup {ReplyFor(tr, {}, {}, {[tx |-> x, sigs |-> shared]})}
    BY <2>1 DEF FundAndSign
  <2> DEFINE x == ConstructTransaction(t, tr, addr, c)
             r == [tr EXCEPT !.state = st,
                             !.ourPsbt = {[tx |-> x, sigs |-> {tr.account}]}]
  <2>3. Unsigned({[tx |-> x, sigs |-> shared]}, tr.order)
    BY <2>1 DEF Unsigned
  <2>4. r.theirPsbt = tr.theirPsbt /\ r.order = tr.order
    BY DEF TradeState
  <2>5. \A i \in DOMAIN trades' : Unsigned(trades'[i].theirPsbt, trades'[i].order)
    BY <2>2, <2>4 DEF Put, MakerSecret
  <2>6. \A m \in msgs' : Unsigned(m.psbt, m.order)
    BY <2>2, <2>3, <1>2
  <2> QED BY <2>5, <2>6 DEF MakerSecret
<1>8. CASE MakerBroadcasts(t, tr) \/ BroadcastRefused(t, tr) \/ BroadcastReplyLost(t, tr)
  <2>1. PICK p \in FinalPsbts(tr) :
          /\ \/ trades' = Put(t, WithFinal(tr, p))
             \/ trades' = Put(t, [WithFinal(tr, p) EXCEPT !.state = "PENDING"])
          /\ UNCHANGED msgs
    BY <1>8 DEF MakerBroadcasts, BroadcastRefused, BroadcastReplyLost
  <2>2. /\ WithFinal(tr, p) \in TradeState
        /\ WithFinal(tr, p).ourPsbt # {}
        /\ WithFinal(tr, p).theirPsbt = tr.theirPsbt
        /\ WithFinal(tr, p).order = tr.order
    BY FinalPsbtsType DEF WithFinal, TradeState
  <2> DEFINE r == [WithFinal(tr, p) EXCEPT !.state = "PENDING"]
  <2>3. r \in TradeState /\ r.theirPsbt = tr.theirPsbt /\ r.order = tr.order
    BY <2>2 DEF TradeState
  <2> QED BY <2>1, <2>2, <2>3, <1>1, <1>3 DEF MakerSecret
<1>9. ASSUME NEW k, NoReply(t, tr, k) PROVE MakerSecret'
  <2>1. trades' = Put(t, tr)
    BY <1>9 DEF NoReply
  <2>2. msgs' = msgs \/ msgs' = msgs \cup {ReplyFor(tr, k, {}, {})}
    BY <1>9 DEF NoReply
  <2> QED BY <2>1, <2>2, <1>1, <1>2, <1>3, <1>4 DEF MakerSecret
<1>10. CASE ThrowsAfterLock(t, tr) /\ (UNCHANGED trades \/ trades' = Put(t, tr))
  BY <1>10, <1>1, <1>3 DEF ThrowsAfterLock, MakerSecret
<1> QED BY <1>5, <1>6, <1>7, <1>8, <1>9, <1>10 DEF HasReply

(* A message keeps what a trade has received free of the maker's signature.*)
LEMMA MakerSecretMerge ==
    ASSUME NEW tr \in TradeState, NEW m \in Message, m.order = tr.order,
           Unsigned(m.psbt, m.order), Unsigned(tr.theirPsbt, tr.order)
    PROVE  /\ HandleMessage(tr, m).order = tr.order
           /\ Unsigned(HandleMessage(tr, m).theirPsbt, tr.order)
BY DEF HandleMessage, MergePsbt, TradeState

(* The maker's signature never leaves its daemon other than inside the     *)
(* broadcast transaction, whatever messages are lost or repeated, whatever *)
(* calls fail and however many trades run at once: until it broadcasts,    *)
(* the maker can walk away.                                                *)
THEOREM MakerKeepsSignature == Spec => []TakerSignsFirst
<1>1. Init => MakerSecret
  BY DEF Init, MakerSecret
<1>2. TypeOK /\ MakerSecret /\ [Next]_vars => MakerSecret'
  <2> SUFFICES ASSUME TypeOK, MakerSecret, [Next]_vars PROVE MakerSecret'
    OBVIOUS
  <2> USE TradesAssumption
  <2>a. \A t \in DOMAIN trades : t \in TradeId /\ trades[t] \in TradeState
    BY DEF TypeOK, TradeId
  <2>1. ASSUME NEW a \in Account, NEW o \in Order, NEW u \in Units, TakeOrder(a, o, u)
        PROVE  MakerSecret'
    <3> DEFINE tr == NewTrade(a, o, Maker[o], u)
    <3>1. tr \in TradeState /\ Unsigned(tr.theirPsbt, tr.order)
      BY NewTradeType DEF NewTrade, Unsigned
    <3>2. PICK t \in TradeId :
            \/ CreateSellerData(t, tr, {u})
            \/ NoReply(t, tr, {u})
            \/ ThrowsAfterLock(t, tr) /\ UNCHANGED trades
      BY <2>1 DEF TakeOrder
    <3>3. {u} \in SUBSET Nat
      OBVIOUS
    <3> HIDE DEF tr
    <3> QED BY <3>1, <3>2, <3>3, MakerSecretReply
  <2>2. ASSUME NEW m \in msgs, ProcessMessage(m) PROVE MakerSecret'
    <3>1. m \in Message /\ Unsigned(m.psbt, m.order)
      BY DEF TypeOK, MakerSecret
    <3>2. PICK t \in TradeId, tr \in TradeState :
            /\ Unsigned(tr.theirPsbt, tr.order) /\ HasReply(t, tr)
      <4>1. CASE OrderTaken(m)
        <5>1. PICK u \in m.taking, t \in TradeId :
                HasReply(t, HandleMessage(NewTrade(m.to, m.order, m.from, u), m))
          BY <4>1 DEF OrderTaken
        <5> DEFINE tr == NewTrade(m.to, m.order, m.from, u)
        <5>2. tr \in TradeState /\ Unsigned(tr.theirPsbt, tr.order) /\ m.order = tr.order
          BY <3>1, NewTradeType DEF NewTrade, Unsigned, Message
        <5> HIDE DEF tr
        <5>3. HandleMessage(tr, m) \in TradeState
          BY <5>2, <3>1, HandleMessageType
        <5>4. Unsigned(HandleMessage(tr, m).theirPsbt, HandleMessage(tr, m).order)
          BY <5>2, <3>1, MakerSecretMerge
        <5> QED BY <5>1, <5>3, <5>4 DEF tr
      <4>2. CASE Process(m)
        <5>1. PICK t \in DOMAIN trades :
                Matches(t, m) /\ HasReply(t, HandleMessage(trades[t], m))
          BY <4>2 DEF Process
        <5>2. /\ trades[t] \in TradeState /\ t \in TradeId
              /\ Unsigned(trades[t].theirPsbt, trades[t].order) /\ m.order = trades[t].order
          BY <5>1, <2>a DEF MakerSecret, Matches
        <5>3. HandleMessage(trades[t], m) \in TradeState
          BY <5>2, <3>1, HandleMessageType
        <5>4. Unsigned(HandleMessage(trades[t], m).theirPsbt,
                       HandleMessage(trades[t], m).order)
          BY <5>2, <3>1, MakerSecretMerge
        <5> QED BY <5>1, <5>2, <5>3, <5>4
      <4> QED BY <2>2, <4>1, <4>2 DEF ProcessMessage
    <3> QED BY <3>2, {} \in SUBSET Nat, MakerSecretReply
  <2>3. ASSUME NEW t \in DOMAIN trades, Abandon(t) \/ UpdatePending(t) PROVE MakerSecret'
    <3>1. PICK st \in Final : Finalise(t, st)
      BY <2>3 DEF Abandon, UpdatePending, Final
    <3>2. trades' = Put(t, [trades[t] EXCEPT !.state = st]) /\ msgs' = msgs
      BY <3>1 DEF Finalise
    <3> DEFINE r == [trades[t] EXCEPT !.state = st]
    <3>3. r.theirPsbt = trades[t].theirPsbt /\ r.order = trades[t].order
      BY <2>a DEF TradeState
    <3> QED BY <3>2, <3>3 DEF MakerSecret, Put
  <2>4. CASE UNCHANGED <<trades, msgs>>
    BY <2>4 DEF MakerSecret
  <2>5. ASSUME NEW t \in DOMAIN trades, HandleFailure(t) \/ HandleSuccess(t)
        PROVE  UNCHANGED <<trades, msgs>>
    BY <2>5 DEF HandleFailure, Release, UnlockFails, HandleSuccess, Settle
  <2>6. ASSUME \/ \E o \in Removable : RemoveOrder(o)
               \/ \E x \in mempool : Mine(x)
               \/ \E a \in Account : SpendName(a)
               \/ \E a \in Account, c \in Coin : SpendCoin(a, c)
               \/ UNCHANGED vars
        PROVE  UNCHANGED <<trades, msgs>>
    BY <2>6 DEF RemoveOrder, Mine, SpendName, SpendCoin, vars
  <2> QED BY <2>1, <2>2, <2>3, <2>4, <2>5, <2>6 DEF Next
<1>3. MakerSecret => TakerSignsFirst
  BY DEF MakerSecret, Unsigned, TakerSignsFirst
<1> QED BY <1>1, <1>2, <1>3, TypeCorrect, PTL DEF Spec

-----------------------------------------------------------------------------
(* What trades hold: the maker's order, the outputs locked in the wallets  *)
(* and the assets paid for.  The inductive invariant first.                *)

(* The outputs held by a trade that belong to its own wallet.              *)
Held(tr) == {out \in HeldOutputs(tr) : out.own = tr.account}

(* The output and the psbt in the record of a trade fit together: a seller *)
(* signs only what spends the output it has locked, a buyer pays with a    *)
(* coin of its own.                                                        *)
WalletRecord(tr) ==
    /\ tr.account # tr.counterparty
    /\ \A p, q \in tr.ourPsbt : p = q
    /\ \A a, b \in tr.nameOutput : a = b
    /\ tr.nameOutput # {} => GetOrderType(tr) = "ASK" /\ tr.sellerData # {}
    /\ \A out \in tr.nameOutput : out.own = tr.account
    /\ \A p \in tr.ourPsbt :
          IF GetOrderType(tr) = "ASK" THEN p.tx.name \in tr.nameOutput
          ELSE p.tx.coin.own = tr.account /\ p.tx.name.own = tr.counterparty
    /\ tr.state = "SUCCESS" => \A p \in tr.ourPsbt : p.tx \in confirmed

WalletInv ==
    /\ \A t \in DOMAIN trades : WalletRecord(trades[t])
    /\ \A m \in msgs : m.from # m.to
    /\ \A x \in confirmed : Inputs(x) \subseteq spent
    /\ \A t \in Unreleased :
          Held(trades[t]) \subseteq locked[trades[t].account] \cup spent
    /\ NoInputShared

(* Without faults, no output stays locked that nobody holds.               *)
NoStrayLock ==
    \A a \in Account : \A out \in locked[a] \ spent :
        \E t \in Unreleased : trades[t].account = a /\ out \in Held(trades[t])

(* A taking message goes to the maker.                                     *)
TakingToMaker == \A m \in msgs : m.taking # {} => m.to = Maker[m.order]

(* As long as the name output that x spends is unspent, it is the current  *)
(* one of the seller, who owns the assets.                                 *)
Sellable(x) ==
    x.name \notin spent =>
        /\ x.name = NameOut(x.name.own, nameVer[x.name.own])
        /\ x.name.own \in holds

GoodsInv ==
    /\ \A t \in DOMAIN trades : \A p \in trades[t].ourPsbt \cup trades[t].theirPsbt :
          Sellable(p.tx)
    /\ \A m \in msgs : \A p \in m.psbt : Sellable(p.tx)
    /\ \A x \in mempool : Sellable(x) /\ x.name \notin spent

-----------------------------------------------------------------------------
(* What HasReply does *)

(* The transaction x comes from the trade tr: received, stored, or just    *)
(* constructed for the name output that CheckForBuyerTrade has seen.       *)
FromTrade(tr, x) ==
    \/ \E q \in tr.ourPsbt \cup tr.theirPsbt : q.tx = x
    \/ /\ CheckForBuyerTrade(tr)
       /\ x.name = NameOut(tr.counterparty, nameVer[tr.counterparty])

(* The trade t, with record tr, gets the record r, and outs are locked.    *)
Effect(t, tr, taking, r, outs) ==
    /\ trades' = Put(t, r)
    /\ r.account = tr.account /\ r.counterparty = tr.counterparty
    /\ r.order = tr.order /\ r.units = tr.units /\ r.theirPsbt = tr.theirPsbt
    /\ IsFinalised(r) <=> IsFinalised(tr)
    /\ WalletRecord(r)
    /\ locked' = [locked EXCEPT ![tr.account] = @ \cup outs]
    /\ outs \cap locked[tr.account] = {}
    /\ \/ Held(r) = Held(tr) \cup outs
       \/ Held(r) = Held(tr) /\ "throw" \in Faults
    /\ \A p \in r.ourPsbt : FromTrade(tr, p.tx)
    /\ \A m \in msgs' \ msgs :
          /\ m.from = tr.account /\ m.to = tr.counterparty /\ m.order = tr.order
          /\ m.taking = {} \/ m.taking = taking
          /\ \A p \in m.psbt : FromTrade(tr, p.tx)
    /\ \A x \in mempool' \ mempool : x.name \notin spent /\ FromTrade(tr, x)

(* Every outcome of HasReply, and of the first message of a taker, is an   *)
(* Effect: a failing call may leave an output locked, and nothing more.    *)
LEMMA ReplyEffect ==
    ASSUME TypeOK, NEW t \in TradeId, NEW tr \in TradeState, NEW taking,
           WalletRecord(tr),
           \/ HasReply(t, tr)
           \/ CreateSellerData(t, tr, taking)
           \/ NoReply(t, tr, taking)
    PROVE  \E r \in TradeState : \E outs : Effect(t, tr, taking, r, outs)
<1> USE TradesAssumption
<1>a. /\ nameVer \in [Account -> Nat] /\ locked \in [Account -> SUBSET Output]
      /\ tr.account \in Account /\ tr.counterparty \in Account
      /\ tr.ourPsbt \subseteq Psbt /\ tr.theirPsbt \subseteq Psbt
      /\ tr.nameOutput \subseteq Output
      /\ GetOrderType(tr) \in {"ASK", "BID"}
  BY DEF TypeOK, TradeState, GetOrderType
<1>b. locked = [locked EXCEPT ![tr.account] = @ \cup {}]
  BY <1>a
<1>c. \A outs : Lock(tr.account, outs) <=>
                locked' = [locked EXCEPT ![tr.account] = @ \cup outs]
  BY DEF Lock
<1>d. \A p \in tr.ourPsbt \cup tr.theirPsbt : FromTrade(tr, p.tx)
  BY DEF FromTrade
<1>e. /\ NameOut(tr.account, nameVer[tr.account]) \in Output
      /\ NameOut(tr.account, nameVer[tr.account]).own = tr.account
  BY <1>a, OutputType DEF NameOut
<1>1. ASSUME NEW k, k = {} \/ k = taking, CreateSellerData(t, tr, k)
      PROVE  \E r \in TradeState : \E outs : Effect(t, tr, taking, r, outs)
  <2> DEFINE out == NameOut(tr.account, nameVer[tr.account])
  <2>1. PICK r : r = [tr EXCEPT !.sellerData = {t}, !.nameOutput = {out}]
    OBVIOUS
  <2>2. /\ r \in TradeState /\ r.account = tr.account
        /\ r.counterparty = tr.counterparty /\ r.order = tr.order /\ r.units = tr.units
        /\ r.state = tr.state /\ r.ourPsbt = tr.ourPsbt /\ r.theirPsbt = tr.theirPsbt
        /\ r.sellerData = {t} /\ r.nameOutput = {out}
    BY <2>1, <1>e DEF TradeState
  <2>3. /\ GetOrderType(tr) = "ASK" /\ tr.sellerData = {} /\ out \notin locked[tr.account]
        /\ tr.state = "INITIATED"
        /\ locked' = [locked EXCEPT ![tr.account] = @ \cup {out}]
        /\ trades' = Put(t, r) /\ mempool' = mempool
        /\ msgs' = msgs \cup {ReplyFor(tr, k, {t}, {})}
    BY <1>1, <2>1, <1>c DEF CreateSellerData, NeedsSellerData
  <2>4. tr.nameOutput = {} /\ tr.ourPsbt = {}
    BY <2>3, <1>a DEF WalletRecord
  <2>5. GetOrderType(r) = "ASK"
    BY <2>2, <2>3 DEF GetOrderType, GetRole
  <2>6. WalletRecord(r)
    BY <2>2, <2>3, <2>4, <2>5, <1>e DEF WalletRecord
  <2>7. HeldOutputs(r) = {out} /\ HeldOutputs(tr) = {}
    BY <2>2, <2>3, <2>4, <2>5 DEF HeldOutputs
  <2>8. Held(r) = Held(tr) \cup {out}
    BY <2>2, <2>7, <1>e DEF Held
  <2>9. \A m \in msgs' \ msgs :
          /\ m.from = tr.account /\ m.to = tr.counterparty /\ m.order = tr.order
          /\ m.taking = {} \/ m.taking = taking
          /\ m.psbt = {}
    BY <1>1, <2>3 DEF ReplyFor
  <2>10. IsFinalised(r) <=> IsFinalised(tr)
    BY <2>2 DEF IsFinalised
  <2>11. {out} \cap locked[tr.account] = {} /\ \A p \in r.ourPsbt : FromTrade(tr, p.tx)
    BY <2>2, <2>3, <2>4
  <2> HIDE DEF out
  <2>12. Effect(t, tr, taking, r, {out})
    BY <2>2, <2>3, <2>6, <2>8, <2>9, <2>10, <2>11 DEF Effect
  <2> QED BY <2>2, <2>12
<1>2. CASE TakerSignsSale(t, tr)
  <2>1. PICK p \in tr.theirPsbt :
          LET signed == SignPsbt(p, tr.account) IN
          /\ SellerCanSign(tr, p)
          /\ trades' = Put(t, [tr EXCEPT !.ourPsbt = {signed}, !.state = "PENDING"])
          /\ msgs' = msgs \cup {ReplyFor(tr, {}, {}, {signed})}
          /\ locked' = locked /\ mempool' = mempool
    BY <1>2 DEF TakerSignsSale
  <2>2. PICK signed \in Psbt : signed = SignPsbt(p, tr.account) /\ signed.tx = p.tx
    BY <1>a, SignPsbtType
  <2>3. PICK r : r = [tr EXCEPT !.ourPsbt = {signed}, !.state = "PENDING"]
    OBVIOUS
  <2>4. /\ r \in TradeState /\ r.account = tr.account
        /\ r.counterparty = tr.counterparty /\ r.order = tr.order /\ r.units = tr.units
        /\ r.state = "PENDING" /\ r.ourPsbt = {signed} /\ r.theirPsbt = tr.theirPsbt
        /\ r.sellerData = tr.sellerData /\ r.nameOutput = tr.nameOutput
    BY <2>3 DEF TradeState
  <2>5. /\ GetOrderType(tr) = "ASK" /\ tr.state = "INITIATED"
        /\ p.tx.name \in tr.nameOutput
    BY <2>1 DEF SellerCanSign, SellerAgrees, CheckForSellerSignature
  <2>6. GetOrderType(r) = "ASK"
    BY <2>4, <2>5 DEF GetOrderType, GetRole
  <2>7. WalletRecord(r)
    BY <2>2, <2>4, <2>5, <2>6 DEF WalletRecord
  <2>8. Held(r) = Held(tr) \cup {}
    BY <2>4, <2>5, <2>6 DEF Held, HeldOutputs
  <2>9. \A m \in msgs' \ msgs :
          /\ m.from = tr.account /\ m.to = tr.counterparty /\ m.order = tr.order
          /\ m.taking = {} /\ m.psbt = {signed}
    BY <2>1, <2>2 DEF ReplyFor
  <2>10. FromTrade(tr, signed.tx)
    BY <2>2, <1>d
  <2>11. ~IsFinalised(r) /\ ~IsFinalised(tr)
    BY <2>4, <2>5 DEF IsFinalised, Final
  <2>12. trades' = Put(t, r) /\ locked' = locked /\ mempool' = mempool
    BY <2>1, <2>2, <2>3
  <2>13. Effect(t, tr, taking, r, {})
    BY <2>4, <2>7, <2>8, <2>9, <2>10, <2>11, <2>12, <1>b DEF Effect
  <2> QED BY <2>4, <2>13
<1>3. CASE BuyerConstructs(t, tr)
  <2>1. PICK shared \in SUBSET Account, st \in {"PENDING", "INITIATED"} :
          FundAndSign(t, tr, shared, st)
    BY <1>3, <1>a DEF BuyerConstructs
  <2>2. PICK c \in Fundable(tr.account), addr \in tr.sellerData :
          LET x == ConstructTransaction(t, tr, addr, c) IN
          /\ BuyerCanConstruct(tr)
          /\ Lock(tr.account, {x.coin})
          /\ trades' = Put(t, [tr EXCEPT !.state = st,
                          !.ourPsbt = {[tx |-> x, sigs |-> {tr.account}]}])
          /\ msgs' = msgs \cup {ReplyFor(tr, {}, {}, {[tx |-> x, sigs |-> shared]})}
          /\ mempool' = mempool
    BY <2>1 DEF FundAndSign
  <2>3. PICK x \in Tx :
          /\ x = ConstructTransaction(t, tr, addr, c)
          /\ x.coin = CoinOut(tr.account, c)
          /\ x.name = NameOut(tr.counterparty, nameVer[tr.counterparty])
    <3>1. c \in Nat /\ addr \in TradeId /\ nameVer[tr.counterparty] \in Nat
      BY <1>a DEF Fundable, TradeState
    <3>2. /\ NameOut(tr.counterparty, nameVer[tr.counterparty]) \in Output
          /\ CoinOut(tr.account, c) \in Output
      BY <3>1, <1>a, OutputType
    <3> DEFINE y == ConstructTransaction(t, tr, addr, c)
    <3>3. /\ y \in Tx /\ y.coin = CoinOut(tr.account, c)
          /\ y.name = NameOut(tr.counterparty, nameVer[tr.counterparty])
      BY <3>1, <3>2, <1>a DEF ConstructTransaction, Tx, TradeState
    <3> QED BY <3>3
  <2>4. PICK q \in Psbt : q = [tx |-> x, sigs |-> {tr.account}] /\ q.tx = x
    <3> DEFINE y == [tx |-> x, sigs |-> {tr.account}]
    <3>1. y \in Psbt /\ y.tx = x
      BY <1>a DEF Psbt
    <3> QED BY <3>1
  <2>5. PICK r : r = [tr EXCEPT !.state = st, !.ourPsbt = {q}]
    OBVIOUS
  <2>6. /\ r \in TradeState /\ r.account = tr.account
        /\ r.counterparty = tr.counterparty /\ r.order = tr.order /\ r.units = tr.units
        /\ r.state = st /\ r.ourPsbt = {q} /\ r.theirPsbt = tr.theirPsbt
        /\ r.sellerData = tr.sellerData /\ r.nameOutput = tr.nameOutput
    BY <2>5 DEF TradeState
  <2>7. /\ GetOrderType(tr) = "BID" /\ tr.state = "INITIATED" /\ tr.ourPsbt = {}
        /\ CheckForBuyerTrade(tr) /\ x.coin \notin locked[tr.account]
        /\ locked' = [locked EXCEPT ![tr.account] = @ \cup {x.coin}]
        /\ trades' = Put(t, r)
    BY <2>2, <2>3, <2>4, <2>5, <1>c DEF BuyerCanConstruct, Fundable
  <2>8. GetOrderType(r) = "BID"
    BY <2>6, <2>7 DEF GetOrderType, GetRole
  <2>9. x.coin.own = tr.account /\ x.name.own = tr.counterparty
    BY <2>3 DEF CoinOut, NameOut
  <2>10. WalletRecord(r)
    BY <2>4, <2>6, <2>7, <2>8, <2>9 DEF WalletRecord
  <2>11. Held(r) = Held(tr) \cup {x.coin}
    <3>1. HeldOutputs(r) = tr.nameOutput \cup {x.name, x.coin}
      BY <2>4, <2>6, <2>8 DEF HeldOutputs, Inputs
    <3>2. HeldOutputs(tr) = tr.nameOutput
      BY <2>7 DEF HeldOutputs
    <3>3. tr.account # tr.counterparty
      BY DEF WalletRecord
    <3> QED BY <3>1, <3>2, <3>3, <2>6, <2>9 DEF Held
  <2>12. \A m \in msgs' \ msgs :
          /\ m.from = tr.account /\ m.to = tr.counterparty /\ m.order = tr.order
          /\ m.taking = {} /\ \A p \in m.psbt : p.tx = x
    <3>1. msgs' = msgs \cup {ReplyFor(tr, {}, {}, {[tx |-> x, sigs |-> shared]})}
      BY <2>2, <2>3
    <3> QED BY <3>1 DEF ReplyFor
  <2>13. FromTrade(tr, x)
    BY <2>3, <2>7 DEF FromTrade
  <2>14. ~IsFinalised(r) /\ ~IsFinalised(tr)
    BY <2>6, <2>7 DEF IsFinalised, Final
  <2>15. {x.coin} \cap locked[tr.account] = {} /\ mempool' = mempool
    BY <2>2, <2>7
  <2>16. Effect(t, tr, taking, r, {x.coin})
    BY <2>4, <2>6, <2>7, <2>10, <2>11, <2>12, <2>13, <2>14, <2>15 DEF Effect
  <2> QED BY <2>6, <2>16
<1>4. CASE MakerBroadcasts(t, tr) \/ BroadcastRefused(t, tr) \/ BroadcastReplyLost(t, tr)
  <2>1. PICK p \in FinalPsbts(tr), st \in {"INITIATED", "PENDING"}, r \in TradeState :
          /\ trades' = Put(t, r)
          /\ r = [WithFinal(tr, p) EXCEPT !.state = st]
          /\ \/ mempool' = mempool
             \/ mempool' = mempool \cup {p.tx} /\ Accepts(p.tx)
          /\ locked' = locked /\ msgs' = msgs
    <3>1. PICK p \in FinalPsbts(tr) :
            /\ \/ trades' = Put(t, WithFinal(tr, p))
               \/ trades' = Put(t, [WithFinal(tr, p) EXCEPT !.state = "PENDING"])
            /\ \/ mempool' = mempool
               \/ mempool' = mempool \cup {p.tx} /\ Accepts(p.tx)
            /\ locked' = locked /\ msgs' = msgs
      BY <1>4 DEF MakerBroadcasts, BroadcastRefused, BroadcastReplyLost
    <3>2. WithFinal(tr, p) \in TradeState /\ WithFinal(tr, p).ourPsbt # {}
      BY FinalPsbtsType
    <3>3. WithFinal(tr, p).state = "INITIATED"
      BY DEF WithFinal, FinalPsbts, TradeState
    <3>4. [WithFinal(tr, p) EXCEPT !.state = "INITIATED"] = WithFinal(tr, p)
      BY <3>2, <3>3 DEF TradeState
    <3>5. [WithFinal(tr, p) EXCEPT !.state = "PENDING"] \in TradeState
      BY <3>2 DEF TradeState
    <3> QED BY <3>1, <3>2, <3>4, <3>5
  <2>2. tr.state = "INITIATED"
    BY DEF FinalPsbts
  <2>3. /\ r.account = tr.account
        /\ r.counterparty = tr.counterparty /\ r.order = tr.order /\ r.units = tr.units
        /\ r.state = st /\ r.theirPsbt = tr.theirPsbt
        /\ r.sellerData = tr.sellerData /\ r.nameOutput = tr.nameOutput
        /\ r.ourPsbt = IF GetOrderType(tr) = "ASK" THEN {p} ELSE tr.ourPsbt
    BY <2>1 DEF TradeState, WithFinal
  <2>4. GetOrderType(r) = GetOrderType(tr)
    BY <2>3 DEF GetOrderType, GetRole
  <2>5. FromTrade(tr, p.tx) /\ (GetOrderType(tr) = "ASK" => p.tx.name \in tr.nameOutput)
    <3>1. CASE p \in tr.ourPsbt
      BY <3>1, <1>d DEF WalletRecord
    <3>2. CASE p \notin tr.ourPsbt /\ GetOrderType(tr) = "ASK"
      <4>1. PICK q \in tr.theirPsbt : SellerCanSign(tr, q) /\ p = SignPsbt(q, tr.account)
        BY <3>2 DEF FinalPsbts
      <4>2. p.tx = q.tx
        BY <4>1, <1>a, SignPsbtType
      <4>3. q.tx.name \in tr.nameOutput
        BY <4>1 DEF SellerCanSign, SellerAgrees, CheckForSellerSignature
      <4> QED BY <4>2, <4>3, <1>d
    <3>3. CASE p \notin tr.ourPsbt /\ GetOrderType(tr) # "ASK"
      <4>1. PICK q \in tr.ourPsbt : p = [q EXCEPT !.sigs = @ \cup SigsFor(tr.theirPsbt, q.tx)]
        BY <3>3 DEF FinalPsbts
      <4>2. p.tx = q.tx
        BY <4>1, <1>a DEF Psbt
      <4> QED BY <3>3, <4>2, <1>d
    <3> QED BY <3>1, <3>2, <3>3
  <2>6. WalletRecord(r)
    BY <2>1, <2>3, <2>4, <2>5 DEF WalletRecord
  <2>7. Held(r) = Held(tr) \cup {}
    BY <2>3, <2>4, <1>a DEF Held, HeldOutputs
  <2>8. \A x \in mempool' \ mempool : x.name \notin spent /\ FromTrade(tr, x)
    BY <2>1, <2>5 DEF Accepts, Inputs
  <2>9. \A q \in r.ourPsbt : FromTrade(tr, q.tx)
    BY <2>3, <2>5, <1>d
  <2>10. Effect(t, tr, taking, r, {})
    BY <2>1, <2>2, <2>3, <2>6, <2>7, <2>8, <2>9, <1>b DEF Effect, IsFinalised, Final
  <2> QED BY <2>1, <2>10
<1>5. ASSUME NEW k, k = {} \/ k = taking, NoReply(t, tr, k)
      PROVE  \E r \in TradeState : \E outs : Effect(t, tr, taking, r, outs)
  <2>1. /\ trades' = Put(t, tr) /\ locked' = locked /\ mempool' = mempool
        /\ \A m \in msgs' \ msgs :
              /\ m.from = tr.account /\ m.to = tr.counterparty /\ m.order = tr.order
              /\ m.taking = {} \/ m.taking = taking
              /\ m.psbt = {}
    BY <1>5 DEF NoReply, ReplyFor
  <2>2. Effect(t, tr, taking, tr, {})
    BY <2>1, <1>b, <1>d DEF Effect
  <2> QED BY <2>2
<1>6. CASE ThrowsAfterLock(t, tr) /\ trades' = Put(t, tr)
  <2>1. PICK out : Lock(tr.account, {out}) /\ out \notin locked[tr.account]
    BY <1>6 DEF ThrowsAfterLock, Fundable
  <2>2. Effect(t, tr, taking, tr, {out})
    BY <1>6, <2>1, <1>c, <1>d DEF Effect, ThrowsAfterLock
  <2> QED BY <2>2
<1> QED BY <1>1, <1>2, <1>3, <1>4, <1>5, <1>6 DEF HasReply

-----------------------------------------------------------------------------
(* How HasReply comes to be called *)

KnownTx(x) ==
    \/ \E i \in DOMAIN trades :
          \E p \in trades[i].ourPsbt \cup trades[i].theirPsbt : p.tx = x
    \/ \E m \in msgs : \E p \in m.psbt : p.tx = x

(* tr is the record of the active trade t after a message, or of a new one.*)
Call(t, tr, taking) ==
    /\ Slot(t) /\ ~IsFinalised(tr) /\ WalletRecord(tr)
    /\ t \in DOMAIN trades =>
          /\ ~IsFinalised(trades[t]) /\ Held(tr) = Held(trades[t])
          /\ tr.account = trades[t].account /\ tr.order = trades[t].order
          /\ tr.units = trades[t].units
    /\ t \notin DOMAIN trades => Held(tr) = {}
    /\ taking # {} => tr.counterparty = Maker[tr.order]
    /\ \A p \in tr.ourPsbt \cup tr.theirPsbt : KnownTx(p.tx)

(* Only a new trade of the maker changes an order: it locks it.            *)
LocksOrder(t, tr) ==
    /\ maxUnits' = maxUnits
    /\ \/ /\ ownOrder' = ownOrder
          /\ t \in DOMAIN trades \/ tr.account # Maker[tr.order]
       \/ /\ t \notin DOMAIN trades /\ tr.account = Maker[tr.order]
          /\ ownOrder[tr.order] = "open" /\ tr.units <= maxUnits[tr.order]
          /\ ownOrder' = [ownOrder EXCEPT ![tr.order] = "locked"]

(* A message leaves alone what a trade holds.                              *)
LEMMA MergeHeld ==
    ASSUME NEW tr \in TradeState, NEW m \in Message, WalletRecord(tr)
    PROVE  LET r == HandleMessage(tr, m) IN
           /\ WalletRecord(r) /\ Held(r) = Held(tr)
           /\ r.account = tr.account /\ r.order = tr.order /\ r.ourPsbt = tr.ourPsbt
           /\ r.counterparty = tr.counterparty /\ r.state = tr.state /\ r.units = tr.units
           /\ r.theirPsbt = tr.theirPsbt \/ r.theirPsbt = m.psbt
<1>1. PICK r : r = HandleMessage(tr, m)
  OBVIOUS
<1>2. /\ r.account = tr.account /\ r.order = tr.order /\ r.ourPsbt = tr.ourPsbt
      /\ r.counterparty = tr.counterparty /\ r.state = tr.state /\ r.units = tr.units
      /\ r.nameOutput = tr.nameOutput
      /\ r.theirPsbt = tr.theirPsbt \/ r.theirPsbt = m.psbt
      /\ GetOrderType(tr) = "ASK" => r.sellerData = tr.sellerData
  BY <1>1 DEF HandleMessage, MergeSellerData, MergePsbt, TradeState
<1>3. GetOrderType(r) = GetOrderType(tr)
  BY <1>2 DEF GetOrderType, GetRole
<1>4. WalletRecord(r)
  BY <1>2, <1>3 DEF WalletRecord
<1>5. Held(r) = Held(tr)
  BY <1>2, <1>3 DEF Held, HeldOutputs
<1> QED BY <1>1, <1>2, <1>4, <1>5

(* A new trade holds nothing.                                              *)
LEMMA NewTradeHeld ==
    ASSUME NEW a, NEW o, NEW cp, NEW u, a # cp
    PROVE  LET r == NewTrade(a, o, cp, u) IN
           /\ WalletRecord(r) /\ Held(r) = {} /\ ~IsFinalised(r)
           /\ r.account = a /\ r.order = o /\ r.counterparty = cp /\ r.units = u
           /\ r.ourPsbt = {} /\ r.theirPsbt = {}
BY DEF NewTrade, WalletRecord, Held, HeldOutputs, IsFinalised, Final

(* TakeOrder and ProcessMessage call HasReply for a new trade or for an    *)
(* active one, or throw and leave only a lock behind.                      *)
LEMMA CallCases ==
    ASSUME TypeOK, WalletInv, TakingToMaker,
           \/ \E a \in Account, o \in Order, u \in Units : TakeOrder(a, o, u)
           \/ \E m \in msgs : ProcessMessage(m)
    PROVE  \E t \in TradeId, tr \in TradeState, taking \in SUBSET Nat :
             /\ Call(t, tr, taking)
             /\ \/ /\ \/ HasReply(t, tr)
                      \/ CreateSellerData(t, tr, taking)
                      \/ NoReply(t, tr, taking)
                   /\ LocksOrder(t, tr)
                \/ ThrowsAfterLock(t, tr) /\ UNCHANGED <<trades, ownOrder, maxUnits>>
             /\ UNCHANGED <<finalised, chainVars>>
<1> USE TradesAssumption
<1>a. \A t \in TradeId : IsNextId(t) => Slot(t) /\ t \notin DOMAIN trades
  BY DEF IsNextId, Slot, TradeId
<1>b. \A t \in DOMAIN trades : t \in TradeId /\ trades[t] \in TradeState /\ Slot(t)
  BY DEF TypeOK, TradeId, Slot
<1>1. ASSUME NEW a \in Account, NEW o \in Order, NEW u \in Units, TakeOrder(a, o, u)
      PROVE  \E t \in TradeId, tr \in TradeState, taking \in SUBSET Nat :
               /\ Call(t, tr, taking)
               /\ \/ /\ \/ CreateSellerData(t, tr, taking)
                        \/ NoReply(t, tr, taking)
                     /\ LocksOrder(t, tr)
                  \/ ThrowsAfterLock(t, tr) /\ UNCHANGED <<trades, ownOrder, maxUnits>>
               /\ UNCHANGED <<finalised, chainVars>>
  <2>1. PICK tr \in TradeState : tr = NewTrade(a, o, Maker[o], u)
    BY NewTradeType
  <2>2. PICK t \in TradeId :
          /\ IsNextId(t) /\ Maker[o] # a
          /\ \/ CreateSellerData(t, tr, {u})
             \/ NoReply(t, tr, {u})
             \/ ThrowsAfterLock(t, tr) /\ UNCHANGED trades
          /\ UNCHANGED <<finalised, ownOrder, maxUnits, chainVars>>
    BY <1>1, <2>1 DEF TakeOrder
  <2>3. Slot(t) /\ t \notin DOMAIN trades /\ {u} \in SUBSET Nat
    BY <2>2, <1>a
  <2>4. /\ WalletRecord(tr) /\ Held(tr) = {} /\ ~IsFinalised(tr)
        /\ tr.account = a /\ tr.order = o /\ tr.counterparty = Maker[o]
        /\ tr.ourPsbt = {} /\ tr.theirPsbt = {}
    BY <2>1, <2>2, NewTradeHeld
  <2>5. Call(t, tr, {u}) /\ LocksOrder(t, tr)
    BY <2>2, <2>3, <2>4 DEF Call, LocksOrder
  <2> QED BY <2>2, <2>3, <2>5
<1>2. ASSUME NEW m \in msgs, ProcessMessage(m)
      PROVE  \E t \in TradeId, tr \in TradeState :
               /\ Call(t, tr, {}) /\ HasReply(t, tr) /\ LocksOrder(t, tr)
               /\ UNCHANGED <<finalised, chainVars>>
  <2>1. m \in Message /\ m.from # m.to
    BY DEF TypeOK, WalletInv
  <2>2. CASE OrderTaken(m)
    <3>1. PICK u \in m.taking, t \in TradeId :
            /\ IsNextId(t)
            /\ ownOrder[m.order] = "open" /\ u <= maxUnits[m.order]
            /\ ownOrder' = [ownOrder EXCEPT ![m.order] = "locked"]
            /\ HasReply(t, HandleMessage(NewTrade(m.to, m.order, m.from, u), m))
            /\ UNCHANGED <<finalised, maxUnits, chainVars>>
      BY <2>2 DEF OrderTaken, CheckOrder
    <3>2. PICK base \in TradeState : base = NewTrade(m.to, m.order, m.from, u)
      BY <2>1, NewTradeType DEF Message
    <3>3. PICK tr \in TradeState : tr = HandleMessage(base, m)
      BY <3>2, <2>1, HandleMessageType
    <3>4. /\ WalletRecord(base) /\ Held(base) = {} /\ ~IsFinalised(base)
          /\ base.account = m.to /\ base.order = m.order /\ base.counterparty = m.from
          /\ base.units = u /\ base.ourPsbt = {} /\ base.theirPsbt = {}
      BY <2>1, <3>2, NewTradeHeld
    <3>5. /\ WalletRecord(tr) /\ Held(tr) = {} /\ ~IsFinalised(tr)
          /\ tr.account = m.to /\ tr.order = m.order /\ tr.units = u
          /\ tr.ourPsbt = {} /\ tr.theirPsbt \subseteq m.psbt
      BY <2>1, <3>3, <3>4, MergeHeld DEF IsFinalised
    <3>6. m.to = Maker[m.order] /\ Slot(t) /\ t \notin DOMAIN trades
      BY <3>1, <1>a DEF TakingToMaker
    <3>7. \A p \in tr.ourPsbt \cup tr.theirPsbt : KnownTx(p.tx)
      BY <3>5 DEF KnownTx
    <3>8. Call(t, tr, {}) /\ LocksOrder(t, tr)
      BY <3>1, <3>5, <3>6, <3>7 DEF Call, LocksOrder
    <3> QED BY <3>1, <3>2, <3>3, <3>8
  <2>3. CASE Process(m)
    <3>1. PICK t \in DOMAIN trades :
            /\ Matches(t, m)
            /\ HasReply(t, HandleMessage(trades[t], m))
            /\ UNCHANGED <<finalised, ownOrder, maxUnits, chainVars>>
      BY <2>3 DEF Process
    <3>2. PICK base \in TradeState : base = trades[t]
      BY <1>b
    <3>3. PICK tr \in TradeState : tr = HandleMessage(base, m)
      BY <3>2, <2>1, HandleMessageType
    <3>4. WalletRecord(base) /\ ~IsFinalised(base)
      BY <3>1, <3>2 DEF WalletInv, Matches
    <3>5. /\ WalletRecord(tr) /\ Held(tr) = Held(base)
          /\ tr.account = base.account /\ tr.order = base.order /\ tr.ourPsbt = base.ourPsbt
          /\ tr.state = base.state /\ tr.units = base.units
          /\ tr.theirPsbt = base.theirPsbt \/ tr.theirPsbt = m.psbt
      BY <2>1, <3>3, <3>4, MergeHeld
    <3>6. \A p \in tr.ourPsbt \cup tr.theirPsbt : KnownTx(p.tx)
      BY <3>2, <3>5 DEF KnownTx
    <3>7. Call(t, tr, {}) /\ LocksOrder(t, tr)
      BY <3>1, <3>2, <3>4, <3>5, <3>6, <1>b DEF Call, LocksOrder, IsFinalised
    <3> QED BY <3>1, <3>2, <3>3, <3>7, <1>b
  <2> QED BY <1>2, <2>2, <2>3 DEF ProcessMessage
<1> QED BY <1>1, <1>2, {} \in SUBSET Nat

(* What a call of HasReply changes, by trade and by wallet.                *)
Written(t, tr, r, outs) ==
    /\ DOMAIN trades' = DOMAIN trades \cup {t} /\ trades'[t] = r
    /\ \A i \in DOMAIN trades : i # t => trades'[i] = trades[i]
    /\ Unreleased' = Unreleased \cup {t}
    /\ t \in DOMAIN trades => t \in Unreleased
    /\ \A a \in Account : a # tr.account => locked'[a] = locked[a]
    /\ locked'[tr.account] = locked[tr.account] \cup outs

(* The effect of HasReply, read off trade by trade.                        *)
LEMMA EffectFacts ==
    ASSUME TypeOK, NEW t \in TradeId, NEW tr \in TradeState, NEW taking, NEW r, NEW outs,
           Call(t, tr, taking), Effect(t, tr, taking, r, outs), finalised' = finalised
    PROVE  Written(t, tr, r, outs)
<1>1. /\ DOMAIN trades' = DOMAIN trades \cup {t} /\ trades'[t] = r
      /\ \A i \in DOMAIN trades : i # t => trades'[i] = trades[i]
  BY DEF Effect, Put
<1>2. ~IsFinalised(r)
  BY DEF Call, Effect
<1>3. t \in DOMAIN trades => t \in Unreleased
  BY DEF Call, Unreleased
<1>4. ASSUME NEW i PROVE i \in Unreleased' <=> i \in Unreleased \cup {t}
  <2>1. i \in Unreleased' <=> /\ i \in DOMAIN trades'
                              /\ trades'[i].state \notin Final \/ i \in finalised'
    BY DEF Unreleased, IsFinalised, Final
  <2>2. i \in Unreleased <=> /\ i \in DOMAIN trades
                             /\ trades[i].state \notin Final \/ i \in finalised
    BY DEF Unreleased, IsFinalised
  <2>3. CASE i = t
    BY <2>1, <2>3, <1>1, <1>2 DEF IsFinalised
  <2>4. CASE i # t
    BY <2>1, <2>2, <2>4, <1>1
  <2> QED BY <2>3, <2>4
<1>5. Unreleased' = Unreleased \cup {t}
  BY <1>4
<1>6. locked \in [Account -> SUBSET Output] /\ tr.account \in Account
  BY DEF TypeOK, TradeState
<1>7. locked' = [locked EXCEPT ![tr.account] = @ \cup outs]
  BY DEF Effect
<1> QED BY <1>1, <1>3, <1>5, <1>6, <1>7 DEF Written

(* HasReply keeps the invariant: what it locks was not locked, so no other *)
(* trade holds it.                                                         *)
LEMMA WalletReply ==
    ASSUME TypeOK, WalletInv, NEW t \in TradeId, NEW tr \in TradeState, NEW taking,
           NEW r \in TradeState, NEW outs,
           Call(t, tr, taking), Effect(t, tr, taking, r, outs),
           UNCHANGED <<finalised, chainVars>>
    PROVE  WalletInv'
<1>0. finalised' = finalised
  OBVIOUS
<1>a. /\ DOMAIN trades' = DOMAIN trades \cup {t} /\ trades'[t] = r
      /\ \A i \in DOMAIN trades : i # t => trades'[i] = trades[i]
      /\ Unreleased' = Unreleased \cup {t}
      /\ t \in DOMAIN trades => t \in Unreleased
      /\ \A a \in Account : a # tr.account => locked'[a] = locked[a]
      /\ locked'[tr.account] = locked[tr.account] \cup outs
  <2>1. Written(t, tr, r, outs)
    BY <1>0, EffectFacts
  <2> QED BY <2>1 DEF Written
<1>b. /\ r.account = tr.account /\ WalletRecord(r)
      /\ outs \cap locked[tr.account] = {}
      /\ Held(r) \subseteq Held(tr) \cup outs
  BY DEF Effect
<1>c. /\ spent' = spent /\ confirmed' = confirmed /\ Unreleased \subseteq DOMAIN trades
      /\ tr.account \in Account
      /\ \A i \in DOMAIN trades : trades[i].account \in Account
  BY DEF chainVars, Unreleased, TypeOK, TradeState
<1>d. Held(tr) \subseteq locked[tr.account] \cup spent
  BY <1>a DEF Call, WalletInv
<1>e. \A z : WalletRecord(z) => WalletRecord(z)'
  BY <1>c DEF WalletRecord, GetOrderType, GetRole
<1>f. \A z : Held(z)' = Held(z)
  BY DEF Held, HeldOutputs, GetOrderType, GetRole, Inputs
<1>1. ASSUME NEW i \in DOMAIN trades' PROVE WalletRecord(trades[i])'
  <2>1. PICK z : z = trades'[i] /\ WalletRecord(z)
    BY <1>a, <1>b DEF WalletInv
  <2>2. WalletRecord(z)'
    BY <2>1, <1>e
  <2> QED BY <2>1, <2>2
<1>2. \A m \in msgs' : m.from # m.to
  BY DEF Effect, WalletInv, Call, WalletRecord
<1>3. \A x \in confirmed' : Inputs(x) \subseteq spent'
  BY <1>c DEF WalletInv
<1>4. ASSUME NEW i \in Unreleased'
      PROVE  Held(trades'[i]) \subseteq locked'[trades'[i].account] \cup spent'
  <2>1. CASE i = t
    BY <2>1, <1>a, <1>b, <1>c, <1>d
  <2>2. CASE i # t
    <3>1. i \in Unreleased /\ i \in DOMAIN trades /\ trades'[i] = trades[i]
      BY <2>2, <1>a, <1>c
    <3>2. Held(trades[i]) \subseteq locked[trades[i].account] \cup spent
      BY <3>1 DEF WalletInv
    <3>3. locked[trades[i].account] \subseteq locked'[trades[i].account]
      BY <3>1, <1>a, <1>c
    <3> QED BY <3>1, <3>2, <3>3, <1>c
  <2> QED BY <2>1, <2>2
<1>5. ASSUME NEW i \in Unreleased, i # t, trades[i].account = tr.account
      PROVE  Held(trades[i]) \cap Held(r) \subseteq spent
  <2>1. Held(trades[i]) \subseteq locked[tr.account] \cup spent
    BY <1>5 DEF WalletInv
  <2>2. Held(trades[i]) \cap Held(tr) \subseteq spent
    <3>1. CASE t \in DOMAIN trades
      <4>1. t \in Unreleased /\ Held(tr) = Held(trades[t]) /\ tr.account = trades[t].account
        BY <3>1, <1>a DEF Call
      <4>2. {out \in HeldOutputs(trades[i]) \cap HeldOutputs(trades[t]) :
                out.own = trades[i].account} \subseteq spent
        BY <1>5, <4>1 DEF WalletInv, NoInputShared
      <4> QED BY <4>1, <4>2 DEF Held
    <3>2. CASE t \notin DOMAIN trades
      BY <3>2 DEF Call
    <3> QED BY <3>1, <3>2
  <2> QED BY <2>1, <2>2, <1>b
<1>6. NoInputShared'
  <2> SUFFICES ASSUME NEW i \in Unreleased', NEW j \in Unreleased', i # j,
                      trades'[i].account = trades'[j].account
               PROVE  Held(trades'[i]) \cap Held(trades'[j]) \subseteq spent
    <3>1. \A i, j : {out \in HeldOutputs(trades[i]) \cap HeldOutputs(trades[j]) :
                       out.own = trades[i].account}'
              = {out \in HeldOutputs(trades'[i]) \cap HeldOutputs(trades'[j]) :
                       out.own = trades'[i].account}
      BY DEF HeldOutputs, GetOrderType, GetRole, Inputs
    <3> QED BY <3>1, <1>c DEF NoInputShared, Held
  <2>1. \A k \in Unreleased' : k # t => k \in Unreleased /\ trades'[k] = trades[k]
    BY <1>a, <1>c
  <2>2. CASE i = t
    <3>1. j \in Unreleased /\ trades'[j] = trades[j] /\ trades[j].account = tr.account
      BY <2>2, <2>1, <1>a, <1>b
    <3> QED BY <2>2, <3>1, <1>5, <1>a
  <2>3. CASE j = t
    <3>1. i \in Unreleased /\ trades'[i] = trades[i] /\ trades[i].account = tr.account
      BY <2>3, <2>1, <1>a, <1>b
    <3> QED BY <2>3, <3>1, <1>5, <1>a
  <2>4. CASE i # t /\ j # t
    <3>1. /\ i \in Unreleased /\ j \in Unreleased
          /\ trades'[i] = trades[i] /\ trades'[j] = trades[j]
      BY <2>1, <2>4
    <3>2. {out \in HeldOutputs(trades[i]) \cap HeldOutputs(trades[j]) :
                out.own = trades[i].account} \subseteq spent
      BY <3>1 DEF WalletInv, NoInputShared
    <3> QED BY <3>1, <3>2 DEF Held
  <2> QED BY <2>2, <2>3, <2>4
<1>7. \A i \in Unreleased' : (Held(trades[i]) \subseteq locked[trades[i].account] \cup spent)'
  BY <1>4, <1>f DEF Held, HeldOutputs, GetOrderType, GetRole, Inputs
<1> QED BY <1>1, <1>2, <1>3, <1>6, <1>7 DEF WalletInv, Inputs

(* Steps that leave the records of the trades alone.                       *)
LEMMA WalletFrame ==
    ASSUME TypeOK, WalletInv, trades' = trades, msgs' = msgs,
           finalised' \subseteq finalised, spent \subseteq spent',
           confirmed \subseteq confirmed',
           \A x \in confirmed' \ confirmed : Inputs(x) \subseteq spent',
           \A i \in Unreleased : i \in Unreleased' =>
              Held(trades[i]) \subseteq locked'[trades[i].account] \cup spent'
    PROVE  WalletInv'
<1>1. Unreleased' \subseteq Unreleased
  BY DEF Unreleased, IsFinalised, Final
<1>2. \A i \in DOMAIN trades' : WalletRecord(trades[i])'
  BY DEF WalletInv, WalletRecord, GetOrderType, GetRole
<1>3. \A i \in Unreleased' : (Held(trades[i]) \subseteq locked[trades[i].account] \cup spent)'
  BY <1>1 DEF Held, HeldOutputs, GetOrderType, GetRole, Inputs
<1>4. NoInputShared'
  <2>1. NoInputShared
    BY DEF WalletInv
  <2>2. \A i, j : {out \in HeldOutputs(trades[i]) \cap HeldOutputs(trades[j]) :
                     out.own = trades[i].account}'
            = {out \in HeldOutputs(trades[i]) \cap HeldOutputs(trades[j]) :
                     out.own = trades[i].account}
    BY DEF HeldOutputs, GetOrderType, GetRole, Inputs
  <2> QED BY <2>1, <2>2, <1>1 DEF NoInputShared
<1>5. \A x \in confirmed' : Inputs(x) \subseteq spent'
  BY DEF WalletInv
<1> QED BY <1>2, <1>3, <1>4, <1>5 DEF WalletInv, Inputs

(* What the updater writes: the records keep everything but their state.   *)
LEMMA FinaliseFacts ==
    ASSUME TypeOK, NEW t \in DOMAIN trades, NEW st \in Final, Finalise(t, st),
           ~IsFinalised(trades[t])
    PROVE  /\ DOMAIN trades' = DOMAIN trades
           /\ \A i \in DOMAIN trades :
                 LET r == trades[i] s == trades'[i] IN
                 /\ s.account = r.account /\ s.counterparty = r.counterparty
                 /\ s.order = r.order /\ s.units = r.units
                 /\ s.sellerData = r.sellerData
                 /\ s.nameOutput = r.nameOutput
                 /\ s.ourPsbt = r.ourPsbt /\ s.theirPsbt = r.theirPsbt
                 /\ s.state = IF i = t THEN st ELSE r.state
                 /\ GetOrderType(s) = GetOrderType(r)
                 /\ HeldOutputs(s) = HeldOutputs(r)
           /\ Unreleased' = Unreleased
<1>1. /\ DOMAIN trades' = DOMAIN trades
      /\ trades'[t] = [trades[t] EXCEPT !.state = st]
      /\ \A i \in DOMAIN trades : i # t => trades'[i] = trades[i]
      /\ finalised' = finalised \cup {t}
  BY DEF Finalise, Put
<1>2. trades[t] \in TradeState
  BY DEF TypeOK
<1>3. \A i \in DOMAIN trades :
        LET r == trades[i] s == trades'[i] IN
        /\ s.account = r.account /\ s.counterparty = r.counterparty
        /\ s.order = r.order /\ s.units = r.units
        /\ s.sellerData = r.sellerData /\ s.nameOutput = r.nameOutput
        /\ s.ourPsbt = r.ourPsbt /\ s.theirPsbt = r.theirPsbt
        /\ s.state = IF i = t THEN st ELSE r.state
  BY <1>1, <1>2 DEF TradeState
<1>4. \A i \in DOMAIN trades : GetOrderType(trades'[i]) = GetOrderType(trades[i])
  BY <1>3 DEF GetOrderType, GetRole
<1>5. \A i \in DOMAIN trades : HeldOutputs(trades'[i]) = HeldOutputs(trades[i])
  BY <1>3, <1>4 DEF HeldOutputs
<1>6. ASSUME NEW i PROVE i \in Unreleased' <=> i \in Unreleased
  <2>1. i \in Unreleased' <=> /\ i \in DOMAIN trades'
                              /\ trades'[i].state \notin Final \/ i \in finalised'
    BY DEF Unreleased, IsFinalised, Final
  <2>2. i \in Unreleased <=> /\ i \in DOMAIN trades
                             /\ trades[i].state \notin Final \/ i \in finalised
    BY DEF Unreleased, IsFinalised
  <2> QED BY <2>1, <2>2, <1>1, <1>3 DEF IsFinalised
<1>7. Unreleased' = Unreleased
  BY <1>6
<1> QED BY <1>1, <1>3, <1>4, <1>5, <1>7

(* Update finalises an active trade; SUCCESS says that its transaction is  *)
(* confirmed.                                                              *)
LEMMA UpdateCases ==
    ASSUME WalletInv, NEW t \in DOMAIN trades, Abandon(t) \/ UpdatePending(t)
    PROVE  \E st \in Final :
             /\ Finalise(t, st) /\ ~IsFinalised(trades[t])
             /\ st = "SUCCESS" => \A p \in trades[t].ourPsbt : p.tx \in confirmed
<1>1. \A p, q \in trades[t].ourPsbt : p = q
  BY DEF WalletInv, WalletRecord
<1>2. CASE Abandon(t)
  BY <1>2 DEF Abandon, Final, IsFinalised
<1>3. CASE UpdatePending(t)
  <2>1. PICK p \in trades[t].ourPsbt :
          /\ trades[t].state = "PENDING"
          /\ \/ p.tx \in confirmed /\ Finalise(t, "SUCCESS")
             \/ Finalise(t, "FAILED")
    BY <1>3 DEF UpdatePending
  <2>2. ~IsFinalised(trades[t])
    BY <2>1 DEF IsFinalised, Final
  <2>3. CASE p.tx \in confirmed /\ Finalise(t, "SUCCESS")
    BY <1>1, <2>2, <2>3 DEF Final
  <2>4. CASE Finalise(t, "FAILED")
    BY <2>2, <2>4 DEF Final
  <2> QED BY <2>1, <2>3, <2>4
<1> QED BY <1>2, <1>3

(* The updater keeps the invariant: it changes only states.                *)
LEMMA WalletFinalise ==
    ASSUME TypeOK, WalletInv, NEW t \in DOMAIN trades, NEW st \in Final,
           Finalise(t, st), ~IsFinalised(trades[t]),
           st = "SUCCESS" => \A p \in trades[t].ourPsbt : p.tx \in confirmed
    PROVE  WalletInv'
<1>1. /\ DOMAIN trades' = DOMAIN trades
      /\ \A i \in DOMAIN trades :
            LET r == trades[i] s == trades'[i] IN
            /\ s.account = r.account /\ s.counterparty = r.counterparty
            /\ s.sellerData = r.sellerData /\ s.nameOutput = r.nameOutput
            /\ s.ourPsbt = r.ourPsbt
            /\ s.state = IF i = t THEN st ELSE r.state
            /\ GetOrderType(s) = GetOrderType(r)
            /\ HeldOutputs(s) = HeldOutputs(r)
      /\ Unreleased' = Unreleased
  BY FinaliseFacts
<1>2. UNCHANGED <<locked, msgs, spent, confirmed>>
  BY DEF Finalise, chainVars
<1>3. ASSUME NEW i \in DOMAIN trades' PROVE WalletRecord(trades[i])'
  <2>1. WalletRecord(trades[i])
    BY <1>1 DEF WalletInv
  <2>2. GetOrderType(trades[i])' = GetOrderType(trades[i])
    BY <1>1 DEF GetOrderType, GetRole
  <2> QED BY <2>1, <2>2, <1>1, <1>2 DEF WalletRecord
<1>4. \A i \in DOMAIN trades : HeldOutputs(trades[i])' = HeldOutputs(trades[i])
  <2>1. \A i : HeldOutputs(trades[i])' = HeldOutputs(trades'[i])
    BY DEF HeldOutputs, GetOrderType, GetRole, Inputs
  <2> QED BY <2>1, <1>1
<1>5. Unreleased \subseteq DOMAIN trades
  BY DEF Unreleased
<1>6. \A i \in Unreleased' : (Held(trades[i]) \subseteq locked[trades[i].account] \cup spent)'
  BY <1>1, <1>2, <1>4, <1>5 DEF WalletInv, Held
<1>7. NoInputShared'
  BY <1>1, <1>2, <1>4, <1>5 DEF WalletInv, NoInputShared
<1> QED BY <1>2, <1>3, <1>6, <1>7 DEF WalletInv, Inputs

-----------------------------------------------------------------------------
(* The steps of the system *)

(* A trade calls HasReply.                                                 *)
Replies(t, tr, taking, r, outs) ==
    /\ Call(t, tr, taking) /\ Effect(t, tr, taking, r, outs) /\ LocksOrder(t, tr)
    /\ UNCHANGED <<finalised, chainVars>>

(* Taking an order fails after the wallet has locked an output.            *)
OnlyLocks(a, out) ==
    /\ "throw" \in Faults
    /\ locked' = [locked EXCEPT ![a] = @ \cup {out}]
    /\ UNCHANGED <<trades, ownOrder, maxUnits, finalised, msgs, mempool, chainVars>>

(* The updater ends a trade.                                               *)
Ends(t, st) ==
    /\ Finalise(t, st) /\ ~IsFinalised(trades[t])
    /\ st = "SUCCESS" => \A p \in trades[t].ourPsbt : p.tx \in confirmed

(* HandleFailure unlocks what the trade t holds.                           *)
Unlocks(t) == Release(t, HeldOrders(trades[t]), HeldOutputs(trades[t]))

(* An own order is removed.                                                *)
Removes(o) ==
    /\ ownOrder[o] \in {"open", "locked"}
    /\ ownOrder' = [ownOrder EXCEPT ![o] = "gone"]
    /\ UNCHANGED <<trades, finalised, maxUnits, locked, msgs, mempool, chainVars>>

(* Nothing happens, except that a daemon may be aborted.                   *)
Idle ==
    UNCHANGED <<trades, finalised, ownOrder, maxUnits, locked, msgs, mempool, chainVars>>

Outsider ==
    \/ \E x \in mempool : Mine(x)
    \/ \E a \in Account : SpendName(a)
    \/ \E a \in Account, c \in Coin : SpendCoin(a, c)
    \/ Idle

(* Every step is of one of these kinds.                                    *)
LEMMA StepCases ==
    ASSUME TypeOK, WalletInv, TakingToMaker, [Next]_vars
    PROVE  \/ \E t \in TradeId, tr \in TradeState, taking \in SUBSET Nat,
                 r \in TradeState : \E outs : Replies(t, tr, taking, r, outs)
           \/ \E a \in Account : \E out : OnlyLocks(a, out)
           \/ \E t \in DOMAIN trades, st \in Final : Ends(t, st)
           \/ \E t \in DOMAIN trades : Unlocks(t) \/ HandleSuccess(t)
           \/ \E o \in Order : Removes(o)
           \/ Outsider
<1>1. ASSUME \/ \E a \in Account, o \in Order, u \in Units : TakeOrder(a, o, u)
             \/ \E m \in msgs : ProcessMessage(m)
      PROVE  \/ \E t \in TradeId, tr \in TradeState, taking \in SUBSET Nat,
                   r \in TradeState : \E outs : Replies(t, tr, taking, r, outs)
             \/ \E a \in Account : \E out : OnlyLocks(a, out)
  <2>1. PICK t \in TradeId, tr \in TradeState, taking \in SUBSET Nat :
             /\ Call(t, tr, taking)
             /\ \/ /\ \/ HasReply(t, tr)
                      \/ CreateSellerData(t, tr, taking)
                      \/ NoReply(t, tr, taking)
                   /\ LocksOrder(t, tr)
                \/ ThrowsAfterLock(t, tr) /\ UNCHANGED <<trades, ownOrder, maxUnits>>
             /\ UNCHANGED <<finalised, chainVars>>
    BY <1>1, CallCases
  <2>2. CASE /\ \/ HasReply(t, tr)
                \/ CreateSellerData(t, tr, taking)
                \/ NoReply(t, tr, taking)
             /\ LocksOrder(t, tr)
    <3>1. WalletRecord(tr)
      BY <2>1 DEF Call
    <3>e. PICK r \in TradeState : \E outs : Effect(t, tr, taking, r, outs)
      BY <2>2, <3>1, ReplyEffect
    <3>2. PICK outs : Effect(t, tr, taking, r, outs)
      BY <3>e
    <3>3. Replies(t, tr, taking, r, outs)
      BY <2>1, <2>2, <3>2 DEF Replies
    <3> QED BY <3>3
  <2>3. CASE ThrowsAfterLock(t, tr) /\ UNCHANGED <<trades, ownOrder, maxUnits>>
    <3>1. PICK out : Lock(tr.account, {out})
      BY <2>3 DEF ThrowsAfterLock
    <3>2. tr.account \in Account
      BY DEF TradeState
    <3>3. OnlyLocks(tr.account, out)
      BY <2>1, <2>3, <3>1 DEF ThrowsAfterLock, Lock, OnlyLocks
    <3> QED BY <3>2, <3>3
  <2> QED BY <2>1, <2>2, <2>3
<1>2. ASSUME NEW t \in DOMAIN trades, Abandon(t) \/ UpdatePending(t)
      PROVE  \E st \in Final : Ends(t, st)
  BY <1>2, UpdateCases DEF Ends
<1>3. ASSUME NEW t \in DOMAIN trades, HandleFailure(t) PROVE Unlocks(t) \/ Idle
  BY <1>3 DEF HandleFailure, UnlockFails, Unlocks, Idle
<1>4. ASSUME NEW o \in Removable, RemoveOrder(o) PROVE o \in Order /\ Removes(o)
  BY <1>4, TradesAssumption DEF RemoveOrder, Removes
<1>5. UNCHANGED vars => Idle
  BY DEF vars, Idle
<1> QED BY <1>1, <1>2, <1>3, <1>4, <1>5 DEF Next, Outsider

(* HandleFailure unlocks outputs, which no other trade holds.              *)
LEMMA WalletRelease ==
    ASSUME TypeOK, WalletInv, NEW t \in DOMAIN trades, Unlocks(t)
    PROVE  WalletInv'
<1>1. /\ t \in finalised /\ trades[t].state \in {"ABANDONED", "FAILED"}
      /\ finalised' = finalised \ {t}
      /\ locked' = [locked EXCEPT ![trades[t].account] = @ \ HeldOutputs(trades[t])]
      /\ trades' = trades /\ msgs' = msgs /\ spent' = spent /\ confirmed' = confirmed
  BY DEF Unlocks, Release, Failed, chainVars
<1>2. t \in Unreleased /\ Unreleased \subseteq DOMAIN trades
  BY <1>1 DEF Unreleased
<1>3. t \notin Unreleased'
  BY <1>1 DEF Unreleased, IsFinalised, Final
<1>4. locked \in [Account -> SUBSET Output] /\ \A i \in DOMAIN trades : trades[i].account \in Account
  BY DEF TypeOK, TradeState
<1>5. ASSUME NEW i \in Unreleased, i # t
      PROVE  Held(trades[i]) \subseteq locked'[trades[i].account] \cup spent'
  <2>1. Held(trades[i]) \subseteq locked[trades[i].account] \cup spent
    BY DEF WalletInv
  <2>2. CASE trades[i].account # trades[t].account
    BY <2>1, <2>2, <1>1, <1>2, <1>4
  <2>3. CASE trades[i].account = trades[t].account
    <3>1. {out \in HeldOutputs(trades[i]) \cap HeldOutputs(trades[t]) :
                out.own = trades[i].account} \subseteq spent
      BY <2>3, <1>2, <1>5 DEF WalletInv, NoInputShared
    <3>2. locked'[trades[i].account] = locked[trades[i].account] \ HeldOutputs(trades[t])
      BY <2>3, <1>1, <1>2, <1>4
    <3> QED BY <2>1, <3>1, <3>2, <1>1 DEF Held
  <2> QED BY <2>2, <2>3
<1>6. \A i \in Unreleased : i \in Unreleased' =>
              Held(trades[i]) \subseteq locked'[trades[i].account] \cup spent'
  BY <1>3, <1>5
<1> QED BY <1>1, <1>6, WalletFrame

(* The invariant is inductive, whatever fails.                             *)
LEMMA WalletStep ==
    ASSUME TypeOK, WalletInv, TakingToMaker, [Next]_vars
    PROVE  WalletInv' /\ TakingToMaker'
<1>a. /\ locked \in [Account -> SUBSET Output]
      /\ \A i \in Unreleased : i \in DOMAIN trades /\ trades[i].account \in Account
      /\ \A i \in Unreleased : Held(trades[i]) \subseteq locked[trades[i].account] \cup spent
  BY DEF TypeOK, TradeState, Unreleased, WalletInv
<1>1. ASSUME NEW t \in TradeId, NEW tr \in TradeState, NEW taking \in SUBSET Nat,
             NEW r \in TradeState, NEW outs, Replies(t, tr, taking, r, outs)
      PROVE  WalletInv' /\ TakingToMaker'
  <2>1. WalletInv'
    BY <1>1, WalletReply DEF Replies
  <2>2. \A m \in msgs' \ msgs : m.taking # {} => m.to = Maker[m.order]
    BY <1>1 DEF Replies, Effect, Call
  <2> QED BY <2>1, <2>2 DEF TakingToMaker
<1>2. ASSUME NEW a \in Account, NEW out, OnlyLocks(a, out)
      PROVE  WalletInv' /\ TakingToMaker'
  <2>1. /\ trades' = trades /\ msgs' = msgs /\ finalised' = finalised
        /\ spent' = spent /\ confirmed' = confirmed
        /\ locked' = [locked EXCEPT ![a] = @ \cup {out}]
    BY <1>2 DEF OnlyLocks, chainVars
  <2>2. \A i \in Unreleased : Held(trades[i]) \subseteq locked'[trades[i].account] \cup spent'
    BY <2>1, <1>a
  <2>3. WalletInv'
    BY <2>1, <2>2, WalletFrame
  <2> QED BY <2>1, <2>3 DEF TakingToMaker
<1>3. ASSUME NEW t \in DOMAIN trades, NEW st \in Final, Ends(t, st)
      PROVE  WalletInv' /\ TakingToMaker'
  <2>1. WalletInv'
    BY <1>3, WalletFinalise DEF Ends
  <2> QED BY <1>3, <2>1 DEF Ends, Finalise, TakingToMaker
<1>4. ASSUME NEW t \in DOMAIN trades, Unlocks(t)
      PROVE  WalletInv' /\ TakingToMaker'
  BY <1>4, WalletRelease DEF Unlocks, Release, TakingToMaker
<1>5. ASSUME trades' = trades, msgs' = msgs, finalised' \subseteq finalised,
             locked' = locked, spent \subseteq spent',
             confirmed \subseteq confirmed',
             \A x \in confirmed' \ confirmed : Inputs(x) \subseteq spent'
      PROVE  WalletInv' /\ TakingToMaker'
  <2>1. \A i \in Unreleased : Held(trades[i]) \subseteq locked'[trades[i].account] \cup spent'
    BY <1>5, <1>a
  <2>2. WalletInv'
    BY <1>5, <2>1, WalletFrame
  <2> QED BY <1>5, <2>2 DEF TakingToMaker
<1>6. ASSUME NEW t \in DOMAIN trades, HandleSuccess(t)
      PROVE  WalletInv' /\ TakingToMaker'
  BY <1>5, <1>6 DEF HandleSuccess, Settle, chainVars
<1>7. CASE Outsider
  <2>1. ASSUME NEW x \in mempool, Mine(x) PROVE WalletInv' /\ TakingToMaker'
    BY <1>5, <2>1 DEF Mine, SpendOutputs
  <2>2. ASSUME \/ \E a \in Account : SpendName(a)
               \/ \E a \in Account, c \in Coin : SpendCoin(a, c)
               \/ Idle
        PROVE  WalletInv' /\ TakingToMaker'
    BY <1>5, <2>2 DEF SpendName, SpendCoin, SpendOutputs, Idle, chainVars
  <2> QED BY <1>7, <2>1, <2>2 DEF Outsider
<1>8. ASSUME NEW o \in Order, Removes(o) PROVE WalletInv' /\ TakingToMaker'
  BY <1>5, <1>8 DEF Removes, chainVars
<1> QED BY <1>1, <1>2, <1>3, <1>4, <1>6, <1>7, <1>8, StepCases

(* The invariant holds in every reachable state.                           *)
LEMMA WalletInvariant == Spec => [](TypeOK /\ WalletInv /\ TakingToMaker)
<1>1. Init => WalletInv /\ TakingToMaker
  BY DEF Init, WalletInv, TakingToMaker, NoInputShared, Unreleased
<1>2. TypeOK /\ WalletInv /\ TakingToMaker /\ [Next]_vars => WalletInv' /\ TakingToMaker'
  BY WalletStep
<1> QED BY <1>1, <1>2, TypeCorrect, PTL DEF Spec

(* Two trades of an account that have not been cleaned up never use the    *)
(* same output of its wallet: CreateSellerData and walletcreatefundedpsbt  *)
(* take only what is not locked, and HandleFailure unlocks only what its   *)
(* own trade holds.  This holds for every choice of Faults.                *)
THEOREM NoDoubleSpend == Spec => []NoInputShared
<1>1. WalletInv => NoInputShared
  BY DEF WalletInv
<1> QED BY <1>1, WalletInvariant, PTL

-----------------------------------------------------------------------------
(* The lock of an own order *)

(* The trades of the maker about its order o, at most one.                 *)
Keepers(o) == {t \in Unreleased : /\ trades[t].order = o
                                  /\ trades[t].account = Maker[o]}

(* What the state of an order says about these trades ts.                  *)
LockFits(status, ts) ==
    /\ status = "locked" => ts # {}
    /\ status \in {"none", "open"} => ts = {}
    /\ \A s, t \in ts : s = t

(* OrderLocked and its primed form in terms of Keepers.                    *)
LEMMA OrderLockedParts ==
    /\ OrderLocked <=> \A o \in Order : LockFits(ownOrder[o], Keepers(o))
    /\ OrderLocked' <=> \A o \in Order : LockFits(ownOrder'[o], Keepers(o)')
BY DEF OrderLocked, Keepers, LockFits

(* The clean up of a trade t ends its hold on an order.                    *)
LEMMA CleanUp ==
    ASSUME NEW t, t \in finalised, IsFinalised(trades[t]), t \in DOMAIN trades,
           finalised' = finalised \ {t}, trades' = trades
    PROVE  /\ t \in Unreleased /\ Unreleased' = Unreleased \ {t}
           /\ \A o : Keepers(o)' = Keepers(o) \ {t}
<1>1. Unreleased' = Unreleased \ {t}
  <2>1. ASSUME NEW i PROVE i \in Unreleased' <=> i \in Unreleased \ {t}
    BY DEF Unreleased, IsFinalised, Final
  <2> QED BY <2>1
<1> QED BY <1>1 DEF Unreleased, Keepers

(* OrderLocked is inductive relative to WalletInv: only a new trade of the *)
(* maker locks the order, only its clean up puts it on offer again, and an *)
(* order that is removed never comes back.                                 *)
LEMMA OrderLockedStep ==
    ASSUME TypeOK, WalletInv, TakingToMaker, OrderLocked, [Next]_vars
    PROVE  OrderLocked'
<1> USE TradesAssumption
<1>a. \A o \in Order : LockFits(ownOrder[o], Keepers(o))
  BY OrderLockedParts
<1>b. /\ ownOrder \in [Order -> {"none", "open", "locked", "gone"}]
      /\ \A t \in DOMAIN trades : trades[t].order \in Order
  BY DEF TypeOK, TradeState
<1>c. Unreleased \subseteq DOMAIN trades
  BY DEF Unreleased
<1>1. ASSUME ownOrder' = ownOrder, Unreleased' = Unreleased,
             \A i \in Unreleased : /\ trades'[i].order = trades[i].order
                                   /\ trades'[i].account = trades[i].account
      PROVE  OrderLocked'
  <2>1. \A o \in Order : Keepers(o)' = Keepers(o)
    BY <1>1 DEF Keepers
  <2> QED BY <2>1, <1>1, <1>a, OrderLockedParts
<1>2. ASSUME NEW t \in TradeId, NEW tr \in TradeState, NEW taking \in SUBSET Nat,
             NEW r \in TradeState, NEW outs, Replies(t, tr, taking, r, outs)
      PROVE  OrderLocked'
  <2>1. Call(t, tr, taking) /\ Effect(t, tr, taking, r, outs) /\ finalised' = finalised
    BY <1>2 DEF Replies
  <2>2. /\ trades'[t] = r
        /\ \A i \in DOMAIN trades : i # t => trades'[i] = trades[i]
        /\ Unreleased' = Unreleased \cup {t}
        /\ t \in DOMAIN trades => t \in Unreleased
    <3>1. Written(t, tr, r, outs)
      BY <2>1, EffectFacts
    <3> QED BY <3>1 DEF Written
  <2>3. /\ r.account = tr.account /\ r.order = tr.order
        /\ t \in DOMAIN trades => /\ tr.account = trades[t].account
                                  /\ tr.order = trades[t].order
    BY <2>1 DEF Effect, Call
  <2>4. CASE t \in DOMAIN trades /\ ownOrder' = ownOrder
    BY <2>2, <2>3, <2>4, <1>1, <1>c
  <2>5. ASSUME t \notin DOMAIN trades, NEW o \in Order
        PROVE  Keepers(o)' = IF tr.order = o /\ tr.account = Maker[o]
                             THEN Keepers(o) \cup {t} ELSE Keepers(o)
    BY <2>2, <2>3, <2>5, <1>c DEF Keepers
  <2>6. CASE /\ t \notin DOMAIN trades /\ ownOrder' = ownOrder
             /\ tr.account # Maker[tr.order]
    BY <2>5, <2>6, <1>a, OrderLockedParts
  <2>7. CASE /\ t \notin DOMAIN trades /\ tr.account = Maker[tr.order]
             /\ ownOrder[tr.order] = "open"
             /\ ownOrder' = [ownOrder EXCEPT ![tr.order] = "locked"]
    <3>1. tr.order \in Order
      BY DEF TradeState
    <3>2. Keepers(tr.order) = {} /\ Keepers(tr.order)' = {t}
      BY <2>5, <2>7, <3>1, <1>a DEF LockFits
    <3>3. \A o \in Order : o # tr.order =>
            Keepers(o)' = Keepers(o) /\ ownOrder'[o] = ownOrder[o]
      BY <2>5, <2>7, <1>b
    <3>4. ownOrder'[tr.order] = "locked"
      BY <2>7, <3>1, <1>b
    <3>5. LockFits("locked", {t})
      BY DEF LockFits
    <3> QED BY <3>2, <3>3, <3>4, <3>5, <1>a, OrderLockedParts
  <2> QED BY <1>2, <2>4, <2>6, <2>7 DEF Replies, LocksOrder
<1>3. ASSUME NEW a \in Account, NEW out, OnlyLocks(a, out) PROVE OrderLocked'
  BY <1>1, <1>3 DEF OnlyLocks, Unreleased, IsFinalised, Final
<1>4. ASSUME NEW t \in DOMAIN trades, NEW st \in Final, Ends(t, st) PROVE OrderLocked'
  <2>1. /\ Unreleased' = Unreleased
        /\ \A i \in DOMAIN trades : /\ trades'[i].order = trades[i].order
                                    /\ trades'[i].account = trades[i].account
    BY <1>4, FinaliseFacts DEF Ends
  <2> QED BY <2>1, <1>1, <1>4, <1>c DEF Ends, Finalise
<1>5. ASSUME NEW t \in DOMAIN trades, t \in finalised, IsFinalised(trades[t]),
             finalised' = finalised \ {t}, trades' = trades,
             ownOrder' \in [Order -> {"none", "open", "locked", "gone"}],
             GetRole(trades[t]) = "TAKER" => ownOrder' = ownOrder,
             GetRole(trades[t]) = "MAKER" =>
                /\ ownOrder'[trades[t].order] # "locked"
                /\ \A o \in Order \ {trades[t].order} :
                      \/ ownOrder'[o] = ownOrder[o]
                      \/ ownOrder[o] = "none" /\ ownOrder'[o] = "open"
      PROVE  OrderLocked'
  <2>1. \A o : Keepers(o)' = Keepers(o) \ {t}
    BY <1>5, CleanUp
  <2>2. t \in Unreleased
    BY <1>5, CleanUp
  <2>3. CASE GetRole(trades[t]) = "TAKER"
    <3>1. \A o : t \notin Keepers(o)
      BY <2>3 DEF Keepers, GetRole
    <3>2. \A o : Keepers(o)' = Keepers(o)
      BY <2>1, <3>1
    <3> QED BY <2>3, <3>2, <1>5, <1>a, OrderLockedParts
  <2>4. CASE GetRole(trades[t]) = "MAKER"
    <3>1. PICK mine \in Order : mine = trades[t].order
      BY <1>b
    <3>2. t \in Keepers(mine)
      BY <2>2, <2>4, <3>1 DEF Keepers, GetRole
    <3>3. Keepers(mine)' = {}
      BY <2>1, <3>2, <1>a DEF LockFits
    <3>4. \A o \in Order \ {mine} : t \notin Keepers(o)
      BY <3>1 DEF Keepers
    <3>5. \A o \in Order \ {mine} : Keepers(o)' = Keepers(o)
      BY <2>1, <3>4
    <3>6. ASSUME NEW o \in Order PROVE LockFits(ownOrder'[o], Keepers(o)')
      <4>1. CASE o = mine
        BY <2>4, <3>1, <3>3, <4>1, <1>5 DEF LockFits
      <4>2. CASE o # mine
        BY <2>4, <3>1, <3>5, <4>2, <1>5, <1>a DEF LockFits
      <4> QED BY <4>1, <4>2
    <3> QED BY <3>6, OrderLockedParts
  <2> QED BY <2>3, <2>4 DEF GetRole
<1>6. ASSUME NEW t \in DOMAIN trades, Unlocks(t) PROVE OrderLocked'
  <2>1. /\ t \in finalised /\ IsFinalised(trades[t])
        /\ finalised' = finalised \ {t} /\ trades' = trades
        /\ ownOrder' = [o \in Order |->
              IF o \in (IF GetRole(trades[t]) = "MAKER" THEN {trades[t].order} ELSE {})
              THEN "open" ELSE ownOrder[o]]
    BY <1>6 DEF Unlocks, Release, Failed, HeldOrders, IsFinalised, Final
  <2>2. /\ ownOrder' \in [Order -> {"none", "open", "locked", "gone"}]
        /\ GetRole(trades[t]) = "TAKER" => ownOrder' = ownOrder
        /\ GetRole(trades[t]) = "MAKER" =>
                /\ ownOrder'[trades[t].order] # "locked"
                /\ \A o \in Order \ {trades[t].order} :
                      \/ ownOrder'[o] = ownOrder[o]
                      \/ ownOrder[o] = "none" /\ ownOrder'[o] = "open"
    BY <2>1, <1>b
  <2> QED BY <2>1, <2>2, <1>5
<1>7. ASSUME NEW t \in DOMAIN trades, HandleSuccess(t) PROVE OrderLocked'
  <2>1. /\ t \in finalised /\ IsFinalised(trades[t])
        /\ finalised' = finalised \ {t} /\ trades' = trades
    BY <1>7 DEF HandleSuccess, Settle, IsFinalised, Final
  <2>2. \/ /\ GetRole(trades[t]) = "MAKER"
           /\ \E n \in Order : /\ ownOrder[n] = "none"
                               /\ ownOrder' = [ownOrder EXCEPT ![trades[t].order] = "gone",
                                                               ![n] = "open"]
        \/ /\ GetRole(trades[t]) = "MAKER"
           /\ ownOrder' = [ownOrder EXCEPT ![trades[t].order] = "gone"]
        \/ GetRole(trades[t]) = "TAKER" /\ ownOrder' = ownOrder
    BY <1>7 DEF HandleSuccess, Settle, IsFreshCopy
  <2>3. GetRole(trades[t]) = "MAKER" => ownOrder[trades[t].order] # "none"
    <3>1. t \in Unreleased
      BY <2>1 DEF Unreleased
    <3>2. GetRole(trades[t]) = "MAKER" => t \in Keepers(trades[t].order)
      BY <3>1 DEF Keepers, GetRole
    <3> QED BY <3>2, <1>a, <1>b DEF LockFits
  <2>4. /\ ownOrder' \in [Order -> {"none", "open", "locked", "gone"}]
        /\ GetRole(trades[t]) = "TAKER" => ownOrder' = ownOrder
        /\ GetRole(trades[t]) = "MAKER" =>
                /\ ownOrder'[trades[t].order] # "locked"
                /\ \A o \in Order \ {trades[t].order} :
                      \/ ownOrder'[o] = ownOrder[o]
                      \/ ownOrder[o] = "none" /\ ownOrder'[o] = "open"
    BY <2>2, <2>3, <1>b
  <2> QED BY <2>1, <2>4, <1>5
<1>8. CASE Outsider
  <2>1. trades' = trades /\ finalised' = finalised /\ ownOrder' = ownOrder
    BY <1>8 DEF Outsider, Mine, SpendName, SpendCoin, Idle
  <2> QED BY <2>1, <1>1 DEF Unreleased, IsFinalised, Final
<1>9. ASSUME NEW gone \in Order, Removes(gone) PROVE OrderLocked'
  <2>1. \A o : Keepers(o)' = Keepers(o)
    BY <1>9 DEF Removes, Keepers, Unreleased, IsFinalised, Final
  <2>2. \A o \in Order : ownOrder'[o] = ownOrder[o] \/ ownOrder'[o] = "gone"
    BY <1>9, <1>b DEF Removes
  <2>3. \A o \in Order : LockFits(ownOrder'[o], Keepers(o)')
    BY <2>1, <2>2, <1>a DEF LockFits
  <2> QED BY <2>3, OrderLockedParts
<1> QED BY <1>2, <1>3, <1>4, <1>6, <1>7, <1>8, <1>9, StepCases

(* The lock of an own order is in step with the trades of its maker, even  *)
(* though orders can be cancelled or dropped while they are being sold: at *)
(* most one of these trades has not been cleaned up; there is none if the  *)
(* order is on offer, and one if it is locked.  OrderTaken takes only an   *)
(* open order, and the handlers that run outside of the lock of            *)
(* TradeManager release only the order of their own trade.                 *)
THEOREM OrderLockFollowsTrades == Spec => []OrderLocked
<1>1. Init => OrderLocked
  BY DEF Init, OrderLocked, Unreleased
<1>2. TypeOK /\ WalletInv /\ TakingToMaker /\ OrderLocked /\ [Next]_vars => OrderLocked'
  BY OrderLockedStep
<1> QED BY <1>1, <1>2, WalletInvariant, PTL DEF Spec

-----------------------------------------------------------------------------
(* Nothing stays locked *)

(* The primed form of NoStrayLock.                                         *)
LEMMA NoStrayLockNext ==
    NoStrayLock' <=>
    \A a \in Account : \A out \in locked'[a] \ spent' :
        \E t \in Unreleased' : trades'[t].account = a /\ out \in Held(trades'[t])
<1>1. \A t : Held(trades[t])' = Held(trades'[t])
  BY DEF Held, HeldOutputs, GetOrderType, GetRole, Inputs
<1> QED BY <1>1 DEF NoStrayLock

(* The outputs of a successful trade need no unlocking: they are spent.    *)
LEMMA SuccessSpends ==
    ASSUME TypeOK, WalletInv, NEW t \in DOMAIN trades, trades[t].state = "SUCCESS"
    PROVE  Held(trades[t]) \subseteq spent
<1>1. PICK tr : tr = trades[t] /\ tr \in TradeState /\ WalletRecord(tr) /\ tr.state = "SUCCESS"
  BY DEF TypeOK, WalletInv
<1>2. PICK p : p \in tr.ourPsbt
  BY <1>1 DEF TradeState
<1>3. p.tx \in confirmed
  BY <1>1, <1>2 DEF WalletRecord
<1>4. Inputs(p.tx) \subseteq spent
  BY <1>3 DEF WalletInv
<1>5. CASE GetOrderType(tr) = "ASK"
  <2>1. \A out \in tr.nameOutput : out = p.tx.name
    BY <1>1, <1>2, <1>5 DEF WalletRecord
  <2> QED BY <2>1, <1>1, <1>4, <1>5 DEF Held, HeldOutputs, Inputs
<1>6. CASE GetOrderType(tr) # "ASK"
  <2>1. tr.nameOutput = {} /\ \A q \in tr.ourPsbt : q = p
    BY <1>1, <1>2, <1>6 DEF WalletRecord
  <2>2. HeldOutputs(tr) \subseteq Inputs(p.tx)
    BY <2>1, <1>6 DEF HeldOutputs
  <2> QED BY <2>2, <1>1, <1>4 DEF Held
<1> QED BY <1>5, <1>6

(* Without failing calls, every lock has a holder from one state to the    *)
(* next.                                                                   *)
LEMMA NoStrayLockStep ==
    ASSUME TypeOK, WalletInv, TakingToMaker, "throw" \notin Faults, NoStrayLock,
           [Next]_vars
    PROVE  NoStrayLock'
<1>a. /\ locked \in [Account -> SUBSET Output]
      /\ \A i \in DOMAIN trades : trades[i].account \in Account
      /\ Unreleased \subseteq DOMAIN trades
  BY DEF TypeOK, TradeState, Unreleased
<1> SUFFICES ASSUME NEW a \in Account, NEW out \in locked'[a] \ spent'
             PROVE  \E t \in Unreleased' : trades'[t].account = a /\ out \in Held(trades'[t])
  BY NoStrayLockNext
<1> DEFINE Holder == \E t \in Unreleased' : trades'[t].account = a /\ out \in Held(trades'[t])
<1>b. ASSUME out \in locked[a] \ spent
      PROVE  \E i \in Unreleased : trades[i].account = a /\ out \in Held(trades[i])
  BY <1>b DEF NoStrayLock
<1>1. ASSUME NEW t \in TradeId, NEW tr \in TradeState, NEW taking \in SUBSET Nat,
             NEW r \in TradeState, NEW outs, Replies(t, tr, taking, r, outs)
      PROVE  Holder
  <2>1. /\ Call(t, tr, taking) /\ Effect(t, tr, taking, r, outs)
        /\ finalised' = finalised /\ spent' = spent
    BY <1>1 DEF Replies, chainVars
  <2>2. /\ trades'[t] = r
        /\ \A i \in DOMAIN trades : i # t => trades'[i] = trades[i]
        /\ Unreleased' = Unreleased \cup {t}
        /\ a # tr.account => locked'[a] = locked[a]
        /\ locked'[tr.account] = locked[tr.account] \cup outs
    <3>1. Written(t, tr, r, outs)
      BY <2>1, EffectFacts
    <3> QED BY <3>1 DEF Written
  <2>3. /\ r.account = tr.account /\ Held(r) = Held(tr) \cup outs
        /\ t \in DOMAIN trades => Held(tr) = Held(trades[t]) /\ tr.account = trades[t].account
    BY <2>1 DEF Effect, Call
  <2>4. CASE out \in outs /\ a = tr.account
    BY <2>2, <2>3, <2>4
  <2>5. CASE out \in locked[a]
    <3>1. PICK i \in Unreleased : trades[i].account = a /\ out \in Held(trades[i])
      BY <2>1, <2>5, <1>b
    <3>2. CASE i = t
      BY <2>2, <2>3, <3>1, <3>2, <1>a
    <3>3. CASE i # t
      BY <2>2, <3>1, <3>3, <1>a
    <3> QED BY <3>2, <3>3
  <2> QED BY <2>2, <2>4, <2>5
<1>2. ASSUME NEW t \in DOMAIN trades, NEW st \in Final, Ends(t, st) PROVE Holder
  <2>1. /\ Unreleased' = Unreleased
        /\ \A i \in DOMAIN trades : /\ trades'[i].account = trades[i].account
                                    /\ HeldOutputs(trades'[i]) = HeldOutputs(trades[i])
    BY <1>2, FinaliseFacts DEF Ends
  <2>2. locked' = locked /\ spent' = spent
    BY <1>2 DEF Ends, Finalise, chainVars
  <2>3. PICK i \in Unreleased : trades[i].account = a /\ out \in Held(trades[i])
    BY <2>2, <1>b
  <2> QED BY <2>1, <2>3, <1>a DEF Held
<1>3. ASSUME NEW t \in DOMAIN trades, Unlocks(t) \/ HandleSuccess(t) PROVE Holder
  <2>1. /\ t \in finalised /\ IsFinalised(trades[t])
        /\ finalised' = finalised \ {t} /\ trades' = trades /\ spent' = spent
    BY <1>3 DEF Unlocks, Release, Failed, HandleSuccess, Settle, IsFinalised, Final,
       chainVars
  <2>2. Unreleased' = Unreleased \ {t}
    BY <2>1, CleanUp
  <2>3. CASE Unlocks(t)
    <3>1. locked' = [locked EXCEPT ![trades[t].account] = @ \ HeldOutputs(trades[t])]
      BY <2>3 DEF Unlocks, Release
    <3>2. /\ out \in locked[a] \ spent
          /\ a = trades[t].account => out \notin HeldOutputs(trades[t])
      BY <2>1, <3>1, <1>a
    <3>3. PICK i \in Unreleased : trades[i].account = a /\ out \in Held(trades[i])
      BY <3>2, <1>b
    <3>4. i # t
      BY <3>2, <3>3 DEF Held
    <3> QED BY <2>1, <2>2, <3>3, <3>4
  <2>4. CASE HandleSuccess(t)
    <3>1. locked' = locked /\ trades[t].state = "SUCCESS"
      BY <2>4 DEF HandleSuccess, Settle
    <3>2. PICK i \in Unreleased : trades[i].account = a /\ out \in Held(trades[i])
      BY <2>1, <3>1, <1>b
    <3>3. i # t
      BY <2>1, <3>1, <3>2, SuccessSpends
    <3> QED BY <2>1, <2>2, <3>2, <3>3
  <2> QED BY <1>3, <2>3, <2>4
<1>4. CASE Outsider \/ \E o \in Order : Removes(o)
  <2>1. /\ trades' = trades /\ finalised' = finalised /\ locked' = locked
        /\ spent \subseteq spent'
    BY <1>4 DEF Outsider, Mine, SpendName, SpendCoin, SpendOutputs, Idle, Removes,
       chainVars
  <2>2. PICK i \in Unreleased : trades[i].account = a /\ out \in Held(trades[i])
    BY <2>1, <1>b
  <2>3. i \in Unreleased'
    BY <2>1, <2>2 DEF Unreleased, IsFinalised, Final
  <2> QED BY <2>1, <2>2, <2>3
<1> QED BY <1>1, <1>2, <1>3, <1>4, StepCases DEF OnlyLocks

(* The two halves of LocksHeld.                                            *)
LEMMA LocksAreHeld ==
    ASSUME TypeOK, WalletInv, NoStrayLock PROVE LocksHeld
<1> SUFFICES ASSUME NEW a \in Account, NEW out
             PROVE  out \in locked[a] \ spent <=>
                    out \in {out1 \in UNION {HeldOutputs(trades[t]) :
                                t \in {u \in Unreleased : trades[u].account = a}} :
                                out1.own = a} \ spent
  BY DEF LocksHeld
<1>1. ASSUME out \in locked[a] \ spent
      PROVE  \E t \in Unreleased : /\ trades[t].account = a
                                   /\ out \in HeldOutputs(trades[t]) /\ out.own = a
  BY <1>1 DEF NoStrayLock, Held
<1>2. ASSUME NEW t \in Unreleased, trades[t].account = a,
             out \in HeldOutputs(trades[t]), out.own = a, out \notin spent
      PROVE  out \in locked[a]
  BY <1>2 DEF WalletInv, Held
<1> QED BY <1>1, <1>2

(* If no call to the wallet fails, an unspent output is locked exactly     *)
(* while a trade of the account that has not been cleaned up holds it: no  *)
(* lock is lost and none leaks.  With failing calls only one half remains, *)
(* see NoDoubleSpend: ThrowsAfterLock leaves a lock nobody holds.          *)
THEOREM LocksFollowTrades ==
    ASSUME "throw" \notin Faults
    PROVE  Spec => []LocksHeld
<1>1. Init => NoStrayLock
  BY DEF Init, NoStrayLock
<1>2. /\ TypeOK /\ WalletInv /\ TakingToMaker
      /\ NoStrayLock /\ [Next]_vars
      => NoStrayLock'
  BY NoStrayLockStep
<1>3. TypeOK /\ WalletInv /\ NoStrayLock => LocksHeld
  BY LocksAreHeld
<1> QED BY <1>1, <1>2, <1>3, WalletInvariant, PTL DEF Spec

-----------------------------------------------------------------------------
(* A buyer pays for assets that are there *)

(* What a trade works on can be sold, be it old or just constructed.       *)
LEMMA FromTradeSellable ==
    ASSUME GoodsInv, NEW t, NEW tr, NEW taking, Call(t, tr, taking),
           NEW x, FromTrade(tr, x)
    PROVE  Sellable(x)
<1>1. \A p \in tr.ourPsbt \cup tr.theirPsbt : Sellable(p.tx)
  BY DEF Call, KnownTx, GoodsInv
<1>2. CASE /\ CheckForBuyerTrade(tr)
           /\ x.name = NameOut(tr.counterparty, nameVer[tr.counterparty])
  <2>1. x.name.own = tr.counterparty /\ tr.counterparty \in holds
    BY <1>2 DEF CheckForBuyerTrade, NameOut
  <2> QED BY <1>2, <2>1 DEF Sellable
<1> QED BY <1>1, <1>2 DEF FromTrade

(* When outputs are spent and the name of an account s moves on, whatever  *)
(* has not become unspendable belongs to somebody else.                    *)
LEMMA SellableMove ==
    ASSUME NEW s, NameOut(s, nameVer[s]) \in spent', spent \subseteq spent',
           \A a \in Account : a # s => nameVer'[a] = nameVer[a] /\ (a \in holds => a \in holds'),
           NEW x \in Tx, Sellable(x)
    PROVE  Sellable(x)'
<1>1. x.name.own \in Account
  BY DEF Tx, Output
<1> QED BY <1>1 DEF Sellable, NameOut

(* Steps that leave the trades and messages alone keep GoodsInv if they    *)
(* keep Sellable and empty the mempool of what is spent.                   *)
LEMMA GoodsFrame ==
    ASSUME TypeOK, GoodsInv, trades' = trades, msgs' = msgs,
           \A x \in Tx : Sellable(x) => Sellable(x)',
           \A x \in mempool' : x \in mempool /\ x.name \notin spent'
    PROVE  GoodsInv'
<1>1. /\ \A t \in DOMAIN trades : trades[t].ourPsbt \cup trades[t].theirPsbt \subseteq Psbt
      /\ \A m \in msgs : m.psbt \subseteq Psbt
      /\ mempool \subseteq Tx /\ \A p \in Psbt : p.tx \in Tx
  BY DEF TypeOK, TradeState, Message, Psbt
<1>2. ASSUME NEW t \in DOMAIN trades, NEW p \in trades[t].ourPsbt \cup trades[t].theirPsbt
      PROVE  Sellable(p.tx)'
  BY <1>1 DEF GoodsInv
<1>3. ASSUME NEW m \in msgs, NEW p \in m.psbt PROVE Sellable(p.tx)'
  BY <1>1 DEF GoodsInv
<1>4. ASSUME NEW x \in mempool' PROVE Sellable(x)' /\ x.name \notin spent'
  BY <1>1 DEF GoodsInv
<1> QED BY <1>2, <1>3, <1>4 DEF GoodsInv

(* GoodsInv is inductive: a transaction is constructed for the current     *)
(* output of a seller who owns the assets, and a move of the seller spends *)
(* that output.                                                            *)
LEMMA GoodsStep ==
    ASSUME TypeOK, WalletInv, TakingToMaker, GoodsInv, [Next]_vars
    PROVE  GoodsInv'
<1>1. ASSUME NEW t \in TradeId, NEW tr \in TradeState, NEW taking \in SUBSET Nat,
             NEW r \in TradeState, NEW outs, Replies(t, tr, taking, r, outs)
      PROVE  GoodsInv'
  <2>1. /\ Call(t, tr, taking) /\ Effect(t, tr, taking, r, outs)
        /\ UNCHANGED <<spent, nameVer, holds>>
    BY <1>1 DEF Replies, chainVars
  <2>2. \A x : Sellable(x) => Sellable(x)'
    BY <2>1 DEF Sellable
  <2>3. \A x : FromTrade(tr, x) => Sellable(x)
    BY <2>1, FromTradeSellable
  <2>4. /\ trades' = Put(t, r) /\ r.theirPsbt = tr.theirPsbt
        /\ \A p \in r.ourPsbt : FromTrade(tr, p.tx)
        /\ \A m \in msgs' \ msgs : \A p \in m.psbt : FromTrade(tr, p.tx)
        /\ \A x \in mempool' \ mempool : x.name \notin spent /\ FromTrade(tr, x)
    BY <2>1 DEF Effect
  <2>5. \A p \in tr.theirPsbt : FromTrade(tr, p.tx)
    BY DEF FromTrade
  <2>6. \A p \in r.ourPsbt \cup r.theirPsbt : Sellable(p.tx)
    BY <2>3, <2>4, <2>5
  <2>7. ASSUME NEW i \in DOMAIN trades',
               NEW p \in trades'[i].ourPsbt \cup trades'[i].theirPsbt
        PROVE  Sellable(p.tx)
    BY <2>4, <2>6 DEF Put, GoodsInv
  <2>8. \A m \in msgs' : \A p \in m.psbt : Sellable(p.tx)
    BY <2>3, <2>4 DEF GoodsInv
  <2>9. \A x \in mempool' : Sellable(x) /\ x.name \notin spent'
    BY <2>1, <2>3, <2>4 DEF GoodsInv
  <2> QED BY <2>2, <2>7, <2>8, <2>9 DEF GoodsInv
<1>2. ASSUME NEW t \in DOMAIN trades, NEW st \in Final, Ends(t, st) PROVE GoodsInv'
  <2>1. /\ DOMAIN trades' = DOMAIN trades
        /\ \A i \in DOMAIN trades : /\ trades'[i].ourPsbt = trades[i].ourPsbt
                                    /\ trades'[i].theirPsbt = trades[i].theirPsbt
    BY <1>2, FinaliseFacts DEF Ends
  <2>2. UNCHANGED <<msgs, mempool, spent, nameVer, holds>>
    BY <1>2 DEF Ends, Finalise, chainVars
  <2> QED BY <2>1, <2>2 DEF GoodsInv, Sellable
<1>3. ASSUME UNCHANGED <<trades, msgs, mempool, spent, nameVer, holds>> PROVE GoodsInv'
  BY <1>3 DEF GoodsInv, Sellable
<1>4. ASSUME \/ \E a \in Account : \E out : OnlyLocks(a, out)
             \/ \E t \in DOMAIN trades : Unlocks(t) \/ HandleSuccess(t)
             \/ \E o \in Order : Removes(o)
             \/ Idle
      PROVE  UNCHANGED <<trades, msgs, mempool, spent, nameVer, holds>>
  BY <1>4 DEF OnlyLocks, Unlocks, Release, HandleSuccess, Settle, Removes, Idle,
     chainVars
<1>5. ASSUME NEW x \in mempool, Mine(x) PROVE GoodsInv'
  <2>1. PICK s \in Account : s = x.name.own
    BY DEF TypeOK, Tx, Output
  <2>2. /\ spent' = spent \cup Inputs(x)
        /\ mempool' = {y \in mempool : Inputs(y) \cap Inputs(x) = {}}
        /\ nameVer' = [nameVer EXCEPT ![s] = @ + 1]
        /\ holds \ {s} \subseteq holds'
        /\ trades' = trades /\ msgs' = msgs
    BY <1>5, <2>1 DEF Mine, SpendOutputs
  <2>3. x.name = NameOut(s, nameVer[s])
    BY <2>1 DEF GoodsInv, Sellable
  <2>4. NameOut(s, nameVer[s]) \in spent' /\ spent \subseteq spent'
    BY <2>2, <2>3 DEF Inputs
  <2>5. \A a \in Account : a # s => nameVer'[a] = nameVer[a] /\ (a \in holds => a \in holds')
    BY <2>2 DEF TypeOK
  <2>6. \A y \in Tx : Sellable(y) => Sellable(y)'
    BY <2>4, <2>5, SellableMove
  <2>7. \A y \in mempool' : y \in mempool /\ y.name \notin spent'
    BY <2>2 DEF GoodsInv, Inputs
  <2> QED BY <2>2, <2>6, <2>7, GoodsFrame
<1>6. ASSUME NEW s \in Account, SpendName(s) PROVE GoodsInv'
  <2>1. /\ spent' = spent \cup {NameOut(s, nameVer[s])}
        /\ mempool' = {y \in mempool : Inputs(y) \cap {NameOut(s, nameVer[s])} = {}}
        /\ nameVer' = [nameVer EXCEPT ![s] = @ + 1]
        /\ holds \ {s} \subseteq holds'
        /\ trades' = trades /\ msgs' = msgs
    BY <1>6 DEF SpendName, SpendOutputs
  <2>2. \A a \in Account : a # s => nameVer'[a] = nameVer[a] /\ (a \in holds => a \in holds')
    BY <2>1 DEF TypeOK
  <2>3. \A y \in Tx : Sellable(y) => Sellable(y)'
    BY <2>1, <2>2, SellableMove
  <2>4. \A y \in mempool' : y \in mempool /\ y.name \notin spent'
    BY <2>1 DEF GoodsInv, Inputs
  <2> QED BY <2>1, <2>3, <2>4, GoodsFrame
<1>7. ASSUME NEW a \in Account, NEW c \in Coin, SpendCoin(a, c) PROVE GoodsInv'
  <2>1. PICK out : /\ spent' = spent \cup {out}
                   /\ mempool' = {y \in mempool : Inputs(y) \cap {out} = {}}
                   /\ UNCHANGED <<trades, msgs, nameVer, holds>>
    BY <1>7 DEF SpendCoin, SpendOutputs
  <2>2. \A y \in Tx : Sellable(y) => Sellable(y)'
    BY <2>1 DEF Sellable
  <2>3. \A y \in mempool' : y \in mempool /\ y.name \notin spent'
    BY <2>1 DEF GoodsInv, Inputs
  <2> QED BY <2>1, <2>2, <2>3, GoodsFrame
<1> QED BY <1>1, <1>2, <1>3, <1>4, <1>5, <1>6, <1>7, StepCases DEF Outsider

(* When a trade is confirmed, the seller still owns the assets that        *)
(* CheckForBuyerTrade has seen: the transaction spends the output that the *)
(* seller's name had at the check, so that no move came in between.  This  *)
(* holds however long the messages took and whatever the seller did.       *)
THEOREM BuyersGetGoods == Spec => PaidForGoods
<1>1. Init => GoodsInv
  BY DEF Init, GoodsInv
<1>2. TypeOK /\ WalletInv /\ TakingToMaker /\ GoodsInv /\ [Next]_vars => GoodsInv'
  BY GoodsStep
<1>3. ASSUME TypeOK, WalletInv, TakingToMaker, GoodsInv, [Next]_vars
      PROVE  \A x \in confirmed' \ confirmed : x.name.own \in holds
  <2>1. ASSUME NEW x \in mempool, Mine(x)
        PROVE  confirmed' = confirmed \cup {x} /\ x.name.own \in holds
    BY <1>3, <2>1 DEF Mine, GoodsInv, Sellable
  <2>2. (\E x \in mempool : Mine(x)) \/ confirmed' = confirmed
    BY <1>3, StepCases DEF Replies, OnlyLocks, Ends, Finalise, Unlocks, Release,
       HandleSuccess, Settle, Removes, Outsider, SpendName, SpendCoin, Idle, chainVars
  <2> QED BY <2>1, <2>2
<1>4. TypeOK /\ WalletInv /\ TakingToMaker /\ GoodsInv /\ [Next]_vars
      => [\A x \in confirmed' \ confirmed : x.name.own \in holds]_vars
  BY <1>3
<1> QED BY <1>1, <1>2, <1>4, WalletInvariant, PTL DEF Spec, PaidForGoods

=============================================================================
