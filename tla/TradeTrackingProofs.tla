------------------------ MODULE TradeTrackingProofs ------------------------
(***************************************************************************)
(* Proofs about how a PENDING trade is followed on the blockchain, for     *)
(* chains of any height, any number of reorgs and every choice of the      *)
(* required confirmations.                                                 *)
(***************************************************************************)
EXTENDS TradeTracking, TLAPS

-----------------------------------------------------------------------------
(* Sequences and prefixes *)

(* A prefix, element by element.                                           *)
LEMMA PrefixElements ==
    ASSUME NEW S, NEW s \in Seq(S), NEW t \in Seq(S)
    PROVE  IsPrefix(s, t) <=> /\ Len(s) <= Len(t)
                              /\ \A i \in 1 .. Len(s) : s[i] = t[i]
<1>1. ASSUME Len(s) <= Len(t)
      PROVE  /\ SubSeq(s, 1, Len(s)) \in Seq(S) /\ Len(SubSeq(s, 1, Len(s))) = Len(s)
             /\ SubSeq(t, 1, Len(s)) \in Seq(S) /\ Len(SubSeq(t, 1, Len(s))) = Len(s)
             /\ \A i \in 1 .. Len(s) : /\ SubSeq(s, 1, Len(s))[i] = s[i]
                                       /\ SubSeq(t, 1, Len(s))[i] = t[i]
  BY <1>1
<1> QED BY <1>1 DEF IsPrefix

(* Appending a block keeps the blocks below it.                            *)
LEMMA AppendElements ==
    ASSUME NEW S, NEW s \in Seq(S), NEW e \in S
    PROVE  /\ Append(s, e) \in Seq(S) /\ Len(Append(s, e)) = Len(s) + 1
           /\ \A i \in 1 .. Len(s) : Append(s, e)[i] = s[i]
           /\ Append(s, e)[Len(s) + 1] = e
OBVIOUS

(* Detaching a block keeps the blocks below it.                            *)
LEMMA FrontElements ==
    ASSUME NEW S, NEW s \in Seq(S), s # <<>>
    PROVE  /\ Front(s) \in Seq(S) /\ Len(Front(s)) = Len(s) - 1
           /\ \A i \in 1 .. Len(s) - 1 : Front(s)[i] = s[i]
<1>1. PICK n \in Nat : n = Len(s) - 1 /\ n <= Len(s)
  OBVIOUS
<1>2. SubSeq(s, 1, n) \in Seq(S) /\ Len(SubSeq(s, 1, n)) = n
  BY <1>1
<1>3. \A i \in 1 .. n : SubSeq(s, 1, n)[i] = s[i]
  BY <1>1
<1> QED BY <1>1, <1>2, <1>3 DEF Front

(* The GSP follows the node by one block: forward on its chain, or back    *)
(* from a branch that the node has left.                                   *)
Forward ==
    /\ Len(gsp) < Len(chain) /\ \A i \in 1 .. Len(gsp) : gsp[i] = chain[i]
    /\ Len(gsp') = Len(gsp) + 1
    /\ \A i \in 1 .. Len(gsp') : gsp'[i] = chain[i]
Back ==
    /\ Len(gsp) > 0 /\ Len(gsp') = Len(gsp) - 1
    /\ \A i \in 1 .. Len(gsp') : gsp'[i] = gsp[i]

(* A step of the GSP is one of the two.                                    *)
LEMMA FollowCases ==
    ASSUME chain \in Seq(Block), gsp \in Seq(Block), UpdateState
    PROVE  gsp' \in Seq(Block) /\ (Forward \/ Back)
<1>1. CASE IsPrefix(gsp, chain)
  <2>1. Len(gsp) <= Len(chain) /\ \A i \in 1 .. Len(gsp) : gsp[i] = chain[i]
    BY <1>1, PrefixElements
  <2>2. Len(gsp) # Len(chain)
    BY <2>1 DEF UpdateState
  <2>3. chain[Len(gsp) + 1] \in Block
    BY <2>1, <2>2
  <2>4. gsp' = Append(gsp, chain[Len(gsp) + 1])
    BY <1>1 DEF UpdateState
  <2>5. /\ gsp' \in Seq(Block) /\ Len(gsp') = Len(gsp) + 1
        /\ \A i \in 1 .. Len(gsp) : gsp'[i] = gsp[i]
        /\ gsp'[Len(gsp) + 1] = chain[Len(gsp) + 1]
    BY <2>3, <2>4, AppendElements
  <2>6. \A i \in 1 .. Len(gsp') : gsp'[i] = chain[i]
    BY <2>1, <2>5
  <2> QED BY <2>1, <2>2, <2>5, <2>6 DEF Forward
<1>2. CASE ~IsPrefix(gsp, chain)
  <2>1. gsp' = Front(gsp) /\ gsp # <<>>
    BY <1>2, PrefixElements DEF UpdateState
  <2>2. /\ gsp' \in Seq(Block) /\ Len(gsp') = Len(gsp) - 1
        /\ \A i \in 1 .. Len(gsp) - 1 : gsp'[i] = gsp[i]
    BY <2>1, FrontElements
  <2>3. Len(gsp) > 0
    BY <2>1
  <2> QED BY <2>2, <2>3 DEF Back
<1> QED BY <1>1, <1>2

-----------------------------------------------------------------------------
(* Types *)

(* The type invariant is inductive.                                        *)
LEMMA TypeStep ==
    ASSUME TypeOK, [Next]_vars PROVE TypeOK'
<1> USE TrackingAssumption
<1>a. /\ chain \in Seq(Block) /\ gsp \in Seq(Block) /\ best \in Nat /\ Len(chain) <= best
      /\ detached \in 0 .. MaxDetached /\ mempool \subseteq Tx
  BY DEF TypeOK
<1>1. ASSUME NEW x \in Tx, Broadcast(x) PROVE TypeOK'
  <2>1. regular' \in BOOLEAN
    BY <1>1 DEF Broadcast
  <2>2. mempool' = {x} /\ UNCHANGED <<chain, best, detached, game, update>>
    BY <1>1 DEF Broadcast
  <2> QED BY <2>1, <2>2 DEF TypeOK, game, update
<1>2. ASSUME NEW x \in Tx \cup {"none"}, Attach(x) PROVE TypeOK'
  <2>1. chain' \in Seq(Block) /\ Len(chain') = Len(chain) + 1
    BY <1>2, <1>a, AppendElements DEF Attach, Block
  <2>2. best' \in Nat /\ Len(chain') <= best'
    BY <1>2, <1>a, <2>1 DEF Attach
  <2>3. regular' \in BOOLEAN
    BY <1>2 DEF Attach
  <2>4. mempool' \subseteq Tx /\ UNCHANGED <<detached, game, update>>
    BY <1>2, <1>a DEF Attach
  <2> QED BY <2>1, <2>2, <2>3, <2>4 DEF TypeOK, game, update
<1>3. CASE Evict
  BY <1>3 DEF Evict, TypeOK, game, update
<1>4. CASE Detach
  <2>1. chain' \in Seq(Block) /\ Len(chain') = Len(chain) - 1
    BY <1>4, <1>a, FrontElements DEF Detach
  <2>2. detached' \in 0 .. MaxDetached /\ best' = best /\ Len(chain') <= best'
    BY <1>4, <1>a, <2>1 DEF Detach
  <2>3. regular' \in BOOLEAN
    BY <1>4 DEF Detach
  <2>4. Last(chain) \in Block
    BY <1>4, <1>a DEF Detach, Last
  <2>5. mempool' \subseteq Tx /\ UNCHANGED <<game, update>>
    BY <1>4, <1>a, <2>4 DEF Detach, Block
  <2> QED BY <1>a, <2>1, <2>2, <2>3, <2>5 DEF TypeOK, game, update
<1>5. CASE UpdateState
  <2>1. gsp' \in Seq(Block)
    BY <1>5, <1>a, FollowCases
  <2>2. pending' \subseteq {"trade"} /\ UNCHANGED <<node, update, regular>>
    BY <1>5 DEF UpdateState, PendingAt
  <2> QED BY <2>1, <2>2 DEF TypeOK, node, update
<1>6. CASE AddPendingMove
  BY <1>6 DEF AddPendingMove, TypeOK, node, update
<1>7. CASE CheckPending
  <2>1. regular' \in BOOLEAN
    BY <1>7 DEF CheckPending
  <2> QED BY <1>7, <2>1 DEF CheckPending, TypeOK, node, game
<1>8. CASE CheckConfirmed
  <2>1. Len(gsp) \in Nat
    BY <1>a
  <2> QED BY <1>8, <2>1 DEF CheckConfirmed, Done, TypeOK, node, game
<1>9. CASE CheckInputs
  BY <1>9 DEF CheckInputs, Done, TypeOK, node, game
<1>10. CASE UNCHANGED vars
  BY <1>10 DEF vars, node, game, update, TypeOK
<1> QED BY <1>1, <1>2, <1>3, <1>4, <1>5, <1>6, <1>7, <1>8, <1>9, <1>10 DEF Next, Update

(* The state of the node, the GSP and the updater has its type in every    *)
(* reachable state.                                                        *)
THEOREM TypeCorrect == Spec => []TypeOK
<1>1. Init => TypeOK
  <2> SUFFICES ASSUME Init PROVE TypeOK
    OBVIOUS
  <2>1. <<>> \in Seq(Block) /\ Len(<<>>) = 0 /\ 0 \in 0 .. MaxDetached
    BY TrackingAssumption
  <2> QED BY <2>1 DEF Init, TypeOK
<1>2. TypeOK /\ [Next]_vars => TypeOK'
  BY TypeStep
<1> QED BY <1>1, <1>2, PTL DEF Spec

-----------------------------------------------------------------------------
(* SUCCESS is final *)

(* A block at least MaxReorg below the greatest height so far is there for *)
(* good.  The GSP may be on a branch that the node has left, but MaxReorg  *)
(* blocks below its own height it agrees with the node.                    *)
ReorgInv ==
    /\ Len(gsp) <= best /\ best - MaxReorg <= Len(chain)
    /\ \A i \in 1 .. Len(gsp) : i <= Len(gsp) - MaxReorg =>
          i <= Len(chain) /\ gsp[i] = chain[i]
    /\ state = "SUCCESS" =>
          \E i \in 1 .. Len(chain) : i <= best - MaxReorg /\ chain[i] = "trade"

(* The chain changes only above what is there for good.                    *)
LEMMA ReorgChain ==
    ASSUME TypeOK, ReorgInv, chain' \in Seq(Block), best' \in Nat,
           best <= best', best - MaxReorg <= Len(chain'), best' - MaxReorg <= Len(chain'),
           \A i \in 1 .. Len(chain) : i <= Len(chain') => chain'[i] = chain[i],
           gsp' = gsp, state' = state
    PROVE  ReorgInv'
<1> USE TrackingAssumption
<1>1. PICK c \in Nat, d \in Nat, g \in Nat, b \in Nat, e \in Nat :
        /\ c = Len(chain) /\ d = Len(chain') /\ g = Len(gsp) /\ b = best /\ e = best'
  BY DEF TypeOK
<1>2. g <= b /\ b - MaxReorg <= c /\ b - MaxReorg <= d /\ b <= e /\ e - MaxReorg <= d
  BY <1>1 DEF ReorgInv
<1>3. \A i \in 1 .. c : i <= d => chain'[i] = chain[i]
  BY <1>1
<1>4. ASSUME NEW i \in 1 .. g, i <= g - MaxReorg PROVE i <= d /\ gsp[i] = chain'[i]
  <2>1. i <= c /\ gsp[i] = chain[i]
    BY <1>1, <1>4 DEF ReorgInv
  <2>2. i <= d /\ i \in 1 .. c
    BY <1>2, <1>4, <2>1
  <2> QED BY <1>3, <2>1, <2>2
<1>5. ASSUME state = "SUCCESS"
      PROVE  \E i \in 1 .. d : i <= e - MaxReorg /\ chain'[i] = "trade"
  <2>1. PICK i \in 1 .. c : i <= b - MaxReorg /\ chain[i] = "trade"
    BY <1>1, <1>5 DEF ReorgInv
  <2>2. i \in 1 .. d /\ i <= e - MaxReorg
    BY <1>2, <2>1
  <2>3. chain'[i] = "trade"
    BY <1>3, <2>1, <2>2
  <2> QED BY <2>2, <2>3
<1>6. g <= e
  BY <1>2
<1>7. \A i \in 1 .. g : i <= g - MaxReorg => i <= d /\ gsp'[i] = chain'[i]
  BY <1>4
<1> QED BY <1>1, <1>2, <1>5, <1>6, <1>7 DEF ReorgInv

(* When checktrade reports enough confirmations, the trade is so far below *)
(* the height of the GSP that the node has it, too, and for good.          *)
LEMMA DeepIsFinal ==
    ASSUME TypeOK, ReorgInv, Deep
    PROVE  \E i \in 1 .. Len(chain) : i <= best - MaxReorg /\ chain[i] = "trade"
<1> USE TrackingAssumption
<1>1. PICK h \in DOMAIN gsp : gsp[h] = "trade" /\ IsFinal(h, Len(gsp))
  BY DEF Deep, Has, HeightOf
<1>2. PICK g \in Nat, c \in Nat : g = Len(gsp) /\ c = Len(chain) /\ h \in 1 .. g
  BY DEF TypeOK
<1>3. h <= g - MaxReorg /\ g <= best /\ best \in Nat
  BY <1>1, <1>2 DEF IsFinal, ReorgInv, TypeOK
<1>4. h <= c /\ chain[h] = "trade"
  BY <1>1, <1>2, <1>3 DEF ReorgInv
<1>5. h \in 1 .. c /\ h <= best - MaxReorg
  BY <1>2, <1>3, <1>4
<1> QED BY <1>2, <1>4, <1>5

(* The invariant is inductive.                                             *)
LEMMA ReorgStep ==
    ASSUME TypeOK, ReorgInv, [Next]_vars PROVE ReorgInv'
<1> USE TrackingAssumption
<1>a. /\ chain \in Seq(Block) /\ gsp \in Seq(Block) /\ best \in Nat /\ Len(chain) \in Nat
      /\ Len(chain) <= best
  BY DEF TypeOK
<1>b. Len(gsp) <= best /\ best - MaxReorg <= Len(chain)
  BY DEF ReorgInv
<1>1. ASSUME NEW x \in Tx \cup {"none"}, Attach(x) PROVE ReorgInv'
  <2>1. /\ chain' \in Seq(Block) /\ Len(chain') = Len(chain) + 1
        /\ \A i \in 1 .. Len(chain) : chain'[i] = chain[i]
    BY <1>1, <1>a, AppendElements DEF Attach, Block
  <2>2. best' = (IF Len(chain) = best THEN best + 1 ELSE best) /\ gsp' = gsp /\ state' = state
    BY <1>1 DEF Attach, game, update
  <2>3. /\ best' \in Nat /\ best <= best' /\ best - MaxReorg <= Len(chain')
        /\ best' - MaxReorg <= Len(chain')
    BY <1>a, <1>b, <2>1, <2>2
  <2> QED BY <2>1, <2>2, <2>3, ReorgChain
<1>2. CASE Detach
  <2>1. /\ chain' \in Seq(Block) /\ Len(chain') = Len(chain) - 1
        /\ \A i \in 1 .. Len(chain) - 1 : chain'[i] = chain[i]
    BY <1>2, <1>a, FrontElements DEF Detach
  <2>2. /\ Len(chain) > best - MaxReorg /\ best' = best /\ gsp' = gsp /\ state' = state
    BY <1>2 DEF Detach, game, update
  <2>3. /\ best' \in Nat /\ best <= best' /\ best - MaxReorg <= Len(chain')
        /\ best' - MaxReorg <= Len(chain')
    BY <1>a, <2>1, <2>2
  <2>4. \A i \in 1 .. Len(chain) : i <= Len(chain') => chain'[i] = chain[i]
    BY <1>a, <2>1
  <2> QED BY <2>1, <2>2, <2>3, <2>4, ReorgChain
<1>3. CASE UpdateState
  <2>1. UNCHANGED <<chain, best, state>>
    BY <1>3 DEF UpdateState, node, update
  <2>2. gsp' \in Seq(Block) /\ (Forward \/ Back)
    BY <1>3, <1>a, FollowCases
  <2>3. PICK g \in Nat, h \in Nat, c \in Nat : g = Len(gsp) /\ h = Len(gsp') /\ c = Len(chain)
    BY <1>a, <2>2
  <2>4. h <= best /\ \A i \in 1 .. h : i <= h - MaxReorg => i <= c /\ gsp'[i] = chain[i]
    <3>1. CASE Forward
      <4>1. g < c /\ h = g + 1 /\ \A i \in 1 .. h : gsp'[i] = chain[i]
        BY <2>3, <3>1 DEF Forward
      <4> QED BY <4>1, <2>3, <1>a
    <3>2. CASE Back
      <4>1. h = g - 1 /\ \A i \in 1 .. h : gsp'[i] = gsp[i]
        BY <2>3, <3>2 DEF Back
      <4>2. g <= best /\ \A i \in 1 .. g : i <= g - MaxReorg => i <= c /\ gsp[i] = chain[i]
        BY <2>3 DEF ReorgInv
      <4> QED BY <4>1, <4>2, <1>a
    <3> QED BY <2>2, <3>1, <3>2
  <2> QED BY <2>1, <2>3, <2>4 DEF ReorgInv
<1>4. ASSUME UNCHANGED <<chain, best, gsp>>, state' = state PROVE ReorgInv'
  BY <1>4 DEF ReorgInv
<1>5. CASE CheckConfirmed
  <2>1. UNCHANGED <<chain, best, gsp>>
    BY <1>5 DEF CheckConfirmed, node, game
  <2>2. state' = "SUCCESS" => state = "SUCCESS" \/ Deep
    BY <1>5 DEF CheckConfirmed, Done
  <2>3. state' = "SUCCESS" =>
          \E i \in 1 .. Len(chain) : i <= best - MaxReorg /\ chain[i] = "trade"
    BY <2>2, DeepIsFinal DEF ReorgInv
  <2> QED BY <2>1, <2>3 DEF ReorgInv
<1>6. CASE CheckInputs
  <2>1. UNCHANGED <<chain, best, gsp>> /\ state' # "SUCCESS"
    BY <1>6 DEF CheckInputs, Done, node, game
  <2> QED BY <2>1 DEF ReorgInv
<1>7. CASE \/ \E x \in Tx : Broadcast(x)
           \/ Evict \/ AddPendingMove \/ CheckPending \/ UNCHANGED vars
  BY <1>4, <1>7 DEF Broadcast, Evict, AddPendingMove, CheckPending, vars, node, game, update
<1> QED BY <1>1, <1>2, <1>3, <1>5, <1>6, <1>7 DEF Next, Update

(* A trade that Update has declared a SUCCESS stays in the chain: however  *)
(* far the GSP lags behind and on whatever branch it was, a reorg shorter  *)
(* than the required confirmations does not undo it.                       *)
THEOREM SuccessStays == Spec => []SuccessIsFinal
<1>1. Init => ReorgInv
  <2> SUFFICES ASSUME Init PROVE ReorgInv
    OBVIOUS
  <2>1. Len(<<>>) = 0 /\ 1 .. 0 = {}
    OBVIOUS
  <2> QED BY <2>1, TrackingAssumption DEF Init, ReorgInv
<1>2. TypeOK /\ ReorgInv /\ [Next]_vars => ReorgInv'
  BY ReorgStep
<1>3. TypeOK /\ ReorgInv => SuccessIsFinal
  BY DEF TypeOK, ReorgInv, SuccessIsFinal, Has
<1> QED BY <1>1, <1>2, <1>3, TypeCorrect, PTL DEF Spec

-----------------------------------------------------------------------------
(* FAILED means a double spend *)

(* What a block adds.                                                      *)
LEMMA HasAppend ==
    ASSUME NEW s \in Seq(Block), NEW e \in Block, NEW x
    PROVE  Has(Append(s, e), x) <=> Has(s, x) \/ e = x
<1>1. PICK n \in Nat : n = Len(s) /\ DOMAIN s = 1 .. n
  OBVIOUS
<1>2. PICK t \in Seq(Block) : t = Append(s, e)
  BY AppendElements
<1>3. /\ DOMAIN t = 1 .. n + 1 /\ t[n + 1] = e
      /\ \A i \in 1 .. n : t[i] = s[i]
  BY <1>1, <1>2, AppendElements
<1>4. \A i : i \in 1 .. n + 1 <=> i \in 1 .. n \/ i = n + 1
  OBVIOUS
<1> QED BY <1>1, <1>2, <1>3, <1>4 DEF Has

(* What is lost with a block.                                              *)
LEMMA HasFront ==
    ASSUME NEW s \in Seq(Block), s # <<>>, NEW x
    PROVE  Has(s, x) <=> Has(Front(s), x) \/ Last(s) = x
<1>1. PICK n \in Nat : n + 1 = Len(s) /\ DOMAIN s = 1 .. n + 1
  OBVIOUS
<1>2. PICK t \in Seq(Block) : t = Front(s)
  BY FrontElements
<1>3. Len(t) = Len(s) - 1 /\ \A i \in 1 .. Len(s) - 1 : t[i] = s[i]
  BY <1>2, FrontElements
<1>4. DOMAIN t = 1 .. n /\ \A i \in 1 .. n : t[i] = s[i]
  BY <1>1, <1>3
<1>5. \A i : i \in 1 .. n + 1 <=> i \in 1 .. n \/ i = n + 1
  OBVIOUS
<1>6. Last(s) = s[n + 1]
  BY <1>1 DEF Last
<1> QED BY <1>1, <1>2, <1>4, <1>5, <1>6 DEF Has

(* As long as everything is regular, an update sees the node and the GSP   *)
(* at the same height.  If no double spend is in the chain, a conflict is  *)
(* noted only while the GSP does not know yet that the trade itself is in  *)
(* the mempool, and with the next block it does.                           *)
NoRival ==
    /\ conflict # {} => Has(chain, "trade") \/ "trade" \in mempool
    /\ \A c \in conflict :
          /\ gsp = chain /\ ~Has(chain, "trade") /\ "trade" \notin pending
                => c = Len(chain)
          /\ pc = "confirmed" /\ ~Has(chain, "trade") /\ "trade" \notin seen
                => c = Len(chain)
          /\ pc = "inputs" => c = height

RegularInv ==
    regular =>
        /\ mempool \subseteq {"trade"}
        /\ pc # "idle" => gsp = chain
        /\ pc = "inputs" => height = Len(chain) /\ ~Has(chain, "trade")
        /\ ~Has(chain, "rival") => NoRival

(* The invariant is inductive.                                             *)
LEMMA RegularStep ==
    ASSUME TypeOK, RegularInv, [Next]_vars PROVE RegularInv'
<1> SUFFICES ASSUME regular' PROVE RegularInv'
  BY DEF RegularInv
<1>a. /\ chain \in Seq(Block) /\ gsp \in Seq(Block)
      /\ \A y \in Tx \cup {"none"} : y \in Block
  BY DEF TypeOK, Block
<1>b. ASSUME regular
      PROVE  /\ mempool \subseteq {"trade"}
             /\ pc # "idle" => gsp = chain
             /\ pc = "inputs" => height = Len(chain) /\ ~Has(chain, "trade")
             /\ ~Has(chain, "rival") => NoRival
  BY <1>b DEF RegularInv
<1>1. ASSUME NEW x \in Tx, Broadcast(x) PROVE RegularInv'
  <2>1. /\ regular /\ x = "trade" /\ mempool = {} /\ mempool' = {"trade"}
        /\ ~Has(chain, "trade")
        /\ UNCHANGED <<chain, gsp, pending, pc, seen, height, conflict>>
    BY <1>1 DEF Broadcast, Spent, Tx, game, update
  <2>2. ~Has(chain, "rival") => conflict = {}
    BY <2>1, <1>b DEF NoRival
  <2> QED BY <2>1, <2>2, <1>b DEF RegularInv, NoRival
<1>2. ASSUME NEW x \in Tx \cup {"none"}, Attach(x) PROVE RegularInv'
  <2>1. /\ regular /\ gsp = chain /\ pc = "idle" /\ chain' = Append(chain, x)
        /\ mempool' = (IF x = "none" THEN mempool ELSE {})
        /\ UNCHANGED <<gsp, pending, pc, seen, height, conflict>>
    BY <1>2 DEF Attach, Quiet, game, update
  <2>2. \A y : Has(chain', y) <=> Has(chain, y) \/ x = y
    BY <1>a, <2>1, HasAppend
  <2>3. gsp' # chain'
    <3>1. Len(chain') = Len(chain) + 1 /\ Len(chain) \in Nat
      BY <1>a, <2>1, AppendElements
    <3> QED BY <2>1, <3>1
  <2>4. /\ mempool' \subseteq {"trade"}
        /\ ~Has(chain', "rival") /\ conflict # {} =>
              Has(chain', "trade") \/ "trade" \in mempool'
    BY <2>1, <2>2, <1>b DEF NoRival, Tx
  <2> QED BY <2>1, <2>3, <2>4 DEF RegularInv, NoRival
<1>3. CASE Evict
  BY <1>3 DEF Evict
<1>4. CASE Detach
  <2>1. /\ regular /\ gsp = chain /\ pc = "idle" /\ chain' = Front(chain) /\ chain # <<>>
        /\ Last(chain) # "rival"
        /\ mempool' = (IF Last(chain) = "none" THEN mempool ELSE {Last(chain)})
        /\ UNCHANGED <<gsp, pending, pc, seen, height, conflict>>
    BY <1>4 DEF Detach, Quiet, game, update
  <2>2. \A y : Has(chain, y) <=> Has(chain', y) \/ Last(chain) = y
    BY <1>a, <2>1, HasFront
  <2>3. gsp' # chain'
    <3>1. Len(chain') = Len(chain) - 1 /\ Len(chain) \in Nat
      BY <1>a, <2>1, FrontElements
    <3> QED BY <2>1, <3>1
  <2>4. Last(chain) \in {"trade", "none"}
    <3>1. Last(chain) \in Block
      BY <1>a, <2>1 DEF Last
    <3> QED BY <2>1, <3>1 DEF Block, Tx
  <2>5. /\ mempool' \subseteq {"trade"}
        /\ ~Has(chain', "rival") /\ conflict # {} =>
              Has(chain', "trade") \/ "trade" \in mempool'
    BY <2>1, <2>2, <2>4, <1>b DEF NoRival
  <2> QED BY <2>1, <2>3, <2>5 DEF RegularInv, NoRival
<1>5. CASE UpdateState
  <2>1. /\ regular /\ gsp # chain
        /\ gsp' = chain => pending' = mempool \cap {"trade"}
        /\ UNCHANGED <<chain, mempool, pc, seen, height, conflict>>
    BY <1>5 DEF UpdateState, PendingAt, node, update
  <2>2. pc = "idle"
    BY <2>1, <1>b
  <2> QED BY <2>1, <2>2, <1>b DEF RegularInv, NoRival
<1>6. CASE AddPendingMove
  <2>1. /\ regular /\ "trade" \in pending'
        /\ UNCHANGED <<chain, mempool, gsp, pc, seen, height, conflict>>
    BY <1>6 DEF AddPendingMove, node, update
  <2> QED BY <2>1, <1>b DEF RegularInv, NoRival
<1>7. CASE CheckPending
  <2>1. /\ regular /\ gsp = chain /\ seen' = pending /\ pc' = "confirmed"
        /\ UNCHANGED <<chain, mempool, gsp, pending, height, conflict>>
    BY <1>7 DEF CheckPending, node, game
  <2> QED BY <2>1, <1>b DEF RegularInv, NoRival
<1>8. CASE CheckConfirmed
  <2>1. /\ regular /\ pc = "confirmed" /\ gsp = chain
        /\ UNCHANGED <<chain, mempool, gsp, pending>>
    BY <1>8, <1>b DEF CheckConfirmed, node, game
  <2>2. CASE pc' = "idle" /\ conflict' \in {conflict, {}}
    BY <2>1, <2>2, <1>b DEF RegularInv, NoRival
  <2>3. CASE /\ CheckTrade(gsp, seen) = "unknown" /\ pc' = "inputs"
             /\ height' = Len(gsp) /\ conflict' = conflict
    <3>1. ~Has(chain, "trade") /\ "trade" \notin seen
      BY <2>1, <2>3 DEF CheckTrade
    <3> QED BY <2>1, <2>3, <3>1, <1>b DEF RegularInv, NoRival
  <2> QED BY <1>8, <2>2, <2>3 DEF CheckConfirmed, Done
<1>9. CASE CheckInputs
  <2>1. /\ regular /\ pc = "inputs" /\ pc' = "idle" /\ gsp = chain
        /\ height = Len(chain)
        /\ UNCHANGED <<chain, mempool, gsp, pending, seen, height>>
    BY <1>9, <1>b DEF CheckInputs, Done, node, game
  <2>2. CASE conflict' \in {conflict, {}}
    BY <2>1, <2>2, <1>b DEF RegularInv, NoRival
  <2>3. CASE Conflicted /\ conflict' = {height}
    BY <2>1, <2>3, <1>b DEF RegularInv, NoRival, Conflicted, Spent, Tx
  <2> QED BY <1>9, <2>2, <2>3 DEF CheckInputs, Done
<1>10. CASE UNCHANGED vars
  BY <1>10 DEF vars, node, game, update, RegularInv, NoRival
<1> QED BY <1>1, <1>2, <1>3, <1>4, <1>5, <1>6, <1>7, <1>8, <1>9, <1>10 DEF Next, Update

(* If Update declares a trade FAILED while the environment is regular, a   *)
(* transaction that double spends one of its inputs is in the chain, for   *)
(* every number of required confirmations but one.  With a single one, a   *)
(* second update may find the conflict noted by the first old enough,      *)
(* before the GSP has been told that it is the trade itself that spends    *)
(* the input in the mempool.                                               *)
THEOREM FailedOnlyIfDoubleSpent ==
    ASSUME Confirmations > 1
    PROVE  Spec => FailedIsDoubleSpend
<1>1. Init => RegularInv
  BY DEF Init, RegularInv, NoRival
<1>2. TypeOK /\ RegularInv /\ [Next]_vars => RegularInv'
  BY RegularStep
<1>3. TypeOK /\ RegularInv /\ [Next]_vars
      => [state' = "FAILED" /\ state # "FAILED" /\ regular => Has(chain, "rival")]_vars
  <2> SUFFICES ASSUME TypeOK, RegularInv, [Next]_vars, regular,
                      state' = "FAILED", state # "FAILED", ~Has(chain, "rival")
               PROVE  FALSE
    OBVIOUS
  <2>1. CheckInputs
    BY DEF Next, Update, Broadcast, Attach, Evict, Detach, UpdateState, AddPendingMove,
           CheckPending, CheckConfirmed, Done, vars, update
  <2>2. PICK c \in conflict : IsFinal(c, height)
    BY <2>1 DEF CheckInputs, Done
  <2>3. c = height /\ height \in Nat
    BY <2>1 DEF CheckInputs, RegularInv, NoRival, TypeOK
  <2> QED BY <2>2, <2>3, TrackingAssumption DEF IsFinal
<1> QED BY <1>1, <1>2, <1>3, TypeCorrect, PTL DEF Spec, FailedIsDoubleSpend

=============================================================================
