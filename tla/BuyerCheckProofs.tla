-------------------------- MODULE BuyerCheckProofs --------------------------
(***************************************************************************)
(* Proofs about the check that a buyer makes before it pays, for chains of *)
(* any height, any number of reorgs and any MAX_BLOCK_ANCESTORS_CHECKED.   *)
(***************************************************************************)
EXTENDS BuyerCheck, TLAPS

-----------------------------------------------------------------------------
(* Sequences and prefixes *)

(* A prefix, element by element.                                           *)
LEMMA PrefixElements ==
    ASSUME NEW S, NEW s \in Seq(S), NEW t \in Seq(S)
    PROVE  IsPrefix(s, t) <=> /\ Len(s) <= Len(t)
                              /\ \A i \in 1 .. Len(s) : s[i] = t[i]
<1>1. ASSUME Len(s) <= Len(t)
      PROVE  /\ SubSeq(s, 1, Len(s)) \in Seq(S) /\ Len(SubSeq(s, 1, Len(s))) = Len(s)
             /\ SubSeq(t, 1, Len(s)) \in Seq(S) /\ Len(SubSeq(t, 1, Len(s))) = Len(s)
             /\ \A i \in 1 .. Len(s) : /\ SubSeq(s, 1, Len(s))[i] = s[i]
                                       /\ SubSeq(t, 1, Len(s))[i] = t[i]
  BY <1>1
<1> QED BY <1>1 DEF IsPrefix

(* Appending a block keeps the blocks below it.                            *)
LEMMA AppendElements ==
    ASSUME NEW S, NEW s \in Seq(S), NEW e \in S
    PROVE  /\ Append(s, e) \in Seq(S) /\ Len(Append(s, e)) = Len(s) + 1
           /\ \A i \in 1 .. Len(s) : Append(s, e)[i] = s[i]
           /\ Append(s, e)[Len(s) + 1] = e
OBVIOUS

(* Detaching a block keeps the blocks below it.                            *)
LEMMA FrontElements ==
    ASSUME NEW S, NEW s \in Seq(S), s # <<>>
    PROVE  /\ Front(s) \in Seq(S) /\ Len(Front(s)) = Len(s) - 1
           /\ \A i \in 1 .. Len(s) - 1 : Front(s)[i] = s[i]
<1>1. PICK n \in Nat : n = Len(s) - 1 /\ n <= Len(s)
  OBVIOUS
<1>2. SubSeq(s, 1, n) \in Seq(S) /\ Len(SubSeq(s, 1, n)) = n
  BY <1>1
<1>3. \A i \in 1 .. n : SubSeq(s, 1, n)[i] = s[i]
  BY <1>1
<1> QED BY <1>1, <1>2, <1>3 DEF Front

-----------------------------------------------------------------------------
(* Types *)

(* The GSP never leaves the first block, so that it always has one.        *)
TypeInv == TypeOK /\ gsp[1] = chain[1]

(* The type invariant, strengthened, is inductive.                         *)
LEMMA TypeStep ==
    ASSUME TypeInv, [Next]_vars PROVE TypeInv'
<1> USE BuyerCheckAssumption
<1>a. /\ TypeOK /\ gsp[1] = chain[1]
      /\ chain \in Seq(Block) /\ Len(chain) \in 1 .. MaxHeight /\ chain # <<>>
      /\ gsp \in Seq(Block) /\ gsp # <<>>
  BY DEF TypeInv, TypeOK
<1>b. Last(chain) \in Block
  BY <1>a DEF Last
<1>c. Last(chain).out \in Out
  BY <1>b DEF Block
<1>1. ASSUME NEW b \in Block, Attach(b) PROVE TypeInv'
  <2>1. chain' \in Seq(Block) /\ Len(chain') = Len(chain) + 1 /\ chain'[1] = chain[1]
    BY <1>1, <1>a, AppendElements DEF Attach
  <2>2. calm' \in BOOLEAN
    BY <1>1 DEF Attach
  <2>3. UNCHANGED <<detached, gsp, pc, nameInput, utxoBlock, gspBlock>> /\ Len(chain) < MaxHeight
    BY <1>1 DEF Attach, check
  <2>4. Len(chain') \in 1 .. MaxHeight
    BY <1>a, <2>1, <2>3
  <2>5. TypeOK'
    BY <1>a, <2>1, <2>2, <2>3, <2>4 DEF TypeOK
  <2>6. gsp'[1] = chain'[1]
    BY <1>a, <2>1, <2>3
  <2> QED BY <2>5, <2>6 DEF TypeInv
<1>2. CASE Detach
  <2>1. /\ chain' \in Seq(Block) /\ Len(chain') = Len(chain) - 1 /\ Len(chain) > 1
        /\ chain'[1] = chain[1]
    BY <1>2, <1>a, FrontElements DEF Detach
  <2>2. /\ UNCHANGED <<gsp, pc, nameInput, utxoBlock, gspBlock>>
        /\ detached < MaxDetached /\ detached' = detached + 1 /\ calm' = FALSE
    BY <1>2 DEF Detach, check
  <2>3. Len(chain') \in 1 .. MaxHeight /\ detached' \in 0 .. MaxDetached
    BY <1>a, <2>1, <2>2 DEF TypeOK
  <2> QED BY <1>a, <2>1, <2>2, <2>3 DEF TypeInv, TypeOK
<1>3. CASE Follow
  <2>1. CASE IsPrefix(gsp, chain)
    <3>1. Len(gsp) <= Len(chain) /\ \A i \in 1 .. Len(gsp) : gsp[i] = chain[i]
      BY <2>1, <1>a, PrefixElements
    <3>2. Len(gsp) # Len(chain)
      BY <1>3, <1>a, <3>1 DEF Follow
    <3>3. chain[Len(gsp) + 1] \in Block
      BY <3>1, <3>2, <1>a
    <3>4. gsp' = Append(gsp, chain[Len(gsp) + 1])
      BY <1>3, <2>1 DEF Follow
    <3>5. gsp' \in Seq(Block) /\ gsp' # <<>> /\ gsp'[1] = gsp[1]
      BY <3>3, <3>4, <1>a, AppendElements
    <3> QED BY <1>3, <1>a, <3>5 DEF Follow, TypeInv, TypeOK, node, check
  <2>2. CASE ~IsPrefix(gsp, chain)
    <3>1. gsp' = Front(gsp)
      BY <1>3, <2>2 DEF Follow
    <3>2. Len(gsp) > 1
      BY <2>2, <1>a, PrefixElements
    <3>3. gsp' \in Seq(Block) /\ Len(gsp') = Len(gsp) - 1 /\ gsp'[1] = gsp[1]
      BY <3>1, <3>2, <1>a, FrontElements
    <3> QED BY <1>3, <1>a, <3>2, <3>3 DEF Follow, TypeInv, TypeOK, node, check
  <2> QED BY <2>1, <2>2
<1>4. CASE CheckForBuyerTrade
  <2>1. <<>> \in Seq(Block)
    OBVIOUS
  <2>2. CASE Begin
    BY <2>1, <2>2, <1>a, <1>c DEF Begin, GetNameOutPoint, TypeInv, TypeOK, node
  <2>3. CASE GetTxOut
    BY <2>3, <1>a, <1>c DEF GetTxOut, TypeInv, TypeOK, node
  <2>4. CASE CanSell
    BY <2>4, <1>a, <1>c DEF CanSell, TypeInv, TypeOK, node
  <2>5. CASE CheckAncestor
    BY <2>5, <1>a DEF CheckAncestor, TypeInv, TypeOK, node
  <2> QED BY <1>4, <2>2, <2>3, <2>4, <2>5 DEF CheckForBuyerTrade
<1>5. CASE UNCHANGED vars
  BY <1>5, <1>a DEF vars, node, check, TypeInv, TypeOK
<1> QED BY <1>1, <1>2, <1>3, <1>4, <1>5 DEF Next

(* The answers of name_show, gettxout and CanSell have their types in every*)
(* reachable state, and the GSP always has a block to answer for.          *)
THEOREM TypeCorrect == Spec => []TypeOK
<1>1. Init => TypeInv
  <2> SUFFICES ASSUME Init PROVE TypeInv
    OBVIOUS
  <2>1. PICK b \in Block : chain = <<b>>
    BY DEF Init
  <2>2. chain \in Seq(Block) /\ Len(chain) = 1 /\ Last(chain) = b
    BY <2>1 DEF Last
  <2>3. b.out \in Out
    BY DEF Block
  <2>4. 1 \in 1 .. MaxHeight /\ 0 \in 0 .. MaxDetached
    BY BuyerCheckAssumption
  <2>5. <<>> \in Seq(Block) /\ chain # <<>> /\ gsp = chain
    BY <2>1 DEF Init
  <2> QED BY <2>2, <2>3, <2>4, <2>5 DEF Init, TypeInv, TypeOK
<1>2. TypeInv /\ [Next]_vars => TypeInv'
  BY TypeStep
<1> QED BY <1>1, <1>2, PTL DEF Spec, TypeInv

-----------------------------------------------------------------------------
(* The check is sound *)

(* Along a chain, an output is that of the name in consecutive blocks, and *)
(* a seller who can sell stays able to in these blocks.                    *)
Steady(c) ==
    \A i, j \in 1 .. Len(c) :
        i <= j /\ c[i].out = c[j].out =>
            /\ \A k \in i .. j : c[k].out = c[j].out
            /\ c[i].sells => c[j].sells

(* What the answers that the check has received so far have in common.     *)
Answers ==
    /\ pc \in {"CanSell", "ancestor", "ok"} =>
          utxoBlock # <<>> /\ Last(utxoBlock).out = nameInput
    /\ pc \in {"ancestor", "ok"} => gspBlock # <<>> /\ Last(gspBlock).sells
    /\ pc = "ok" => IsPrefix(utxoBlock, gspBlock)

SoundInv == Steady(chain) /\ Answers

(* The blocks that MayFollow admits keep a chain steady.                   *)
LEMMA SteadyAttach ==
    ASSUME TypeOK, Steady(chain), NEW b \in Block, Attach(b)
    PROVE  Steady(chain')
<1>1. PICK n \in Nat : n = Len(chain) /\ n # 0
  BY DEF TypeOK
<1>2. /\ Len(chain') = n + 1 /\ chain'[n + 1] = b
      /\ \A i \in 1 .. n : chain'[i] = chain[i]
  BY <1>1, AppendElements DEF TypeOK, Attach
<1>3. DOMAIN chain = 1 .. n /\ n \in 1 .. n
  BY <1>1 DEF TypeOK
<1>4. ASSUME NEW i \in 1 .. n, chain[i].out = b.out
      PROVE  /\ \A k \in i .. n : chain[k].out = b.out
             /\ chain[i].sells => b.sells
  <2>1. b.out = chain[n].out /\ (chain[n].sells => b.sells)
    BY <1>1, <1>3, <1>4 DEF Attach, MayFollow, Last
  <2>2. /\ \A k \in i .. n : chain[k].out = chain[n].out
        /\ chain[i].sells => chain[n].sells
    BY <1>1, <1>3, <1>4, <2>1 DEF Steady
  <2> QED BY <2>1, <2>2
<1> SUFFICES ASSUME NEW i \in 1 .. n + 1, NEW j \in 1 .. n + 1,
                    i <= j, chain'[i].out = chain'[j].out
             PROVE  /\ \A k \in i .. j : chain'[k].out = chain'[j].out
                    /\ chain'[i].sells => chain'[j].sells
  BY <1>2 DEF Steady
<1>5. CASE j \in 1 .. n
  <2>1. i \in 1 .. n /\ chain'[i] = chain[i] /\ chain'[j] = chain[j]
    BY <1>2, <1>5
  <2>2. /\ \A k \in i .. j : chain[k].out = chain[j].out
        /\ chain[i].sells => chain[j].sells
    BY <1>1, <1>5, <2>1 DEF Steady
  <2>3. \A k \in i .. j : k \in 1 .. n
    BY <1>5
  <2> QED BY <1>2, <2>1, <2>2, <2>3
<1>6. CASE j = n + 1 /\ i \in 1 .. n
  <2>1. /\ \A k \in i .. n : chain[k].out = b.out
        /\ chain[i].sells => b.sells
    BY <1>2, <1>4, <1>6
  <2>2. \A k \in i .. j : k = n + 1 \/ (k \in 1 .. n /\ k \in i .. n)
    BY <1>6
  <2> QED BY <1>2, <1>6, <2>1, <2>2
<1>7. CASE i = n + 1
  <2>1. \A k \in i .. j : k = i
    BY <1>7
  <2> QED BY <1>7, <2>1
<1> QED BY <1>5, <1>6, <1>7

(* A chain that loses its last block stays steady.                         *)
LEMMA SteadyDetach ==
    ASSUME TypeOK, Steady(chain), Detach
    PROVE  Steady(chain')
<1>1. PICK n \in Nat : n = Len(chain') /\ n + 1 = Len(chain)
  BY FrontElements DEF TypeOK, Detach
<1>2. \A i \in 1 .. n : chain'[i] = chain[i] /\ i \in 1 .. Len(chain)
  <2>1. \A i \in 1 .. Len(chain) - 1 : chain'[i] = chain[i]
    BY FrontElements DEF TypeOK, Detach
  <2> QED BY <1>1, <2>1
<1> SUFFICES ASSUME NEW i \in 1 .. n, NEW j \in 1 .. n,
                    i <= j, chain'[i].out = chain'[j].out
             PROVE  /\ \A k \in i .. j : chain'[k].out = chain'[j].out
                    /\ chain'[i].sells => chain'[j].sells
  BY <1>1 DEF Steady
<1>3. /\ \A k \in i .. j : chain[k].out = chain[j].out
      /\ chain[i].sells => chain[j].sells
  BY <1>2 DEF Steady
<1>4. \A k \in i .. j : k \in 1 .. n
  OBVIOUS
<1> QED BY <1>2, <1>3, <1>4

(* The invariant is inductive.                                             *)
LEMMA SoundStep ==
    ASSUME TypeOK, SoundInv, [Next]_vars PROVE SoundInv'
<1>a. chain # <<>> /\ gsp # <<>>
  BY DEF TypeOK
<1>1. ASSUME NEW b \in Block, Attach(b) PROVE SoundInv'
  BY <1>1, SteadyAttach DEF SoundInv, Attach, check, Answers, Steady
<1>2. CASE Detach
  BY <1>2, SteadyDetach DEF SoundInv, Detach, check, Answers, Steady
<1>3. CASE Follow
  BY <1>3 DEF SoundInv, Follow, node, check, Answers, Steady
<1>4. CASE CheckForBuyerTrade
  <2>1. Steady(chain)'
    BY <1>4 DEF SoundInv, Steady, CheckForBuyerTrade, Begin, GetTxOut, CanSell,
                CheckAncestor, node
  <2>2. CASE Begin
    BY <2>1, <2>2 DEF Begin, SoundInv, Answers
  <2>3. CASE GetTxOut
    BY <2>1, <2>3, <1>a DEF GetTxOut, SoundInv, Answers
  <2>4. CASE CanSell
    BY <2>1, <2>4, <1>a DEF CanSell, SoundInv, Answers
  <2>5. CASE CheckAncestor
    BY <2>1, <2>5 DEF CheckAncestor, IsBlockAncestor, SoundInv, Answers
  <2> QED BY <1>4, <2>2, <2>3, <2>4, <2>5 DEF CheckForBuyerTrade
<1>5. CASE UNCHANGED vars
  BY <1>5 DEF vars, node, check, SoundInv, Answers, Steady
<1> QED BY <1>1, <1>2, <1>3, <1>4, <1>5 DEF Next

(* The block of gettxout has the output, the block of the GSP descends     *)
(* from it and says that the seller can sell, and what lies between two    *)
(* blocks with the output has it as well.                                  *)
LEMMA SoundAnswers ==
    ASSUME TypeOK, SoundInv PROVE CheckIsSound
<1> SUFFICES ASSUME pc = "ok", IsPrefix(gspBlock, chain), Last(chain).out = nameInput
             PROVE  Last(chain).sells
  BY DEF CheckIsSound
<1>1. PICK u \in Nat, g \in Nat, n \in Nat :
        /\ u = Len(utxoBlock) /\ g = Len(gspBlock) /\ n = Len(chain)
        /\ u # 0 /\ g # 0 /\ n # 0
  BY DEF TypeOK, SoundInv, Answers
<1>2. u <= g /\ utxoBlock[u] = gspBlock[u]
  BY <1>1, PrefixElements DEF SoundInv, Answers, TypeOK
<1>3. g <= n /\ \A i \in 1 .. g : gspBlock[i] = chain[i]
  BY <1>1, PrefixElements DEF TypeOK
<1>4. chain[u].out = nameInput /\ chain[g].sells /\ chain[n].out = nameInput
  BY <1>1, <1>2, <1>3 DEF SoundInv, Answers, Last
<1>5. chain[g].out = chain[n].out
  <2>1. u \in 1 .. Len(chain) /\ n \in 1 .. Len(chain) /\ u <= n /\ g \in u .. n
    BY <1>1, <1>2, <1>3
  <2> QED BY <1>4, <2>1 DEF SoundInv, Steady
<1>6. chain[n].sells
  <2>1. g \in 1 .. Len(chain) /\ n \in 1 .. Len(chain) /\ g <= n
    BY <1>1, <1>3
  <2> QED BY <1>4, <1>5, <2>1 DEF SoundInv, Steady
<1> QED BY <1>1, <1>6 DEF Last

(* If CheckForBuyerTrade succeeds, the trade is valid or its name input is *)
(* spent, however the blocks, the reorgs, the GSP and the three calls of   *)
(* the check are interleaved.                                              *)
THEOREM BuyerCheckSound == Spec => []CheckIsSound
<1>1. Init => SoundInv
  <2> SUFFICES ASSUME Init PROVE SoundInv
    OBVIOUS
  <2>1. PICK b \in Block : chain = <<b>>
    BY DEF Init
  <2>2. Len(chain) = 1 /\ \A i, j \in 1 .. 1 : i = j
    BY <2>1
  <2>3. Steady(chain)
    <3>1. \A i, j \in 1 .. 1 : \A k \in i .. j : k = j
      OBVIOUS
    <3> QED BY <2>2, <3>1 DEF Steady
  <2> QED BY <2>3 DEF Init, SoundInv, Answers
<1>2. TypeOK /\ SoundInv /\ [Next]_vars => SoundInv'
  BY SoundStep
<1>3. TypeOK /\ SoundInv => CheckIsSound
  BY SoundAnswers
<1> QED BY <1>1, <1>2, <1>3, TypeCorrect, PTL DEF Spec

-----------------------------------------------------------------------------
(* The check fails only for a reason *)

(* As long as nothing disturbs the check, the block of gettxout is a close *)
(* ancestor of what comes later.                                           *)
CalmInv ==
    /\ calm /\ pc = "CanSell" =>
          IsBlockAncestor(utxoBlock, chain, MaxAncestorsChecked)
    /\ calm /\ pc = "ancestor" =>
          IsBlockAncestor(utxoBlock, gspBlock, MaxAncestorsChecked)
    /\ pc = "failed" => ~calm

(* The invariant is inductive.                                             *)
LEMMA CalmStep ==
    ASSUME TypeOK, CalmInv, [Next]_vars PROVE CalmInv'
<1> USE BuyerCheckAssumption
<1>a. chain \in Seq(Block) /\ utxoBlock \in Seq(Block)
  BY DEF TypeOK
<1>1. ASSUME NEW b \in Block, Attach(b) PROVE CalmInv'
  <2>1. /\ UNCHANGED <<pc, utxoBlock, gspBlock>>
        /\ calm' => calm /\ (pc # "gettxout" =>
                             Len(chain') <= Len(utxoBlock) + MaxAncestorsChecked)
    BY <1>1 DEF Attach, check
  <2>2. ASSUME calm', pc = "CanSell"
        PROVE  IsBlockAncestor(utxoBlock, chain', MaxAncestorsChecked)
    <3>1. IsPrefix(utxoBlock, chain)
      BY <2>1, <2>2 DEF CalmInv, IsBlockAncestor
    <3>2. chain' = Append(chain, b) /\ chain' \in Seq(Block)
      BY <1>1, <1>a, AppendElements DEF Attach
    <3>3. /\ Len(chain') = Len(chain) + 1
          /\ \A i \in 1 .. Len(chain) : chain'[i] = chain[i]
      BY <3>2, <1>a, AppendElements
    <3>4. IsPrefix(utxoBlock, chain')
      <4>1. /\ Len(utxoBlock) <= Len(chain)
            /\ \A i \in 1 .. Len(utxoBlock) : utxoBlock[i] = chain[i]
        BY <3>1, <1>a, PrefixElements
      <4>2. /\ Len(utxoBlock) <= Len(chain')
            /\ \A i \in 1 .. Len(utxoBlock) : utxoBlock[i] = chain'[i]
        BY <4>1, <3>3, <1>a
      <4> QED BY <4>2, <3>2, <1>a, PrefixElements
    <3>5. Len(chain') - Len(utxoBlock) <= MaxAncestorsChecked
      BY <2>1, <2>2, <3>2, <1>a
    <3> QED BY <3>4, <3>5 DEF IsBlockAncestor
  <2> QED BY <2>1, <2>2 DEF CalmInv, IsBlockAncestor
<1>2. CASE Detach
  BY <1>2 DEF Detach, CalmInv
<1>3. CASE Follow
  BY <1>3 DEF CalmInv, Follow, node, check, IsBlockAncestor
<1>4. CASE Begin
  BY <1>4 DEF Begin, CalmInv
<1>5. CASE GetTxOut
  <2>1. IsBlockAncestor(chain, chain, MaxAncestorsChecked)
    BY <1>a DEF IsBlockAncestor, IsPrefix
  <2> QED BY <1>5, <2>1 DEF GetTxOut, CalmInv, node, IsBlockAncestor
<1>6. CASE CanSell
  BY <1>6 DEF CanSell, CalmInv, node, IsBlockAncestor
<1>7. CASE CheckAncestor
  BY <1>7 DEF CheckAncestor, CalmInv, node
<1>8. CASE UNCHANGED vars
  BY <1>8 DEF vars, node, check, CalmInv, IsBlockAncestor
<1> QED BY <1>1, <1>2, <1>3, <1>4, <1>5, <1>6, <1>7, <1>8 DEF Next, CheckForBuyerTrade

(* An honest seller is not turned away: while the check is calm, it does   *)
(* not fail, however many blocks up to MAX_BLOCK_ANCESTORS_CHECKED arrive  *)
(* between its calls.                                                      *)
THEOREM BuyerCheckComplete == Spec => []NoSpuriousFailure
<1>1. Init => CalmInv
  BY DEF Init, CalmInv
<1>2. TypeOK /\ CalmInv /\ [Next]_vars => CalmInv'
  BY CalmStep
<1>3. CalmInv => NoSpuriousFailure
  BY DEF CalmInv, NoSpuriousFailure
<1> QED BY <1>1, <1>2, <1>3, TypeCorrect, PTL DEF Spec

=============================================================================
