----------------------------- MODULE BuyerCheck -----------------------------
(***************************************************************************)
(* TradeChecker::CheckForBuyerTrade (src/src/checker.cpp): before a buyer  *)
(* pays, it wants to know that the seller can transfer the assets as long  *)
(* as a certain output of the seller's name is unspent.  It asks Xaya Core *)
(* (name_show, gettxout) and the game's GSP (CanSell) one after the other, *)
(* while blocks come and go, and compares the block hashes of the answers. *)
(*                                                                         *)
(* A block stands for itself together with its ancestors, so that a hash   *)
(* is the sequence of blocks that ends with it.                            *)
(***************************************************************************)
EXTENDS Integers, SequencesExt

CONSTANTS
    Out,                  \* the outputs that the seller's name can be in
    MaxAncestorsChecked,  \* MAX_BLOCK_ANCESTORS_CHECKED
    MaxHeight,            \* bound on the number of blocks of the chain
    MaxDetached           \* bound on the number of blocks ever detached

ASSUME BuyerCheckAssumption ==
    /\ MaxAncestorsChecked \in Nat
    /\ MaxHeight \in Nat \ {0} /\ MaxDetached \in Nat

VARIABLES
    chain,      \* the blocks of the node
    detached,   \* the number of blocks detached so far
    gsp,        \* the blocks that the game's GSP has processed
    pc,         \* the next step of CheckForBuyerTrade, or its result
    nameInput,  \* the output that name_show has returned
    utxoBlock,  \* the bestblock that gettxout has returned
    gspBlock,   \* the block for which CanSell has answered
    calm        \* whether nothing has disturbed the current check

node == <<chain, detached>>
check == <<pc, nameInput, utxoBlock, gspBlock>>
vars == <<node, gsp, check, calm>>

(* In a block, out is the output of the seller's name and sells says       *)
(* whether the seller can sell.  At one height, branch tells a block from  *)
(* the ones it replaces.                                                   *)
Block == [out : Out, sells : BOOLEAN, branch : 0 .. MaxDetached]

-----------------------------------------------------------------------------
(* The node and the game's GSP *)

(* What AssetSpec demands of a game: as long as the name is not updated, a *)
(* seller who can sell stays able to.  An output is created only once.     *)
MayFollow(b) ==
    IF b.out = Last(chain).out
      THEN Last(chain).sells => b.sells
      ELSE \A i \in DOMAIN chain : b.out # chain[i].out

Attach(b) ==
    /\ Len(chain) < MaxHeight
    /\ b.branch = detached
    /\ MayFollow(b)
    /\ chain' = Append(chain, b)
    /\ calm' = /\ calm
               /\ b.out = Last(chain).out
               /\ pc # "gettxout" => Len(chain') <= Len(utxoBlock) + MaxAncestorsChecked
    /\ UNCHANGED <<detached, gsp, check>>

Detach ==
    /\ Len(chain) > 1 /\ detached < MaxDetached
    /\ chain' = Front(chain)
    /\ detached' = detached + 1
    /\ calm' = FALSE
    /\ UNCHANGED <<gsp, check>>

(* The GSP detaches a block that the node has left, or attaches the next.  *)
Follow ==
    /\ gsp # chain
    /\ gsp' = IF IsPrefix(gsp, chain) THEN Append(gsp, chain[Len(gsp) + 1])
                                      ELSE Front(gsp)
    /\ UNCHANGED <<node, check, calm>>

-----------------------------------------------------------------------------
(* CheckForBuyerTrade *)

(* An outpoint that is not filled in.                                      *)
GetNameOutPointEmpty == 0
GetNameOutPoint == Last(chain).out

(* Another trade is checked.  Either the asset is invalid or the buyer     *)
(* cannot receive it, or it goes on with name_show.                        *)
Begin ==
    /\ pc \in {"ok", "failed"}
    /\ \/ /\ pc' = "failed" /\ calm' = FALSE
          /\ UNCHANGED nameInput
       \/ /\ pc' = "gettxout" /\ calm' = TRUE
          /\ nameInput' = GetNameOutPoint
    /\ utxoBlock' = <<>> /\ gspBlock' = <<>>
    /\ UNCHANGED <<node, gsp>>

(* gettxout finds the output if it is still unspent; an update of the name *)
(* that is in the mempool makes it disappear as well.                      *)
GetTxOut ==
    /\ pc = "gettxout"
    /\ \/ /\ nameInput = Last(chain).out
          /\ utxoBlock' = chain
          /\ pc' = "CanSell"
          /\ UNCHANGED calm
       \/ /\ pc' = "failed"
          /\ calm' = FALSE
          /\ UNCHANGED utxoBlock
    /\ UNCHANGED <<node, gsp, nameInput, gspBlock>>

(* The GSP answers for the block it is at.                                 *)
CanSell ==
    /\ pc = "CanSell"
    /\ \/ /\ Last(gsp).sells
          /\ gspBlock' = gsp
          /\ pc' = "ancestor"
          /\ calm' = (calm /\ gsp = chain)
       \/ /\ ~Last(gsp).sells
          /\ pc' = "failed"
          /\ calm' = FALSE
          /\ UNCHANGED gspBlock
    /\ UNCHANGED <<node, gsp, nameInput, utxoBlock>>

(* A GSP that is behind the output is accepted as well.                    *)
IsBlockAncestorEither(ancestor, child, n) ==
    \/ IsPrefix(ancestor, child) /\ Len(child) - Len(ancestor) <= n
    \/ IsPrefix(child, ancestor) /\ Len(ancestor) - Len(child) <= n
(* One block too few.                                                      *)
IsBlockAncestorShort(ancestor, child, n) ==
    IsPrefix(ancestor, child) /\ Len(child) - Len(ancestor) < n
(* From child, at most n steps to the parent lead to ancestor.             *)
IsBlockAncestor(ancestor, child, n) ==
    IsPrefix(ancestor, child) /\ Len(child) - Len(ancestor) <= n

CheckAncestor ==
    /\ pc = "ancestor"
    /\ pc' = IF IsBlockAncestor(utxoBlock, gspBlock, MaxAncestorsChecked)
               THEN "ok" ELSE "failed"
    /\ UNCHANGED <<node, gsp, nameInput, utxoBlock, gspBlock, calm>>

-----------------------------------------------------------------------------
Init ==
    /\ \E b \in Block : b.branch = 0 /\ chain = <<b>>
    /\ detached = 0
    /\ gsp = chain
    /\ pc = "failed" /\ nameInput = Last(chain).out
    /\ utxoBlock = <<>> /\ gspBlock = <<>>
    /\ calm = FALSE

CheckForBuyerTrade == Begin \/ GetTxOut \/ CanSell \/ CheckAncestor

Next ==
    \/ \E b \in Block : Attach(b)
    \/ Detach \/ Follow
    \/ CheckForBuyerTrade

Spec == Init /\ [][Next]_vars

-----------------------------------------------------------------------------
(* Properties *)

TypeOK ==
    /\ chain \in Seq(Block) /\ Len(chain) \in 1 .. MaxHeight
    /\ detached \in 0 .. MaxDetached
    /\ gsp \in Seq(Block) /\ gsp # <<>>
    /\ pc \in {"gettxout", "CanSell", "ancestor", "ok", "failed"}
    /\ nameInput \in Out
    /\ utxoBlock \in Seq(Block) /\ gspBlock \in Seq(Block)
    /\ calm \in BOOLEAN

(* What CheckForBuyerTrade promises: once it has succeeded, the trade is   *)
(* valid or its name input is double spent.  At any later time, as long as *)
(* the block for which the GSP answered is in the chain, the name output   *)
(* can only be unspent if the seller can still sell.                       *)
CheckIsSound ==
    /\ pc = "ok"
    /\ IsPrefix(gspBlock, chain)
    /\ Last(chain).out = nameInput
    => Last(chain).sells

(* The check fails only for a reason: the seller cannot sell, the name was *)
(* updated, a reorg happened, the GSP was behind, or more than the allowed *)
(* number of blocks arrived between the calls.                             *)
NoSpuriousFailure == pc = "failed" => ~calm
=============================================================================
