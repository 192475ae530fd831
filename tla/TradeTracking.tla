--------------------------- MODULE TradeTracking ---------------------------
(***************************************************************************)
(* How a trade that is PENDING is followed until it is final: the periodic *)
(* Trade::Update (src/src/trades.cpp) asks the g/dem GSP for the state of  *)
(* the trade (src/gsp) and Xaya Core for the outputs it spends.  The GSP   *)
(* follows the node block by block and may lag behind; the chain has       *)
(* reorgs; the transaction of the trade, "trade", competes with another    *)
(* one, "rival", that spends one of its inputs.  None of the three RPC     *)
(* calls of an update sees the same moment as the others.                  *)
(*                                                                         *)
(* Heights count from the block at which the trade became PENDING.  A      *)
(* block is represented by the one of the two transactions it contains,    *)
(* "none" if it has neither.                                               *)
(***************************************************************************)
EXTENDS Integers, SequencesExt

CONSTANTS
    Confirmations,   \* the flag --democrit_confirmations
    MaxReorg,        \* how many blocks below the greatest height so far a
                     \* reorg may reach
    MaxHeight,       \* bound on the height of the chain
    MaxDetached      \* bound on the number of blocks ever detached

ASSUME TrackingAssumption ==
    /\ Confirmations \in Nat \ {0}
    /\ MaxReorg \in Nat /\ MaxReorg < Confirmations
    /\ MaxHeight \in Nat /\ MaxDetached \in Nat

VARIABLES
    chain,           \* the blocks of the node
    best,            \* the greatest height of the node so far
    detached,        \* the number of blocks detached so far
    mempool,         \* the transactions in the mempool of the node
    gsp,             \* the blocks that the GSP has processed
    pending,         \* the pending moves that the GSP knows
    pc,              \* where the updater is within Update
    seen,            \* the pending moves that CheckTrade has read
    height,          \* the height that checktrade has returned
    state,           \* the state of the trade
    conflict,        \* conflict_height of the trade, if it is set
    regular          \* FALSE once the node or the GSP behaved irregularly

node == <<chain, best, detached, mempool>>
game == <<gsp, pending>>
update == <<pc, seen, height, state, conflict>>
vars == <<node, game, update, regular>>

Tx == {"trade", "rival"}
Has(c, x) == \E i \in DOMAIN c : c[i] = x
Spent(c) == \E x \in Tx : Has(c, x)

-----------------------------------------------------------------------------
(* The node.  *)

(* The trade is broadcast (again), or somebody spends one of its inputs.   *)
Broadcast(x) ==
    /\ ~Spent(chain) /\ mempool = {}
    /\ mempool' = {x}
    /\ regular' = (regular /\ x = "trade")
    /\ UNCHANGED <<chain, best, detached, game, update>>

(* The mempool is lost, or a transaction expires.  *)
Evict ==
    /\ mempool # {}
    /\ mempool' = {}
    /\ regular' = FALSE
    /\ UNCHANGED <<chain, best, detached, game, update>>

(* It is regular for blocks to come and go only when the GSP has caught up *)
(* with the node and no update is under way.                               *)
Quiet == gsp = chain /\ pc = "idle"

(* A block may contain a transaction that our node did not know.           *)
Attach(x) ==
    /\ Len(chain) < MaxHeight
    /\ x # "none" => ~Spent(chain)
    /\ chain' = Append(chain, x)
    /\ best' = IF Len(chain) = best THEN best + 1 ELSE best
    /\ mempool' = IF x = "none" THEN mempool ELSE {}
    /\ regular' = (regular /\ Quiet)
    /\ UNCHANGED <<detached, game, update>>

(* The transaction of a detached block returns to the mempool.  *)
Detach ==
    /\ chain # <<>> /\ Len(chain) > best - MaxReorg
    /\ detached < MaxDetached
    /\ chain' = Front(chain)
    /\ detached' = detached + 1
    /\ mempool' = IF Last(chain) = "none" THEN mempool ELSE {Last(chain)}
    /\ regular' = (regular /\ Quiet /\ Last(chain) # "rival")
    /\ UNCHANGED <<best, game, update>>

-----------------------------------------------------------------------------
(* The g/dem GSP *)

(* The moves that are pending when the GSP has moved to the blocks g: they *)
(* are cleared and, if it is up to date, read from the mempool again.      *)
PendingAtAnyMove(g) == IF g = chain THEN mempool ELSE {}
PendingAt(g) == IF g = chain THEN mempool \cap {"trade"} ELSE {}

(* The GSP detaches a block that the node has left, or attaches the next   *)
(* one.  Its table of trades is what Has and HeightOf say of gsp.          *)
UpdateState ==
    LET g == IF IsPrefix(gsp, chain) THEN Append(gsp, chain[Len(gsp) + 1])
                                     ELSE Front(gsp) IN
    /\ gsp # chain
    /\ gsp' = g
    /\ pending' = PendingAt(g)
    /\ UNCHANGED <<node, update, regular>>

(* The GSP is told of a new transaction, if it is up to date.              *)
AddPendingMove ==
    /\ gsp = chain /\ "trade" \in mempool \ pending
    /\ pending' = pending \cup {"trade"}
    /\ UNCHANGED <<node, gsp, update, regular>>

HeightOf(g, x) == CHOOSE i \in DOMAIN g : g[i] = x

-----------------------------------------------------------------------------
(* The updater *)

(* CheckTrade reads the pending moves first ...  *)
CheckPending ==
    /\ pc = "idle" /\ state = "PENDING"
    /\ seen' = pending
    /\ pc' = "confirmed"
    /\ regular' = (regular /\ gsp = chain)
    /\ UNCHANGED <<node, game, height, state, conflict>>

(* From h on, a trade confirmed or conflicted at height c is final.        *)
IsFinalEarly(c, h) == c + Confirmations <= h + 2
IsFinal(c, h) == c + Confirmations <= h + 1

Done(s, cf) == pc' = "idle" /\ state' = s /\ conflict' = cf

(* Pending moves are ignored.                                              *)
CheckTradeConfirmedOnly(g, p) == IF Has(g, "trade") THEN "confirmed" ELSE "unknown"

(* What checktrade says of the trade, given the blocks g and moves p.      *)
CheckTrade(g, p) ==
    CASE Has(g, "trade") -> "confirmed"
      [] ~Has(g, "trade") /\ "trade" \in p -> "pending"
      [] ~Has(g, "trade") /\ "trade" \notin p -> "unknown"

Deep == Has(gsp, "trade") /\ IsFinal(HeightOf(gsp, "trade"), Len(gsp))

(* ... and then the confirmed ones.  If the trade is known, that decides   *)
(* already what the update does.                                           *)
CheckConfirmed ==
    /\ pc = "confirmed"
    /\ \/ /\ CheckTrade(gsp, seen) = "confirmed" /\ Deep
          /\ Done("SUCCESS", conflict)
          /\ UNCHANGED height
       \/ /\ CheckTrade(gsp, seen) # "unknown" /\ ~Deep
          /\ Done("PENDING", {})
          /\ UNCHANGED height
       \/ /\ CheckTrade(gsp, seen) = "unknown"
          /\ pc' = "inputs"
          /\ height' = Len(gsp)
          /\ UNCHANGED <<state, conflict>>
    /\ seen' = {}
    /\ UNCHANGED <<node, game, regular>>

(* gettxout says that an input of the trade is spent, in the chain or in   *)
(* the mempool; by the trade itself as well as by the rival.               *)
Conflicted == Spent(chain) \/ mempool # {}

(* The height of the conflict is not remembered.                           *)
CheckInputsForget ==
    /\ pc = "inputs"
    /\ Done("PENDING", {})
    /\ UNCHANGED <<node, game, seen, height, regular>>

CheckInputs ==
    /\ pc = "inputs"
    /\ \/ ~Conflicted /\ Done("PENDING", {})
       \/ Conflicted /\ conflict = {} /\ Done("PENDING", {height})
       \/ \E c \in conflict :
             /\ Conflicted
             /\ Done(IF IsFinal(c, height) THEN "FAILED" ELSE "PENDING", conflict)
    /\ UNCHANGED <<node, game, seen, height, regular>>

-----------------------------------------------------------------------------
Init ==
    /\ chain = <<>> /\ best = 0 /\ detached = 0 /\ mempool = {}
    /\ gsp = <<>> /\ pending = {}
    /\ pc = "idle" /\ seen = {} /\ height = 0
    /\ state = "PENDING" /\ conflict = {}
    /\ regular = TRUE

Update == CheckPending \/ CheckConfirmed \/ CheckInputs

Next ==
    \/ \E x \in Tx : Broadcast(x)
    \/ \E x \in Tx \cup {"none"} : Attach(x)
    \/ Evict \/ Detach
    \/ UpdateState \/ AddPendingMove
    \/ Update

Spec == Init /\ [][Next]_vars

(* The updater runs periodically, and the GSP follows the node.            *)
FairSpec == Spec /\ WF_vars(UpdateState) /\ WF_vars(Update)

-----------------------------------------------------------------------------
(* Properties *)

Block == Tx \cup {"none"}

TypeOK ==
    /\ chain \in Seq(Block) /\ gsp \in Seq(Block)
    /\ best \in Nat /\ Len(chain) <= best
    /\ detached \in 0 .. MaxDetached
    /\ mempool \subseteq Tx /\ pending \subseteq {"trade"} /\ seen \subseteq {"trade"}
    /\ pc \in {"idle", "confirmed", "inputs"} /\ height \in Nat
    /\ state \in {"PENDING", "SUCCESS", "FAILED"}
    /\ conflict \subseteq Nat
    /\ regular \in BOOLEAN

(* A trade that Update has declared a SUCCESS is settled for good: no      *)
(* reorg of fewer than the required confirmations undoes it, although the  *)
(* GSP may have been on a branch that the node had left already.           *)
SuccessIsFinal == state = "SUCCESS" => Has(chain, "trade")

(* When Update declares a trade FAILED, an input has been double spent in  *)
(* the chain, as long as the environment is regular: double spends show up *)
(* in blocks, the mempool keeps the trade, and no update coincides with a  *)
(* block that the node or the GSP is still processing.                     *)
FailedIsDoubleSpend ==
    [][state' = "FAILED" /\ state # "FAILED" /\ regular
         => Has(chain, "rival")]_vars

Settled == Has(chain, "trade") /\ IsFinal(HeightOf(chain, "trade"), Len(chain))
Refuted == Has(chain, "rival") /\ \A c \in conflict : IsFinal(c, Len(chain))

(* A trade does not stay PENDING for ever if it is deep enough in the      *)
(* chain, or if a double spend is confirmed and the conflict that Update   *)
(* has noted, if it has noted one, is old enough.                          *)
TradeFinalised == <>[](Settled \/ Refuted) => <>(state # "PENDING")
=============================================================================
