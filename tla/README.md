# Democrit in TLA+

Democrit is a peer-to-peer marketplace for the assets of games on the Xaya
platform.  Traders meet in an XMPP chat room, where each broadcasts its orders;
a trade is settled by one *atomic* blockchain transaction that pays the seller
and moves the asset by updating the seller's name.  Nobody holds anything in
escrow, so that correctness rests on the order in which two daemons check, lock,
sign and broadcast, and on what each of them does when the other one goes away.

This directory models the parts of `src/src/` that carry this logic.

| Module | What it is |
|---|---|
| `Trades` | negotiation and settlement of trades between any number of daemons |
| `AtomicSwap` | the abstract specification of a trade, which `Trades` implements |
| `MCTrades` | instances of `Trades` for TLC, and the refinement mapping to `AtomicSwap` |
| `TradesProofs`, `AtomicTradeProofs` | theorems about `Trades`: types, signatures, locks and goods; atomicity, the refinement, and what is sold |
| `TradeTracking`, `TradeTrackingProofs` | a pending trade until it is final: confirmations, conflicts, reorgs, the g/dem GSP |
| `BuyerCheck`, `BuyerCheckProofs` | the buyer's check of the seller, call by call, while blocks come and go |
| `MyOrders`, `MyOrdersProofs` | one daemon's own orders under its four threads |
| `OrderBook`, `OrderBookProofs` | the book of the other traders' orders, its timeouts, and the chat room that feeds it |
| `MucClient`, `MucClientProofs` | the connection to the chat room: connecting, joining, disconnecting, sending, nicks |
| `Authenticator`, `OrderJson`, `NfAssetSpec` | pure functions: JIDs to accounts, orders to JSON and back with the listings of the book, asset strings |
| `MCConversions`, `ConversionsProofs` | applies these functions to all inputs from small sets; theorems for inputs of any size |

`PROJECT.json` lists the runs, the source lines behind each definition, the
mutations that show that a property can fail, the hazards and the theorems.

## 1. The system

| Component | State | Operations | Talks to |
|---|---|---|---|
| `TradeManager` / `Trade` (`trades.cpp`) | active and archived trades (`TradeState`: order, units, counterparty, seller data, both psbts, state) | `TakeOrder`, `OrderTaken`, `ProcessMessage` → `HandleMessage` + `HasReply`, `UpdateAndArchiveTrades` → `Update`, `HandleSuccess`, `HandleFailure` | the counterparty's `TradeManager` by direct messages; Xaya Core (wallet locks, psbts, broadcast); the g/dem GSP; `MyOrders` |
| `TradeChecker` (`checker.cpp`) | none | the checks before a signature | Xaya Core, the game |
| `MyOrders` (`myorders.cpp`) | own orders, `next_free_id`, locks | `Add`, `RemoveById`, `TryLock`, `Unlock`, `RunRefresh` | `Daemon::UpdateOrders` (broadcast), `ValidateOrder` |
| `OrderBook` (`orderbook.cpp`) | orders per account, queue of update events | `UpdateOrders`, `RunTimeout`, getters | fed by `Daemon` from the room |
| `State` (`state.hpp`) | the protobuf with all of the above, one mutex | read and write callbacks | everybody |
| `Daemon` (`daemon.cpp`) | wiring | `HandleMessage`, `HandlePrivate`, `HandleDisconnect`, RPC entry points | all |
| `MucClient` (`mucclient.cpp`) | XMPP connection, room, flags `disconnecting` and `joining`, map from nicks to JIDs, a disconnecting thread | `Connect`, `DisconnectAsync`, `Disconnect`, `SendMessage`, presence and message handlers | gloox / Charon; `Daemon` |
| `Authenticator` (`authenticator.cpp`) | known JIDs | `Authenticate`, `LookupJid` | `Daemon` |
| `IntervalJob` (`intervaljob.cpp`) | a thread | run a function periodically, stop | `MyOrders`, `OrderBook`, `TradeManager`, the reconnecter of `Daemon` |
| g/dem GSP (`gsp/`) | confirmed and pending trade ids | block updates, pending moves, `checktrade` | Xaya Core |
| `RpcServer`, JSON (`rpcserver.cpp`, `json.cpp`) | none | the user's methods; conversion of orders | `Daemon` |
| nonfungible daemon (`nonfungible/main.cpp`) | none | the `AssetSpec` of one game | its GSP |
| `Stanzas`, `RpcClient`, mock of Xaya Core | none | encoding, I/O, tests | |

Threads of one daemon: the XMPP thread (messages), RPC threads (the user), the
trade updater, the order refresher, the order-book timeouter, the reconnecter, and
a thread that disconnects.  A callback
under the mutex of `State` is atomic; nothing else is.  `TryLock`, `OrderTaken`
and `Unlock`, or removing an order and adding the rest of it, are several
callbacks with other threads in between.  The state lives in memory only: there
is no restart to recover from, and what survives a crash is the blockchain.

What is hard here:

* a message of an *earlier attempt* on the same order is delayed and merged into
  a later trade, because a trade is identified by account and order id only;
* a timeout (`Trade::Update`) races a message that carries a signature;
* outputs locked, checked or signed for are spent elsewhere before the block;
* an RPC call throws halfway, or takes effect and loses its reply;
* four threads change the own orders, each followed by a refresh that validates,
  takes a snapshot and publishes in three separate steps;
* the book must forget traders that hang, but never those that keep refreshing;
* the node and the two GSPs are asked one after the other, and a block, a reorg or
  a lag may come between the answers that are then compared;
* an XMPP handler may not wait for its own thread, so that it disconnects through
  another one, which the reconnecter and the shutdown race.

## 2. Modules and code

### Trades

Each account runs one daemon with one wallet.  The maker offers, the taker takes;
`ASK` is a sale by the maker, `BID` a purchase.  The protocol:

1. `TakeOrder`: the taker's first message.  A selling taker locks its name output
   and sends its addresses at once (`CreateSellerData`).
2. `OrderTaken`: the maker locks the order and starts its own trade; a selling
   maker sends its addresses.
3. `BuyerConstructs`: the buyer checks the seller (`CheckForBuyerTrade`), funds,
   locks and signs.  As the taker it shares its signature and becomes `PENDING`;
   as the maker it shares the unsigned transaction only.
4. `TakerSignsSale`: a selling taker checks outputs and inputs, signs, sends and
   becomes `PENDING`.
5. `MakerBroadcasts`: the maker signs or combines, broadcasts, and becomes
   `PENDING`.

The alternatives of `HasReply` are these steps and its failures:
`BroadcastRefused`, `NoReply` (a check says no, or an exception before any
effect), `ThrowsAfterLock` and `BroadcastReplyLost`.  The updater is `Abandon`,
`UpdatePending`, `HandleFailure` and `HandleSuccess`; archiving a trade and
cleaning it up are different steps, as in `UpdateAndArchiveTrades`.

`RemoveOrder` is `Daemon::CancelOrder` as well as the part of `RunRefresh` that
drops invalid orders.  Neither looks at locks, so that an order can be gone while
its maker is still selling it.  If that trade then fails, `UnlockFails`: the
`CHECK` in `MyOrders::Unlock` aborts the daemon, which takes no step from then on.
If it succeeds, `HandleSuccess` adds what is left as a new order nevertheless,
unless `MyOrders::Add` refuses it as invalid.

| Variable | Code |
|---|---|
| `trades`, `finalised` | `State.trades`, `trade_archive`, and the local list of `UpdateAndArchiveTrades` |
| `ownOrder`, `maxUnits` | the maker's copy of an order in `MyOrders` |
| `running` | the accounts whose daemon no `CHECK` has aborted |
| `locked` | outputs locked with `lockunspent` |
| `msgs` | every `ProcessingMessage` sent: any of them may be delivered at any time, again, or never |
| `nameVer`, `spent`, `mempool`, `confirmed`, `holds` | blockchain and game state |

Abstractions: an optional protobuf field is a set; a seller's fresh addresses are
named by the trade that asked for them and the change by the buyer's trade; a
purchase is funded by one coin; the order id stands for asset and price; the
clock is dropped, so that a trade may time out whenever it is `INITIATED`;
confirmations are unknown, mempool and confirmed.  `CheckForBuyerSignature` is
part of `NoReply`: it concerns the buyer's own wallet, and a failure unlocks the
inputs again.

### AtomicSwap

What the negotiation promises, without messages, signatures and wallets: every
party has a record of the trade, which it may call off until it is committed;
the assets of two committed records of different owners are exchanged in one
step; and a record ends as done or off according to what really happened.
`MCTrades` maps `INITIATED` to open, `PENDING` to committed, `SUCCESS` to done and
the other two to off, and the confirmed transactions to the exchanges, each
between the trade that owns the seller's addresses and the one that owns the
change.  `SwapsAtomically` says that `Trades` implements this: sending a signature
is a `Commit`, a timeout a `CallOff`, a block an `Exchange`, and everything else
stutters.

### TradeTracking

`UpdatePending` of `Trades` knows whether a transaction is confirmed for good.
The code has to find out.  `CheckPending`, `CheckConfirmed` and `CheckInputs` are
the three moments of `Trade::Update`: `checktrade` reads the pending moves and
then the confirmed trades of the GSP, and `gettxout` asks the node about the
inputs.  In between, the node attaches and detaches blocks (`Attach`, `Detach`),
loses its mempool (`Evict`) or sees a competing transaction, and the GSP follows
one block at a time (`UpdateState`) or hears of a pending move
(`AddPendingMove`).  `conflict` is `conflict_height`.  Heights count from the
moment at which the trade became `PENDING`, and a block is reduced to which of
the two transactions it contains.

### BuyerCheck

`CheckForBuyerTrade` of `Trades` looks at name, balance and block at once.  Here
it is `Begin` (`name_show`), `GetTxOut`, `CanSell` and `CheckAncestor`, each at
another moment of a chain with reorgs and a GSP that may be behind or on another
branch.  `MayFollow` is the promise on which the design rests (the comment on
`AssetSpec::CanSell`): as long as the name is not updated, a seller who can sell
remains able to.  `calm` is a history variable for `NoSpuriousFailure`.

### MyOrders

One daemon.  The program counter `pc` of each thread says which callback comes
next: `"validate"`, `"snapshot"` and `"publish"` are the parts of `RunRefresh`,
`"orderTaken"` follows `TryLock`, `"handle"` and `"recreate"` belong to the
updater.  `failed` records that a `CHECK` has aborted the daemon.  How a trade
ends is `Trades`' business; here any active trade may end either way.  RPC calls
are serialised in one thread.  `budget` is a history variable: what the user
offered in an order and has not been sold.

### OrderBook

`orders` and `updates` are the members of the class.  `Publish` is the other
trader's `MyOrders`: whenever its orders change, and at the latest after half of
the timeout (the constructor of `MyOrdersImpl`).  `wire` holds messages on the
way, in order for each sender and for at most `MaxDelay`.  A trader may leave
(`HandleDisconnect`) or hang (`GoSilent`).  `latest`, the last orders received,
is a history variable.

The getters are operators of `OrderJson`, because their results are checked
together with the JSON they end up in.

### MucClient

One daemon, its receive loop with the handlers, the thread that connects, the one
that disconnects, the ones that send, and the main thread that shuts down.
`DisconnectAsync` is split where the code holds no lock or releases it: `"test"`
(of `disconnecting`), `"joinOld"`, `"lock"`, and `"assign"`, in which a new worker
runs already but is not yet in `disconnecter`.  The worker leaves the room,
disconnects (waiting for the handlers to return), resets `room` and finishes.
`crash` says which `CHECK` has failed or that a running `std::thread` was
overwritten.  The flags are not initialised by the constructor, so that `Init`
allows for any value of them.

`regular` becomes false once a connection breaks without notice (gloox then calls
no handler of `MucClient`), `Connect` cleans up in the window between the start of
the worker and the assignment to `disconnecter`, or the shutdown coincides with a
handler that disconnects.  `CleanDisconnect` and `Rejoins` are conditional on it:
they show that these are the *only* ways to the failures listed in section 5.

### Authenticator, OrderJson, NfAssetSpec

Operators for the conversions, on sequences of character codes where the
characters matter and on model values elsewhere.  Protobuf fields that are not
set, and integers of `Width` bits that become signed in JSON, are as in the code.
`MCConversions` applies one of them to one input per step, so that the reachable
states enumerate the inputs, and compares the result with a reference: an
encoder of account names, the set of matching orders, the order that was put in.

## 3. What the runs check

| Run | Properties | Instance |
|---|---|---|
| `trades_ask` | `TypeOK`, `AtomicTrade`, `AbandonedIsSafe`, `OrderLocked`, `NeverOversold`, `LocksHeld`, `PaidForGoods`, `SwapsAtomically` | a sell order for two units, taken for one or two, and its successor, both of which may be removed at any time; two coins; four trades; a name update |
| `trades_bid` | `AtomicTrade`, `AbandonedIsSafe`, `NoInputShared`, `TakerSignsFirst`, `PaidForGoods`, `SwapsAtomically` | a buy order for two units, taken for one, and its successor; two coins; four trades; a name update; every RPC call may throw; both orders may be removed |
| `trades_live` | `OrderReleased`, `TradeCompletes` | liveness of two sales by one account at once, as the maker of its own sell order and as the taker of the other's buy order; four trades; two coins, one of which the buyer may spend outside; lost replies of `sendrawtransaction`; the sell order may be removed |
| `trade_tracking` | `TypeOK`, `SuccessIsFinal`, `FailedIsDoubleSpend`, `TradeFinalised` | three confirmations, reorgs of two, six blocks, three of them detached |
| `buyer_check` | `TypeOK`, `CheckIsSound`, `NoSpuriousFailure` | two name outputs, five blocks, two detached, three ancestors compared |
| `my_orders` | `TypeOK`, `LockHasHolder`, `OneTradePerOrder`, `NeverOversold` | two orders, four threads, cancellation |
| `my_orders_published` | `PublishedCatchesUp` | liveness; assets come and go, the connection drops |
| `my_orders_check` | `NoCheckFails` | violated, see section 5 |
| `order_book` | `TypeOK`, `QueueCoversBook`, `StaleGone`, `BookIsCurrent` | two traders, timeout 2, delay 1, clock up to 5 |
| `muc_client` | `TypeOK`, `CleanDisconnect`, `RightSender`, `Rejoins` | two nicks, three traders, one of them with a hidden JID |
| `muc_send` | `SendsConnected` | violated, see section 5 |
| `conversions` | `AccountIsUnique`, `OrderRoundTrip`, `OrdersAreListed`, `AssetIsSplit` | user names of up to six characters, integers of three bits, two assets, accounts, ids and prices |

The main results in words:

* `AtomicTrade`: a transaction on the network belongs to exactly one trade of each
  side, agreed in order, amount and counterparty, and neither side ever regards
  that trade as abandoned or failed, although messages of different attempts
  mix.  What makes this true is that the seller's addresses are fresh for each
  trade and that a signature makes a trade `PENDING`.
* `AbandonedIsSafe`: after a timeout, no signature of ours on a transaction of
  that trade exists elsewhere, hence unlocking its outputs is safe.
* `PaidForGoods`: the buyer spends the very name output it has seen before asking
  for the seller's balance.  A seller can move its assets only by updating the
  name, which invalidates the transaction.
* `LocksHeld`, `NoInputShared`, `OrderLocked`, `LockHasHolder`: locks of outputs
  and orders are in step with the trades responsible for them.  A trade does *not*
  imply a locked order, because orders are removed while they are being sold.
  `OrderLocked` says what is left: a locked order has a trade that will release
  it, an order on offer has none, and no order ever has two.
* `TradeCompletes`: two daemons that get all messages never wait for each other,
  with two exceptions.  One is an order removed before its maker heard of
  the trade, the other a seller whose name was locked for another sale when the
  trade began (section 5).  Without either exception TLC finds a violation.
* `SwapsAtomically`: all of this together, as a refinement of `AtomicSwap`.
* `SuccessIsFinal`: as long as no reorg is deeper than the required number of
  confirmations, `SUCCESS` is never wrong, even if the GSP answers from a branch
  that the node has left.  `FailedIsDoubleSpend` is weaker: it needs a regular
  environment (section 5).  `TradeFinalised`: once the trade, or a double spend,
  is deep enough, the trade does not stay `PENDING`.
* `CheckIsSound`: after the check, the name output is unspent only as long as the
  seller can sell, although the calls see different blocks.  Comparing ancestors
  in this direction is essential: the mutant that also accepts a GSP behind the
  node violates it.  `NoSpuriousFailure`: an honest seller is refused only
  if something happened during the check.
* `CleanDisconnect`, `Rejoins`: kicks, errors and reconnects end with a clean state
  and the daemon back in the room.  `RightSender`: no message is attributed to
  another trader, in any environment.
* `AccountIsUnique`: nobody can speak for an account under another spelling of its
  name, and every account can be spelled.  `OrdersAreListed`: the listings miss no
  order, and do not depend on how maps iterate.  `OrderRoundTrip`: an order that is valid can be shown, and comes back
  unchanged or is refused, also beyond the signed range of JSON integers.
* `BookIsCurrent`: repeating orders after half of the timeout is enough, provided
  a message (and the refresh before it) takes at most the other half.

**Bounds.**  Four trades (two attempts of two sides) are the least with which an
old message can meet a new trade on both sides; in `trades_ask` and `trades_bid`
they may be on the order and on the reduced copy of it.  Both are removable, which
gives every order of events around a removal: before the taking message, under a
trade that fails, and under one that succeeds and adds the rest.  In `trades_live`
alice owns the sell order and bob the buy order, so that she can start a second sale
while her only name output is locked for the first, on either side of the
negotiation; two coins let bob pay for both.  Two units allow for a partial sale, and
in `trades_ask` for two sides that disagree on the amount.  `Outside` names the outputs
that users spend themselves: in `trades_ask` and `trades_bid` the first name output of
the seller, on which the trades depend, and in `trades_live` a coin of the buyer, which
makes a pending trade of either maker fail.  In `trade_tracking`, three
confirmations against reorgs of two leave room for a conflict that is noted,
reorganised away and noted again, and for a GSP several blocks behind.
`buyer_check` reorganises twice, and its chain is longer than the number of
ancestors compared.  `MyOrders` has two ids, an order and its successor or two
orders of the user; `OrderBook` a clock that runs for more than twice the timeout
and a queue of four, so that an account is deleted, added again and timed out with
its old events still queued.  `MucClient` needs no bounds: its state is finite,
and two nicks with three traders let nicks be changed, swapped and reused.  The
characters of `conversions` are lower-case letters and digits, hexadecimal and
not, an upper-case letter, which is never allowed, and those of the prefix of
encoded names; six characters are that prefix and two bytes.  The order book
shown has up to two orders of each of two accounts (`BookAccount`, `BookId`), with
equal prices among them; `OwnId` has an id that does not fit into a signed integer.

`MaxTrades`, `MaxName` (of `MCConversions`), `MaxAccount`, `MaxAsset`, `MaxId`, `MaxTime`, `MaxQueue`, `MaxHeight` and
`MaxDetached` exist for TLC only; the code has no such limits, and runs check no
deadlock because reaching a bound, everything being sold, or having shut down, is
a legitimate end.  (`my_orders_check` and `muc_send` stop at their violation.)

**Fairness.**  `UpdateSpec` of `Trades`: weak fairness of the updater's steps,
because an `IntervalJob` runs them periodically, and of mining.  Everything else is
a premise of the property that needs it.  `OrderReleased` presumes `Timeouts`,
weak fairness of `Abandon`, because the time a trade has to be negotiated in is
finite, and excepts the orders of a daemon that was aborted.  `TradeCompletes`
presumes `Delivery`, weak fairness of message
processing, and says what then holds *unless* a trade is abandoned, an order is
taken twice by the same account, an output is spent elsewhere or a seller has
sold all it had.  Nothing is
assumed of users.  `FairSpec` of `MyOrders`: a thread finishes an operation that it
has started, and the refresher runs periodically; nothing is assumed of users,
trades or the connection.  `FairSpec` of `TradeTracking`: the updater runs, and the
GSP follows the node; nothing is assumed of the node.  `FairSpec` of `MucClient`:
every thread is scheduled, and a server that is asked again and again finally
accepts the connection and lets us join (strong fairness).

**Assumptions.**  `TrackingAssumption` has `MaxReorg < Confirmations`: the purpose of
the flag `--democrit_confirmations` is to exceed the depth of reorgs.  In
`MucClient`, whether the server shows the JID of a trader does not change.

## 4. What is proved

For all values of the constants, checked by TLAPS.  Each theorem `Spec => []P` rests
on an inductive invariant, of which TLC has checked that it holds in the instances
of the runs before it was proved.

### Trades

* `TradesProofs!TypeCorrect`: `TypeOK`.  It includes the `CHECK` of
  `Trade::Update` that a trade which has been `PENDING` has a psbt.  `PutType` and
  `HasReplyType` carry the argument: writing back a trade keeps `trades` a
  sequence of well-typed records, for each alternative of `HasReply`.
* `TradesProofs!MakerKeepsSignature`: `TakerSignsFirst`.  The property is not
  inductive, as a maker forwards nothing, but a taker signs and forwards what it
  has received.  `MakerSecret` adds that the psbts *received* in any trade do not
  carry the maker's signature either; a taker adds its own to one of those, and
  a maker shares only what it has constructed and not signed.
* `AtomicTradeProofs!TradesAreAtomic`: `AtomicTrade`, `AbandonIsSafe`:
  `AbandonedIsSafe`, and `TradesImplementSwap`: the refinement `SwapsAtomically`.
  `AtomicInv` says of every transaction that exists anywhere, in a psbt, a message
  or the mempool, which two trades it belongs to: its addresses name a trade of the
  seller and its change a trade of the buyer, because both are fresh.  A signature
  of an account on it that somebody else has seen makes the account's trade
  committed, and a committed trade ends only as the chain says.  Therefore a
  broadcast transaction, which has both signatures, has two committed trades
  (`AtomicTrade`), an abandoned trade has given no signature away
  (`AbandonedIsSafe`), and a block maps to one `Exchange` (`SwapsAtomically`).
  Hypothesis `NoLostReply`: `"lostReply"` is not in `Faults`; with it the first
  two are false (section 5).
* `TradesProofs!NoDoubleSpend`: `NoInputShared`.  `WalletInv` says that what
  a trade holds is locked or spent and is held by no other trade of the account;
  a new trade gets only what is not locked.  `OrderLockFollowsTrades`:
  `OrderLocked`, for any set of orders that can be removed.  It is inductive relative
  to `WalletInv` and to `TakingToMaker`, by which only makers are asked to start a
  trade on an own order: a trade starts on an order on offer only, which has no other
  trade; the clean up of the one trade puts the order on offer again, or finds it
  gone and aborts; and an id that is gone is never used again.  Both for every choice
  of `Faults`.
* `TradesProofs!LocksFollowTrades`: `LocksHeld`, with `NoStrayLock` for the other
  direction.  Hypothesis: `"throw"` is not in `Faults`, as an exception after a lock
  does leave a stray one (section 5).
* `TradesProofs!BuyersGetGoods`: the action property `PaidForGoods`, for every
  choice of `Faults`.  `GoodsInv`: in every transaction whose name output is still
  the current one, the seller has the assets.
* `AtomicTradeProofs!NobodyOversells`: `NeverOversold` of `MCTrades`.  `SalesInv` says
  that an order is sold at most once, by a trade besides which its maker has none that
  is active or successful (`Claims`), that it is then gone, and that what a maker
  negotiates about is within what its order offered; the bound is that of `CheckOrder`,
  followed through every change of a trade (`CallCases`).  The property sums up any
  number of orders and transactions.  `Books(c)` reduces it to single orders: there
  is a ledger `c` with a share of the initial offer for each order, which covers
  what the order offers (`Offered`: also if it was removed while its maker is still
  selling it, as the rest may come back) and what was sold from it, and in which no account has more
  than it started with.  `HandleSuccess` moves the share of the rest from an order to its
  successor (`BooksSplit`), everything else leaves the ledger as it is (`BooksKeep`).
  Each transaction on the network is then the one sale of its order (`SoldOnce`).  `Tally`
  stands for the sums: `TallyLaw`, `TallyRemove`, `TallyUnion` and `TallyInjection` are
  the laws of finite sums, and `SumIsTally` and `UnitSumIsTally` say that the folds of
  the property compute it.  Their inductions are choices of a least counterexample
  (`LeastNumber`, `LeastSet`).  Hypotheses: `NoLostReply` as above, because a maker that
  abandons a trade which is on the network offers again what it is selling, and
  finitely many orders.

### TradeTracking

* `TypeCorrect`: `TypeOK`.
* `SuccessStays`: `SuccessIsFinal`.  `ReorgInv` relates the branches of node and GSP to
  the greatest height so far: whatever was deep enough on the GSP's branch when
  the updater looked is below the point to which a reorg can go back.  It uses
  `MaxReorg < Confirmations`.
* `FailedOnlyIfDoubleSpent`: `FailedIsDoubleSpend`.  `RegularInv`: in a regular
  environment an update sees node and GSP at the same block; without a rival in the
  chain, a conflict is noted only at the current height, while the GSP does not yet
  know that it is the trade itself that is in the mempool.  Hypothesis `Confirmations > 1` (the default of the
  flag is 6): with a single confirmation, a second update at the same height
  finds the conflict noted by the first old enough and declares `FAILED` before the
  GSP has been told of the pending move.

### BuyerCheck

* `TypeCorrect`: `TypeOK`, inductive together with the fact that node and GSP agree
  on the first block.
* `BuyerCheckSound`: `CheckIsSound`.  `SoundInv`: along any chain a seller who can
  sell remains able to as long as the name output stays, an output that was
  replaced does not come back, and the answers so far are true of the block
  they were given for.
* `BuyerCheckComplete`: `NoSpuriousFailure`.  `CalmInv` says how far the answers may
  lie apart while the check is calm.

### MyOrders

* `OrdersTakenOnce`: `OneTradePerOrder`, and `LocksAreHeld`: `LockHasHolder`.
  `LockInv` says that messages, active and finalised trades hold pairwise different
  orders (`Exclusive`), that an id given to a new order is not held by anybody, not
  even by a trade on an order that is gone (`Fresh`), and that an order is locked
  iff it is held (`LocksMatch`).  `Phases` is needed in addition: `TryLock` and
  `Update` overwrite what they hold, and do so only when nothing is left of the
  last time.
* `UnlockFindsLock`: if nobody cancels and the assets do not change, `NoCheckFails`
  holds.  So the two causes of section 5 are the only ones.
* `NothingOversold`: `NeverOversold`.  The property is a sum over a set, about which the
  prover cannot induct, but `Roots` says that whatever came from one order of the
  user is in one place, an order with the trade that holds it or a rest to be added
  again; so no sum has more than one summand (`SumOfNone`, `SumOfMax`, `SumOfUnits`).
  `Covered` says that what is offered, being taken, being sold or left over there is
  within what is not sold yet, and `BudgetAfterUpdate` that an update which ends
  several trades at once takes the units of one trade from each root.
* `TypeCorrect`: `TypeOK`, of which `Covered` gives that what is not sold never becomes
  negative.

### OrderBook

* `BookTypeCorrect`: `TypeOK`.
* `TimeoutFindsAll`: `QueueCoversBook`, which is inductive
  together with `TypeOK`: an event popped for an account that stays on the book
  is older than the account's last update, whose event is thus still queued.
* `NothingStale`: `StaleGone`, a consequence of it: the queue is
  sorted, so stopping at the first recent event misses nothing.
* `StaysOnBook`: `BookIsCurrent`.  The inductive invariant
  `BookInv` says that no message is older than `MaxDelay` (`WireInTime`), that the
  book shows what was received last (`ShowsLatest`), and for every trader on the
  book that the last refresh is not longer ago than the interval and that either
  it has arrived, or a message is on the way that was sent within an interval of
  the last update (`InTime`).

### MucClient

* `TypeCorrect`: `TypeOK`, as `Flags` and `Shapes`.
* `DisconnectsAreClean`: `CleanDisconnect`.  `Clean` describes a regular environment:
  where the threads can be (`Threads`), what is left when there is no worker
  (`NoWorker`: nothing), what a worker has done already and that it can be joined
  unless it is just being assigned (`Working`), and what the callers of
  `DisconnectAsync` may rely on (`Callers`).
* `SendersAreRight`: `RightSender`, in any environment.  `Resolved`: a nick resolves to
  its holder or to nobody, and never to a hidden JID.

### Conversions

The state of `MCConversions` is the last query, so these are theorems about the
functions, for all inputs.

* `AccountsAreUnique`: `AccountIsUnique`.  `DecodeEncoded` and `EncodeDecoded` say that
  `DecodeName` and the encoding are inverse to each other, for names of any length
  over all bytes.  Below them, `HexUnhex` and `UnhexHex` go through pairs of digits, and
  a name that is accepted as it stands cannot start with the prefix of encoded ones,
  because `-` is not a simple character.
* `OrdersRoundTrip`: `OrderRoundTrip`, for integers of any width.  `ObjectOfOrder` says
  that what `ValidateOrder` accepts passes the `CHECK` in `OrderToJson`, and
  `SignedNumber` that a number which does not fit becomes negative, which
  `OrderFromJson` refuses.
* `AssetsAreSplit`: `AssetIsSplit`, for strings of any length.  That there is a first
  newline follows from `LeastNumber`.
* `ListingsAreComplete`: `OrdersAreListed`, for any number of accounts, orders and prices.
  `SortedExists` and `SortedUnique` say that a finite set can be sorted by a strict total
  order in exactly one way, and `SideSorted` that `ByPriceAsc` is one on the orders of a
  side, because account and id tell them apart: what `std::sort` returns does not
  depend on the iteration over the map, nor on how it treats equal elements.
  `BookRoundTrip` takes an order through JSON and back.  `IdsSorted` is the same for
  one's own orders.  As in the run, units are 1 here; `OrdersRoundTrip` has all of them.

### Assumptions

`TradesAssumption`, `MyOrdersAssumption`, `MucAssumption` and the assumptions of
`BuyerCheck` give the types of the constants; `OrderBookAssumption` has
`Timeout \div 2 + MaxDelay <= Timeout` and `TrackingAssumption`
`MaxReorg < Confirmations`.  `OrderJsonAssumption` and `ConversionsAssumption` say that
markers such as `Unset` are no numbers or objects and that characters are bytes.
`LimitAssumption` says that a power of two is a number above 1, a fact that the
provers do not know.  `BookAssumption`: a book has finitely many accounts, and ids and
prices that fit into signed integers.  The other hypotheses are those named above.

### Only model-checked

* All liveness properties (`OrderReleased`, `TradeCompletes`, `PublishedCatchesUp`,
  `TradeFinalised`, `Rejoins`): the prover has neither `ENABLED` nor fairness.
* Nothing else: every invariant and every action property of a passing run is stated
  by a theorem.  Some of them have hypotheses on `Faults` or on a flag, named
  above; section 5 says what happens without these.

## 5. Where code and documentation disagree

Two are runs whose property TLC finds violated.

* `my_orders_check`: `RunRefresh` drops an order that has become invalid even when
  a trade has locked it; when the trade ends without success, the `CHECK` in
  `Unlock` aborts the daemon.  `cancelorder` leads to the same `CHECK`.
* `muc_send`: `SendMessage` has a `CHECK` that we are connected, which its callers
  either test too early (`UpdateOrders`) or not at all (`TakeOrder`, the reply of
  `HandlePrivate`).

Noticed while modelling, without a run of their own.  On trades:

* `trades.hpp:117-118` says that no two trades are active for the same order id;
  `TakeOrder` does not look for one.  `AtomicTrade` holds nevertheless.
* If the reply of `sendrawtransaction` is lost, the maker abandons a trade that is
  on the network: `AbandonedIsSafe` does not hold with `"lostReply"` in `Faults`.
* An exception after `walletcreatefundedpsbt`, or `getnewaddress` failing after the
  name was locked, leaves outputs locked without a trade that would ever unlock
  them (`LocksHeld` does not hold with `"throw"` in `Faults`); no two trades share
  them (`NoInputShared`).
* An account can have only one sale in progress, as every sale needs its one name
  output.  If an order is taken while another sale is, `CreateSellerData` fails on
  the locked name (`trades.cpp:307-311`) and `HasReply` has nothing to send
  (`trades.cpp:457-458`).  It is not tried again when the name is free, since no
  further message comes: the order stays locked, and both sides wait, until they
  time out.  This is the exception `NameWasLocked` of `TradeCompletes`.
* `FAILED` is said to mean a double spend (`trades.proto:50`).  It is also reached,
  with no rival in the chain, if a competing transaction is only in the mempool,
  if the mempool of the node was lost, or if updates coincide with blocks which
  the GSP has not processed yet: `FailedIsDoubleSpend` has `regular` for that.
* A comment in `CheckForBuyerTrade` says that what was checked for one block "will
  be true for any block" after it; a reorg past the block of the GSP invalidates
  it, hence the second conjunct of `CheckIsSound`.
* An order cancelled while it is being sold comes back, reduced, when the trade
  succeeds, from the copy in the trade (`trades.cpp:764-775`).  It is not oversold
  (`NeverOversold`).
* `GetTotalSat` tests for overflow after a signed multiplication, which is
  undefined then; zero units, possible if `min_units` is missing, are refused by a
  `CHECK` only.

On orders:

* Snapshots of two threads can be published in the wrong order, so that a locked
  order is on offer until the next refresh, although `myorders.hpp:120` has the
  locked ones left out.  `PublishedCatchesUp` shows that it ends.
* The getters of `OrderBook` (`orderbook.cpp:163-215`) read the map without the
  mutex, although `orderbook.hpp:49` says that the class synchronises itself.
* `CanSell` gets `max_units` as a signed number: from 2^63 on it is negative, and
  the balance always suffices.
* Numbers beyond the signed range are negative in JSON, and refused when a client
  passes them back; own orders with such an id cannot be cancelled by RPC.

On the connection:

* A connection that breaks without a callback leaves `room` set, and the next
  `Connect` fails its `CHECK`; if it happens while joining, `Connect` waits for ever.
* `Connect` between the start of the disconnecting thread and its assignment to
  `disconnecter` resets the flag although that thread still runs; a shutdown
  that coincides with a handler's disconnect may overwrite a running thread, which
  terminates the process, or fail the `CHECK` in `Disconnect`.
* If a server stops showing JIDs during a session, a change of nick leaves an entry
  behind (`mucclient.cpp:259`).
* `HandleDisconnect` authenticates the JID that leaves.  This makes it the account's
  known JID, and removes the orders of an account that has come back meanwhile
  under another resource, until its next refresh.

## 6. What is not modelled

* Daemons that do not follow the protocol: `Trades` has only the messages that this
  code sends.  The refusal of malformed seller data (`trades.cpp:240-255`) is therefore
  left out, and the checks before a signature matter only for messages that are late
  or belong to another attempt.
* In `Trades`, the refusals of `CheckForBuyerTrade` that concern the order itself: an
  unknown asset, or a buyer that cannot own it (`checker.cpp:152-162`).
  They only make fewer trades come about.  For `TradeCompletes` the order is taken to
  pass them.
* In `Trades`, how the updater finds out about confirmations and double spends:
  `UpdatePending` knows.  `TradeTracking` has the code's own way, and section 5
  says when it declares `FAILED` too early; what `AtomicTrade` and `SwapsAtomically` say
  of `FAILED` trades holds only as far as that verdict is right.
* Irregular environments, as far as `FailedIsDoubleSpend`, `CleanDisconnect` and
  `Rejoins` are concerned: these properties are conditional on the history
  variable `regular` of their module, and say nothing once it is false.
* Amounts of money: an order id stands for the price.  `GetTotalSat`, its overflow
  and zero units are abstracted.
* `Stanzas` and `RpcClient`, the `main` programs, the checks of command-line flags:
  encoding and I/O.
* The JSON of trades, which is only shown, and JSON values of a wrong type.
* Exceptions that end a thread, and with it the process; nothing is persisted that
  could be wrong afterwards.
* Which of several JIDs of an account is the known one.
* Data races proper, on the maps of `OrderBook` and `Authenticator`: undefined
  whatever the values are.
* The mock of Xaya Core, a test double.

## 7. Status

All components that carry logic are modelled, as in the table at the top, and every
safety property is proved.  What could be added:

1. The known JIDs of `Authenticator` together with the departures that
   `HandleDisconnect` handles (section 5, on the connection), as a module between
   `MucClient` and `OrderBook`.
2. Money: `GetTotalSat` with integers of a fixed width, and with it the amounts in the
   outputs that `TradeChecker` compares.
3. The liveness properties as theorems, once a prover supports fairness.
