----------------------------- MODULE AtomicSwap -----------------------------
(***************************************************************************)
(* What the negotiation of trades promises, without messages, signatures,  *)
(* outputs and wallets: each party keeps a record of the trade, a record   *)
(* may be called off freely until its owner is committed, and what happens *)
(* on the blockchain happens to two committed records of different owners  *)
(* at the same time.  A record's final state tells the truth: it is done   *)
(* iff the assets have changed hands, and off iff they never will.         *)
(***************************************************************************)
CONSTANTS
    Record,         \* the records of trades that can be there
    Owner           \* the accounts

VARIABLES
    phase,          \* phase[r]: "none", "open", "committed", "done" or "off"
    owner,          \* owner[r]: the account that keeps r, once it is started
    swaps           \* the pairs of records whose assets have been exchanged

vars == <<phase, owner, swaps>>

Swapped(r) == \E w \in swaps : r \in w

Init ==
    /\ phase = [r \in Record |-> "none"]
    /\ owner = [r \in Record |-> "nobody"]
    /\ swaps = {}

Move(r, from, to) ==
    /\ phase[r] = from
    /\ phase' = [phase EXCEPT ![r] = to]
    /\ UNCHANGED swaps

Start(r) ==
    /\ Move(r, "none", "open")
    /\ \E a \in Owner : owner' = [owner EXCEPT ![r] = a]

Commit(r)  == Move(r, "open", "committed") /\ UNCHANGED owner
CallOff(r) == Move(r, "open", "off") /\ UNCHANGED owner
Fail(r)    == ~Swapped(r) /\ Move(r, "committed", "off") /\ UNCHANGED owner
Finish(r)  == Swapped(r) /\ Move(r, "committed", "done") /\ UNCHANGED owner

Exchange(r, s) ==
    /\ phase[r] = "committed" /\ phase[s] = "committed"
    /\ owner[r] # owner[s]
    /\ ~Swapped(r) /\ ~Swapped(s)
    /\ swaps' = swaps \cup {{r, s}}
    /\ UNCHANGED <<phase, owner>>

Next ==
    \/ \E r \in Record : Start(r) \/ Commit(r) \/ CallOff(r) \/ Fail(r) \/ Finish(r)
    \/ \E r, s \in Record : Exchange(r, s)

Spec == Init /\ [][Next]_vars
=============================================================================
