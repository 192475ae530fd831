---------------------------- MODULE NfAssetSpec ----------------------------
(***************************************************************************)
(* The AssetSpec of the nonfungible daemon (src/nonfungible/main.cpp).     *)
(* Strings are sequences of characters, newline being one of them.         *)
(***************************************************************************)
EXTENDS Integers, Sequences

CONSTANTS
    newline,     \* the character that separates minter and asset
    null         \* JSON null

(* The position of the last newline.                                       *)
LastSeparator(str) ==
    CHOOSE i \in DOMAIN str :
        str[i] = newline /\ \A j \in i + 1 .. Len(str) : str[j] # newline

Separator(str) ==
    CHOOSE i \in DOMAIN str :
        str[i] = newline /\ \A j \in 1 .. i - 1 : str[j] # newline

GetNfAsset(str) ==
    IF \E i \in DOMAIN str : str[i] = newline
      THEN [m |-> SubSeq(str, 1, Separator(str) - 1),
            a |-> SubSeq(str, Separator(str) + 1, Len(str))]
      ELSE null

(* In the GSP, minted is the set of assets that exist, and balances gives  *)
(* the number of units of each that the account has.                       *)
IsAsset(str, minted) == GetNfAsset(str) \in minted

CanSell(str, n, balances) == n <= balances[GetNfAsset(str)]
CanBuy == TRUE

(* The move that transfers n units of the asset to the receiver.           *)
GetTransferMove(str, n, receiver) ==
    [t |-> [a |-> GetNfAsset(str), n |-> n, r |-> receiver]]
=============================================================================
