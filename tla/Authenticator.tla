--------------------------- MODULE Authenticator ---------------------------
(***************************************************************************)
(* How the JID of a trader is turned into the name of a Xaya account       *)
(* (src/src/authenticator.cpp).  Strings are sequences of character codes. *)
(***************************************************************************)
EXTENDS Integers, SequencesExt

CONSTANTS
    xidServers,   \* the servers that are trusted to apply XID authentication
    NoAccount       \* the result if there is no account

digits == 48 .. 57          \* '0' to '9'
letters == 97 .. 122        \* 'a' to 'z'
hexLetters == 97 .. 102     \* 'a' to 'f'

IsSimpleChar(c) == c \in digits \cup letters

IsHexChar(c) == c \in digits \cup hexLetters
HexCharValue(c) == IF c \in digits THEN c - 48 ELSE 10 + c - 97

ENCODED_PREFIX == <<120, 45>>   \* "x-"

Unhex(hex) ==
    [i \in 1 .. Len(hex) \div 2 |->
        16 * HexCharValue(hex[2 * i - 1]) + HexCharValue(hex[2 * i])]

(* Names that need no encoding are accepted in hex as well.                *)
DecodeHexAny(hex) ==
    IF Len(hex) % 2 = 0 /\ \A i \in DOMAIN hex : IsHexChar(hex[i])
      THEN Unhex(hex) ELSE NoAccount

(* Only names that need it may be encoded: the empty one, and those with   *)
(* a character that is not simple.                                         *)
DecodeHex(hex) ==
    IF /\ Len(hex) % 2 = 0
       /\ \A i \in DOMAIN hex : IsHexChar(hex[i])
       /\ hex # <<>> => \E i \in DOMAIN Unhex(hex) : ~IsSimpleChar(Unhex(hex)[i])
      THEN Unhex(hex) ELSE NoAccount

DecodeName(name) ==
    CASE name = <<>> -> NoAccount
      [] name # <<>> /\ IsPrefix(ENCODED_PREFIX, name) ->
            DecodeHex(SubSeq(name, Len(ENCODED_PREFIX) + 1, Len(name)))
      [] name # <<>> /\ ~IsPrefix(ENCODED_PREFIX, name) ->
            IF \A i \in DOMAIN name : IsSimpleChar(name[i]) THEN name ELSE NoAccount

(* The account that a JID authenticates as.                                *)
Authenticate(jid) ==
    IF jid.server \in xidServers THEN DecodeName(jid.username) ELSE NoAccount
=============================================================================
