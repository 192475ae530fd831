------------------------- MODULE ConversionsProofs -------------------------
(***************************************************************************)
(* Proofs about the conversions: for names, numbers and strings of any     *)
(* size.                                                                   *)
(***************************************************************************)
EXTENDS MCConversions, WellFoundedInduction, FiniteSetTheorems, SequenceTheorems, TLAPS

-----------------------------------------------------------------------------
(* User names and accounts *)

Byte == 0 .. 255

(* A character of the hex encoding and its value determine each other.     *)
LEMMA HexDigits ==
    /\ \A v \in 0 .. 15 : IsHexChar(HexChar(v)) /\ HexCharValue(HexChar(v)) = v
    /\ \A c : IsHexChar(c) => HexCharValue(c) \in 0 .. 15 /\ HexChar(HexCharValue(c)) = c
BY DEF IsHexChar, HexChar, HexCharValue, digits, hexLetters

(* The two digits of a character.                                          *)
LEMMA HexPairs ==
    ASSUME NEW name \in Seq(Byte), NEW i \in 1 .. Len(name)
    PROVE  /\ 2 * i - 1 \in 1 .. 2 * Len(name) /\ 2 * i \in 1 .. 2 * Len(name)
           /\ Hex(name)[2 * i - 1] = HexChar(name[i] \div 16)
           /\ Hex(name)[2 * i] = HexChar(name[i] % 16)
           /\ name[i] \div 16 \in 0 .. 15 /\ name[i] % 16 \in 0 .. 15
           /\ 16 * (name[i] \div 16) + (name[i] % 16) = name[i]
<1>1. PICK n \in Nat : n = Len(name)
  OBVIOUS
<1>2. i \in Int /\ 1 <= i /\ i <= n
  BY <1>1
<1>3. 2 * i - 1 \in 1 .. 2 * n /\ 2 * i \in 1 .. 2 * n
  BY <1>1, <1>2
<1>4. /\ ((2 * i - 1) + 1) \div 2 = i /\ (2 * i - 1) % 2 = 1
      /\ (2 * i + 1) \div 2 = i /\ (2 * i) % 2 = 0
  BY <1>2
<1>5. /\ Hex(name)[2 * i - 1] = HexChar(name[i] \div 16)
      /\ Hex(name)[2 * i] = HexChar(name[i] % 16)
  BY <1>1, <1>3, <1>4 DEF Hex
<1>6. name[i] \in Byte
  OBVIOUS
<1>7. ASSUME NEW v \in Byte
      PROVE  /\ v \div 16 \in 0 .. 15 /\ v % 16 \in 0 .. 15
             /\ 16 * (v \div 16) + (v % 16) = v
  <2>1. v \in Int /\ 0 <= v /\ v <= 255
    BY DEF Byte
  <2>2. v \div 16 \in Int /\ 0 <= v \div 16 /\ v \div 16 <= 15
    BY <2>1
  <2>3. v % 16 \in 0 .. 15
    BY <2>1
  <2>4. 16 * (v \div 16) + (v % 16) = v
    BY <2>1
  <2> QED BY <2>2, <2>3, <2>4
<1> QED BY <1>1, <1>3, <1>5, <1>6, <1>7

(* Hex yields hex digits, two for each character.                          *)
LEMMA HexType ==
    ASSUME NEW name \in Seq(Byte)
    PROVE  /\ Hex(name) \in Seq(Nat) /\ Len(Hex(name)) = 2 * Len(name)
           /\ DOMAIN Hex(name) = 1 .. 2 * Len(name)
           /\ \A k \in DOMAIN Hex(name) : IsHexChar(Hex(name)[k])
<1>1. PICK n \in Nat : n = Len(name)
  OBVIOUS
<1>2. DOMAIN Hex(name) = 1 .. 2 * n
  BY <1>1 DEF Hex
<1>3. ASSUME NEW k \in 1 .. 2 * n
      PROVE  IsHexChar(Hex(name)[k]) /\ Hex(name)[k] \in Nat
  <2>1. PICK i \in 1 .. n : k = 2 * i - 1 \/ k = 2 * i
    <3>1. (k + 1) \div 2 \in 1 .. n
      BY <1>1
    <3>2. k = 2 * ((k + 1) \div 2) - 1 \/ k = 2 * ((k + 1) \div 2)
      BY <1>1
    <3> QED BY <3>1, <3>2
  <2>2. PICK v \in 0 .. 15 : Hex(name)[k] = HexChar(v)
    <3>1. i \in 1 .. Len(name)
      BY <1>1
    <3>2. /\ Hex(name)[2 * i - 1] = HexChar(name[i] \div 16)
          /\ Hex(name)[2 * i] = HexChar(name[i] % 16)
          /\ name[i] \div 16 \in 0 .. 15 /\ name[i] % 16 \in 0 .. 15
      BY <3>1, HexPairs
    <3> QED BY <2>1, <3>2
  <2>3. IsHexChar(Hex(name)[k])
    BY <2>2, HexDigits
  <2> QED BY <2>3 DEF IsHexChar, digits, hexLetters
<1>4. Hex(name) \in [1 .. 2 * n -> Nat]
  BY <1>1, <1>3 DEF Hex
<1>5. Hex(name) \in Seq(Nat) /\ Len(Hex(name)) = 2 * n
  <2>1. PICK m \in Nat : m = 2 * n
    BY <1>1
  <2>2. Hex(name) \in [1 .. m -> Nat]
    BY <1>4, <2>1
  <2> QED BY <2>1, <2>2
<1> QED BY <1>1, <1>2, <1>3, <1>5

(* Decoding what has been encoded.                                         *)
LEMMA UnhexHex ==
    ASSUME NEW name \in Seq(Byte) PROVE Unhex(Hex(name)) = name
<1>1. PICK n \in Nat : n = Len(name)
  OBVIOUS
<1>2. Len(Hex(name)) = 2 * n /\ (2 * n) \div 2 = n
  BY <1>1, HexType
<1>3. ASSUME NEW i \in 1 .. n PROVE Unhex(Hex(name))[i] = name[i]
  <2>1. Unhex(Hex(name))[i] = 16 * HexCharValue(Hex(name)[2 * i - 1])
                              + HexCharValue(Hex(name)[2 * i])
    BY <1>2 DEF Unhex
  <2>2. i \in 1 .. Len(name)
    BY <1>1
  <2>3. /\ Hex(name)[2 * i - 1] = HexChar(name[i] \div 16)
        /\ Hex(name)[2 * i] = HexChar(name[i] % 16)
        /\ name[i] \div 16 \in 0 .. 15 /\ name[i] % 16 \in 0 .. 15
        /\ 16 * (name[i] \div 16) + (name[i] % 16) = name[i]
    BY <2>2, HexPairs
  <2>4. /\ HexCharValue(Hex(name)[2 * i - 1]) = name[i] \div 16
        /\ HexCharValue(Hex(name)[2 * i]) = name[i] % 16
    BY <2>3, HexDigits
  <2>5. Unhex(Hex(name))[i] = 16 * (name[i] \div 16) + (name[i] % 16)
    BY <2>1, <2>4
  <2> QED BY <2>3,  <2>5
<1>4. Unhex(Hex(name)) = [i \in 1 .. n |-> Unhex(Hex(name))[i]]
  BY <1>2 DEF Unhex
<1>5. name = [i \in 1 .. n |-> name[i]]
  BY <1>1
<1> QED BY <1>3, <1>4, <1>5

(* The other way round: Unhex yields characters, and encoding them again   *)
(* gives the same digits.                                                  *)
LEMMA HexUnhex ==
    ASSUME NEW hex \in Seq(Nat), Len(hex) % 2 = 0,
           \A k \in DOMAIN hex : IsHexChar(hex[k])
    PROVE  Unhex(hex) \in Seq(Byte) /\ Hex(Unhex(hex)) = hex
<1>1. PICK n \in Nat : Len(hex) = 2 * n /\ Len(hex) \div 2 = n
  <2>1. \A m \in Nat : m % 2 = 0 => m \div 2 \in Nat /\ m = 2 * (m \div 2)
    OBVIOUS
  <2>2. Len(hex) \in Nat
    OBVIOUS
  <2> QED BY <2>1, <2>2
<1>2. \A k \in 1 .. 2 * n : /\ HexCharValue(hex[k]) \in 0 .. 15
                            /\ HexChar(HexCharValue(hex[k])) = hex[k]
  <2>1. DOMAIN hex = 1 .. 2 * n
    BY <1>1
  <2> QED BY <2>1, HexDigits
<1>3. \A i \in 1 .. n : 2 * i - 1 \in 1 .. 2 * n /\ 2 * i \in 1 .. 2 * n
  OBVIOUS
<1>4. \A i \in 1 .. n : Unhex(hex)[i] = 16 * HexCharValue(hex[2 * i - 1])
                                        + HexCharValue(hex[2 * i])
  BY <1>1 DEF Unhex
<1>5. \A v, w \in 0 .. 15 : /\ 16 * v + w \in Byte
                            /\ (16 * v + w) \div 16 = v /\ (16 * v + w) % 16 = w
  BY DEF Byte
<1>6. \A i \in 1 .. n : Unhex(hex)[i] \in Byte
  BY <1>2, <1>3, <1>4, <1>5
<1>7. Unhex(hex) \in [1 .. n -> Byte]
  BY <1>1, <1>6 DEF Unhex
<1>8. Unhex(hex) \in Seq(Byte) /\ Len(Unhex(hex)) = n
  BY <1>7
<1>9. ASSUME NEW k \in 1 .. 2 * n PROVE Hex(Unhex(hex))[k] = hex[k]
  <2>1. PICK i \in 1 .. n : k = 2 * i - 1 \/ k = 2 * i
    <3>1. (k + 1) \div 2 \in 1 .. n
      OBVIOUS
    <3>2. k = 2 * ((k + 1) \div 2) - 1 \/ k = 2 * ((k + 1) \div 2)
      OBVIOUS
    <3> QED BY <3>1, <3>2
  <2>2. /\ Hex(Unhex(hex))[2 * i - 1] = HexChar(Unhex(hex)[i] \div 16)
        /\ Hex(Unhex(hex))[2 * i] = HexChar(Unhex(hex)[i] % 16)
    BY <1>8, HexPairs
  <2>3. /\ HexCharValue(hex[2 * i - 1]) \in 0 .. 15 /\ HexCharValue(hex[2 * i]) \in 0 .. 15
        /\ HexChar(HexCharValue(hex[2 * i - 1])) = hex[2 * i - 1]
        /\ HexChar(HexCharValue(hex[2 * i])) = hex[2 * i]
    BY <1>2, <1>3
  <2>4. /\ Unhex(hex)[i] \div 16 = HexCharValue(hex[2 * i - 1])
        /\ Unhex(hex)[i] % 16 = HexCharValue(hex[2 * i])
    <3>1. Unhex(hex)[i] = 16 * HexCharValue(hex[2 * i - 1]) + HexCharValue(hex[2 * i])
      BY <1>4
    <3> QED BY <1>5, <2>3, <3>1
  <2> QED BY <2>1, <2>2, <2>3, <2>4
<1>10. DOMAIN Hex(Unhex(hex)) = 1 .. 2 * n /\ Hex(Unhex(hex)) \in Seq(Nat)
  BY <1>8, HexType
<1>11. DOMAIN hex = 1 .. 2 * n
  BY <1>1
<1> QED BY <1>8, <1>9, <1>10, <1>11

(* A name starts with the prefix of encoded names, or it does not.         *)
LEMMA Prefixed ==
    ASSUME NEW name \in Seq(Nat)
    PROVE  IsPrefix(ENCODED_PREFIX, name)
           <=> Len(name) >= 2 /\ name[1] = 120 /\ name[2] = 45
<1>1. ENCODED_PREFIX \in Seq(Nat) /\ Len(ENCODED_PREFIX) = 2
      /\ ENCODED_PREFIX[1] = 120 /\ ENCODED_PREFIX[2] = 45
  BY DEF ENCODED_PREFIX
<1>2. CASE Len(name) >= 2
  <2>1. SubSeq(name, 1, 2) = [k \in 1 .. 2 |-> name[k]]
    BY <1>2
  <2>2. SubSeq(ENCODED_PREFIX, 1, 2) = [k \in 1 .. 2 |-> ENCODED_PREFIX[k]]
    BY <1>1
  <2>3. 1 .. 2 = {1, 2}
    OBVIOUS
  <2>4. SubSeq(ENCODED_PREFIX, 1, 2) = SubSeq(name, 1, 2) <=> name[1] = 120 /\ name[2] = 45
    BY <1>1, <2>1, <2>2, <2>3
  <2> QED BY <1>1, <1>2, <2>4 DEF IsPrefix
<1>3. CASE ~(Len(name) >= 2)
  BY <1>1, <1>3 DEF IsPrefix
<1> QED BY <1>2, <1>3

(* What the prefix is put before follows it.                               *)
LEMMA PutPrefix ==
    ASSUME NEW hex \in Seq(Nat)
    PROVE  /\ ENCODED_PREFIX \o hex \in Seq(Nat)
           /\ Len(ENCODED_PREFIX \o hex) = 2 + Len(hex)
           /\ (ENCODED_PREFIX \o hex)[1] = 120 /\ (ENCODED_PREFIX \o hex)[2] = 45
           /\ \A k \in 1 .. Len(hex) : (ENCODED_PREFIX \o hex)[k + 2] = hex[k]
<1>1. PICK p \in Seq(Nat) : p = ENCODED_PREFIX /\ Len(p) = 2 /\ p[1] = 120 /\ p[2] = 45
  <2>1. ENCODED_PREFIX \in Seq(Nat) /\ Len(ENCODED_PREFIX) = 2
        /\ ENCODED_PREFIX[1] = 120 /\ ENCODED_PREFIX[2] = 45
    BY DEF ENCODED_PREFIX
  <2> QED BY <2>1
<1>2. Len(hex) \in Nat
  OBVIOUS
<1>3. PICK name : name = p \o hex
  OBVIOUS
<1>4. /\ name \in Seq(Nat) /\ Len(name) = Len(p) + Len(hex)
      /\ \A i \in 1 .. Len(p) + Len(hex) :
            name[i] = IF i <= Len(p) THEN p[i] ELSE hex[i - Len(p)]
  BY <1>3, ConcatProperties
<1>5. name[1] = 120 /\ name[2] = 45
  <2>1. /\ 1 \in 1 .. Len(p) + Len(hex) /\ 1 <= Len(p)
        /\ 2 \in 1 .. Len(p) + Len(hex) /\ 2 <= Len(p)
    BY <1>1, <1>2
  <2> QED BY <1>1, <1>4, <2>1
<1>6. ASSUME NEW k \in 1 .. Len(hex) PROVE name[k + 2] = hex[k]
  <2>1. /\ k + 2 \in 1 .. Len(p) + Len(hex) /\ ~(k + 2 <= Len(p))
        /\ (k + 2) - Len(p) = k
    BY <1>1, <1>2
  <2>2. name[k + 2] = hex[(k + 2) - Len(p)]
    BY <1>4, <2>1
  <2> QED BY <2>1, <2>2
<1>7. Len(name) = 2 + Len(hex)
  BY <1>1, <1>4
<1> QED BY <1>1, <1>3, <1>4, <1>5, <1>6, <1>7

(* Taking the prefix off again.                                            *)
LEMMA Encoded ==
    ASSUME NEW hex \in Seq(Nat), NEW name, name = ENCODED_PREFIX \o hex
    PROVE  /\ name \in Seq(Nat) /\ name # <<>> /\ IsPrefix(ENCODED_PREFIX, name)
           /\ SubSeq(name, Len(ENCODED_PREFIX) + 1, Len(name)) = hex
<1>1. PICK n \in Nat : n = Len(hex) /\ DOMAIN hex = 1 .. n
  OBVIOUS
<1>2. /\ name \in Seq(Nat) /\ Len(name) = 2 + Len(hex) /\ name[1] = 120 /\ name[2] = 45
      /\ \A k \in 1 .. Len(hex) : name[k + 2] = hex[k]
  BY PutPrefix
<1>3. Len(name) = n + 2 /\ \A k \in 1 .. n : name[k + 2] = hex[k]
  BY <1>1, <1>2
<1>4. name # <<>> /\ IsPrefix(ENCODED_PREFIX, name)
  <2>1. Len(name) >= 2 /\ Len(name) # 0
    BY <1>3
  <2> QED BY <1>2, <2>1, Prefixed
<1>5. SubSeq(name, 3, n + 2) = [k \in 1 .. n |-> name[k + 2]]
  BY <1>2, <1>3
<1>6. SubSeq(name, 3, n + 2) = hex
  BY <1>1, <1>3, <1>5
<1>7. Len(ENCODED_PREFIX) + 1 = 3
  BY DEF ENCODED_PREFIX
<1> QED BY <1>2, <1>3, <1>4, <1>6, <1>7

(* Every name with the prefix is of this form.                             *)
LEMMA EncodedOnly ==
    ASSUME NEW name \in Seq(Nat), IsPrefix(ENCODED_PREFIX, name),
           NEW hex, hex = SubSeq(name, Len(ENCODED_PREFIX) + 1, Len(name))
    PROVE  hex \in Seq(Nat) /\ name = ENCODED_PREFIX \o hex
<1>1. Len(name) >= 2 /\ name[1] = 120 /\ name[2] = 45
  BY Prefixed
<1>2. PICK n \in Nat : Len(name) = n + 2
  <2>1. Len(name) \in Nat /\ Len(name) - 2 \in Nat /\ Len(name) = (Len(name) - 2) + 2
    BY <1>1
  <2> QED BY <2>1
<1>3. Len(ENCODED_PREFIX) = 2
  BY DEF ENCODED_PREFIX
<1>4. hex = SubSeq(name, 3, n + 2)
  BY <1>2, <1>3
<1>5. hex \in Seq(Nat) /\ Len(hex) = n /\ \A k \in 1 .. n : hex[k] = name[k + 2]
  <2>1. \A i \in 3 .. (n + 2) : name[i] \in Nat
    <3>1. \A i \in 3 .. (n + 2) : i \in DOMAIN name
      BY <1>2
    <3> QED BY <3>1
  <2>2. 3 \in Int /\ n + 2 \in Int
    OBVIOUS
  <2>3. /\ hex \in Seq(Nat)
        /\ Len(hex) = IF 3 <= n + 2 THEN (n + 2) - 3 + 1 ELSE 0
        /\ \A k \in 1 .. (n + 2) - 3 + 1 : hex[k] = name[3 + k - 1]
    BY ONLY <1>4, <2>1, <2>2, SubSeqProperties
  <2>4. Len(hex) = n
    BY <2>3
  <2>5. ASSUME NEW k \in 1 .. n PROVE hex[k] = name[k + 2]
    <3>1. k \in 1 .. (n + 2) - 3 + 1 /\ 3 + k - 1 = k + 2
      OBVIOUS
    <3>2. hex[k] = name[3 + k - 1]
      BY <2>3, <3>1
    <3> QED BY <3>1, <3>2
  <2> QED BY <2>3, <2>4, <2>5
<1>6. PICK other : other = ENCODED_PREFIX \o hex
  OBVIOUS
<1>7. /\ other \in Seq(Nat) /\ Len(other) = 2 + Len(hex) /\ other[1] = 120 /\ other[2] = 45
      /\ \A k \in 1 .. Len(hex) : other[k + 2] = hex[k]
  <2>1. hex \in Seq(Nat)
    BY <1>5
  <2> QED BY ONLY <1>6, <2>1, PutPrefix
<1>8. Len(other) = n + 2 /\ \A k \in 1 .. n : other[k + 2] = name[k + 2]
  <2>1. Len(other) = n + 2
    BY <1>5, <1>7
  <2>2. ASSUME NEW k \in 1 .. n PROVE other[k + 2] = name[k + 2]
    <3>1. k \in 1 .. Len(hex)
      BY <1>5
    <3>2. other[k + 2] = hex[k]
      BY <1>7, <3>1
    <3> QED BY <1>5, <3>2
  <2> QED BY <2>1, <2>2
<1>9. \A k \in 1 .. (n + 2) : k = 1 \/ k = 2 \/ (k - 2 \in 1 .. n /\ (k - 2) + 2 = k)
  OBVIOUS
<1>10. ASSUME NEW k \in 1 .. (n + 2) PROVE other[k] = name[k]
  <2>1. CASE k = 1 \/ k = 2
    BY <1>1, <1>7, <2>1
  <2>2. CASE k - 2 \in 1 .. n /\ (k - 2) + 2 = k
    <3>1. other[(k - 2) + 2] = name[(k - 2) + 2]
      BY <1>8, <2>2
    <3> QED BY <2>2, <3>1
  <2> QED BY <1>9, <2>1, <2>2
<1>11. name = other
  <2>1. name \in Seq(Nat) /\ other \in Seq(Nat)
    BY <1>7
  <2>2. Len(name) = Len(other) /\ \A k \in 1 .. Len(name) : name[k] = other[k]
    BY <1>2, <1>8, <1>10
  <2> QED BY ONLY <2>1, <2>2, SeqEqual
<1> QED BY <1>5, <1>6, <1>11

(* Every account has a user name that authenticates as it.                 *)
LEMMA DecodeEncoded ==
    ASSUME NEW name \in Seq(Byte) PROVE DecodeName(EncodeName(name)) = name
<1>1. CASE name # <<>> /\ \A i \in DOMAIN name : IsSimpleChar(name[i])
  <2>1. EncodeName(name) = name
    BY <1>1 DEF EncodeName
  <2>2. ~IsPrefix(ENCODED_PREFIX, name)
    <3>1. name \in Seq(Nat)
      <4>1. \A i \in DOMAIN name : name[i] \in Byte
        OBVIOUS
      <4>2. \A v \in Byte : v \in Nat
        BY DEF Byte
      <4>3. \A i \in DOMAIN name : name[i] \in Nat
        BY <4>1, <4>2
      <4> QED BY <4>3
    <3>2. ASSUME Len(name) >= 2, name[2] = 45 PROVE FALSE
      <4>1. 2 \in DOMAIN name
        BY <3>2
      <4>2. IsSimpleChar(45)
        BY <1>1, <3>2, <4>1
      <4> QED BY <4>2 DEF IsSimpleChar, digits, letters
    <3> QED BY <3>1, <3>2, Prefixed
  <2> QED BY <1>1, <2>1, <2>2 DEF DecodeName
<1>2. CASE ~(name # <<>> /\ \A i \in DOMAIN name : IsSimpleChar(name[i]))
  <2>1. EncodeName(name) = ENCODED_PREFIX \o Hex(name)
    BY <1>2 DEF EncodeName
  <2>2. /\ Hex(name) \in Seq(Nat) /\ Len(Hex(name)) = 2 * Len(name)
        /\ DOMAIN Hex(name) = 1 .. 2 * Len(name)
        /\ \A k \in DOMAIN Hex(name) : IsHexChar(Hex(name)[k])
    BY HexType
  <2>3. /\ EncodeName(name) # <<>> /\ IsPrefix(ENCODED_PREFIX, EncodeName(name))
        /\ SubSeq(EncodeName(name), Len(ENCODED_PREFIX) + 1, Len(EncodeName(name)))
           = Hex(name)
    BY <2>1, <2>2, Encoded
  <2>4. DecodeName(EncodeName(name)) = DecodeHex(Hex(name))
    BY <2>3 DEF DecodeName
  <2>5. Len(Hex(name)) % 2 = 0
    <3>1. \A n \in Nat : (2 * n) % 2 = 0
      OBVIOUS
    <3> QED BY <2>2, <3>1
  <2>6. Hex(name) # <<>> => name # <<>>
    <3>1. name = <<>> => Len(Hex(name)) = 0
      BY <2>2
    <3> QED BY <2>2, <3>1
  <2>7. Unhex(Hex(name)) = name
    BY UnhexHex
  <2> QED BY <1>2, <2>2, <2>4, <2>5, <2>6, <2>7 DEF DecodeHex
<1> QED BY <1>1, <1>2

(* No other user name does: what is accepted is the encoding of an account *)
(* name.                                                                   *)
LEMMA EncodeDecoded ==
    ASSUME NEW name \in Seq(Nat), DecodeName(name) # NoAccount
    PROVE  name = EncodeName(DecodeName(name))
<1>1. name # <<>>
  BY DEF DecodeName
<1>2. CASE ~IsPrefix(ENCODED_PREFIX, name)
  <2>1. DecodeName(name) = name /\ \A i \in DOMAIN name : IsSimpleChar(name[i])
    BY <1>1, <1>2 DEF DecodeName
  <2> QED BY <1>1, <2>1 DEF EncodeName
<1>3. CASE IsPrefix(ENCODED_PREFIX, name)
  <2> DEFINE hex == SubSeq(name, Len(ENCODED_PREFIX) + 1, Len(name))
  <2>1. hex \in Seq(Nat) /\ name = ENCODED_PREFIX \o hex
    BY <1>3, EncodedOnly
  <2>2. DecodeName(name) = DecodeHex(hex)
    BY <1>1, <1>3 DEF DecodeName
  <2> HIDE DEF hex
  <2>3. /\ Len(hex) % 2 = 0
        /\ \A k \in DOMAIN hex : IsHexChar(hex[k])
        /\ hex # <<>> => \E i \in DOMAIN Unhex(hex) : ~IsSimpleChar(Unhex(hex)[i])
        /\ DecodeHex(hex) = Unhex(hex)
    BY <2>2 DEF DecodeHex
  <2>4. Unhex(hex) \in Seq(Byte) /\ Hex(Unhex(hex)) = hex
    BY <2>1, <2>3, HexUnhex
  <2>5. Unhex(hex) # <<>> => hex # <<>>
    <3>1. Len(hex) = 2 * Len(Unhex(hex))
      BY <2>4, HexType
    <3>2. hex = <<>> => Len(Unhex(hex)) = 0
      BY <2>4, <3>1
    <3> QED BY <2>4, <3>2
  <2>6. ~(Unhex(hex) # <<>> /\ \A i \in DOMAIN Unhex(hex) : IsSimpleChar(Unhex(hex)[i]))
    BY <2>3, <2>5
  <2>7. EncodeName(Unhex(hex)) = ENCODED_PREFIX \o Hex(Unhex(hex))
    BY <2>6 DEF EncodeName
  <2> QED BY <2>1, <2>2, <2>3, <2>4, <2>7
<1> QED BY <1>2, <1>3

-----------------------------------------------------------------------------
(* The theorem about them *)

(* Names of bounded length are sequences.                                  *)
LEMMA ShortNames ==
    ASSUME NEW n, NEW name \in ShortName(n)
    PROVE  name \in Seq(Byte) /\ name \in Seq(Nat)
<1>1. PICK m \in 0 .. n : name \in [1 .. m -> Char]
  BY DEF ShortName, SeqOf
<1>2. \A v \in Byte : v \in Nat
  BY DEF Byte
<1>3. name \in [1 .. m -> Byte] /\ name \in [1 .. m -> Nat]
  BY <1>1, <1>2, ConversionsAssumption DEF Byte
<1>4. CASE m \in Nat
  BY <1>3, <1>4
<1>5. m \in Nat
  OBVIOUS
<1> QED BY <1>4, <1>5

(* A query is about one conversion.                                        *)
LEMMA OtherQueries ==
    /\ AuthenticateJid => query'.op = "jid"
    /\ AuthenticateAccount => query'.op = "account"
    /\ ConvertOrder => query'.op = "order"
    /\ ShowBook => query'.op = "book"
    /\ ShowOwnOrders => query'.op = "own"
    /\ SplitAsset => query'.op = "asset"
<1>1. ASSUME NEW op, NEW in, NEW out, Do(op, in, out) PROVE query'.op = op
  BY <1>1 DEF Do
<1>2. ConvertOrder => \E in, out : Do("order", in, out)
  BY Zenon DEF ConvertOrder
<1>3. ShowBook => \E in, out : Do("book", in, out)
  BY Zenon DEF ShowBook
<1>4. ShowOwnOrders => \E in, out : Do("own", in, out)
  BY Zenon DEF ShowOwnOrders
<1>5. SplitAsset => \E in, out : Do("asset", in, out)
  BY Zenon DEF SplitAsset
<1>6. AuthenticateJid => \E in, out : Do("jid", in, out)
  BY Zenon DEF AuthenticateJid
<1>7. AuthenticateAccount => \E in, out : Do("account", in, out)
  BY Zenon DEF AuthenticateAccount
<1> QED BY <1>1, <1>2, <1>3, <1>4, <1>5, <1>6, <1>7

(* User names on a trusted server and accounts correspond one to one,      *)
(* whatever the length of the names: what Authenticate accepts is the      *)
(* encoding of exactly the account that it returns, and every account has  *)
(* an encoding that it accepts.                                            *)
THEOREM AccountsAreUnique == Spec => []AccountIsUnique
<1>1. Init => AccountIsUnique
  BY DEF Init, AccountIsUnique
<1>2. AccountIsUnique /\ [Next]_query => AccountIsUnique'
  <2> SUFFICES ASSUME AccountIsUnique, [Next]_query PROVE AccountIsUnique'
    OBVIOUS
  <2>1. CASE UNCHANGED query
    BY <2>1 DEF AccountIsUnique
  <2>2. CASE AuthenticateJid
    <3>1. PICK name \in ShortName(MaxName), server \in {"xid", "other"} :
            query' = [op |-> "jid", in |-> [username |-> name, server |-> server],
                      out |-> Authenticate([username |-> name, server |-> server])]
      BY <2>2 DEF AuthenticateJid, Do
    <3>2. name \in Seq(Nat)
      BY ShortNames
    <3>3. Authenticate([username |-> name, server |-> server])
          = IF server \in xidServers THEN DecodeName(name) ELSE NoAccount
      BY DEF Authenticate
    <3>4. /\ query'.op = "jid" /\ query'.in.server = server /\ query'.in.username = name
          /\ query'.out = IF server \in xidServers THEN DecodeName(name) ELSE NoAccount
      BY <3>1, <3>3
    <3>5. query'.out # NoAccount => server \in xidServers /\ query'.out = DecodeName(name)
      BY <3>4
    <3> QED BY <3>2, <3>4, <3>5, EncodeDecoded DEF AccountIsUnique
  <2>3. CASE AuthenticateAccount
    <3>1. PICK name \in ShortName(MaxAccount) :
            query' = [op |-> "account", in |-> name,
                      out |-> Authenticate([username |-> EncodeName(name),
                                            server |-> "xid"])]
      BY <2>3 DEF AuthenticateAccount, Do
    <3>2. Authenticate([username |-> EncodeName(name), server |-> "xid"])
          = DecodeName(EncodeName(name))
      BY ConversionsAssumption DEF Authenticate
    <3>3. DecodeName(EncodeName(name)) = name
      BY ShortNames, DecodeEncoded
    <3>4. query'.op = "account" /\ query'.out = query'.in
      BY <3>1, <3>2, <3>3
    <3> QED BY <3>4 DEF AccountIsUnique
  <2>4. CASE ConvertOrder \/ ShowBook \/ ShowOwnOrders \/ SplitAsset
    BY <2>4, OtherQueries DEF AccountIsUnique
  <2> QED BY <2>1, <2>2, <2>3, <2>4 DEF Next
<1> QED BY <1>1, <1>2, PTL DEF Spec

-----------------------------------------------------------------------------
(* Orders *)

(* Signed keeps the numbers that fit, and makes the others negative.       *)
LEMMA SignedNumber ==
    ASSUME NEW n \in Units
    PROVE  /\ n \in Int /\ 0 <= n /\ Signed(n) \in Int /\ Signed(n) <= n
           /\ n < Limit => Signed(n) = n
           /\ ~(n < Limit) => Signed(n) < 0
<1>1. PICK L \in Nat : L = Limit
  BY LimitAssumption
<1>2. n \in 0 .. 2 * L - 1
  BY <1>1 DEF Units
<1> QED BY <1>1, <1>2 DEF Signed

(* The JSON object of a valid order, member by member.                     *)
LEMMA ObjectOfOrder ==
    ASSUME NEW o \in Order, UnitsValid(o), o.price_sat # Unset
    PROVE  /\ OrderToJson(o) \in OrderObject
           /\ OrderToJson(o).id = (IF o.id = Unset THEN Unset ELSE Signed(o.id))
           /\ OrderToJson(o).min_units = (IF o.min_units = Unset THEN 1
                                          ELSE Signed(o.min_units))
           /\ OrderToJson(o).max_units = Signed(o.max_units)
           /\ OrderToJson(o).price_sat = Signed(o.price_sat)
           /\ OrderToJson(o).type = o.type /\ OrderToJson(o).account = o.account
           /\ OrderToJson(o).asset = o.asset
           /\ o.max_units # Unset
<1>1. /\ o.min_units \in Units \cup {Unset} /\ o.max_units \in Units \cup {Unset}
      /\ o.price_sat \in Units \cup {Unset} /\ o.id \in {Unset, 1, Limit}
      /\ o.account = Unset /\ o.asset = 1 /\ o.type \in {"ask", "bid"}
  BY DEF Order, Number
<1>2. o.max_units \in Units /\ o.max_units # 0 /\ o.price_sat \in Units
  BY <1>1 DEF UnitsValid, Get
<1>3. Signed(1) = 1 /\ Signed(0) = 0
  BY LimitAssumption DEF Signed
<1>4. o.max_units >= Max2(1, Signed(Get(o.min_units, 0)))
  <2>1. o.max_units \in Int /\ o.max_units >= 1
    BY <1>2, SignedNumber
  <2>2. CASE o.min_units = Unset
    BY <1>3, <2>1, <2>2 DEF Get, Max2
  <2>3. CASE o.min_units # Unset
    <3>1. o.min_units \in Units /\ o.min_units <= o.max_units
      BY <1>1, <2>3 DEF UnitsValid
    <3>2. Signed(o.min_units) \in Int /\ o.min_units \in Int
          /\ Signed(o.min_units) <= o.min_units
      BY <3>1, SignedNumber
    <3>3. Signed(o.min_units) <= o.max_units
      BY <2>1, <3>1, <3>2
    <3> QED BY <2>1, <2>3, <3>2, <3>3 DEF Get, Max2
  <2> QED BY <2>2, <2>3
<1>5. o.max_units # Unset /\ Get(o.max_units, 0) = o.max_units
  BY <1>2, SignedNumber, OrderJsonAssumption DEF Get
<1>6. Get(o.price_sat, 0) = o.price_sat
  BY DEF Get
<1> DEFINE id == IF o.id = Unset THEN Unset ELSE Signed(o.id)
           min == IF o.min_units = Unset THEN 1 ELSE Signed(o.min_units)
           locked == IF o.locked = TRUE THEN TRUE ELSE Unset
<1>7. OrderToJson(o) = [o EXCEPT !.id = id, !.min_units = min,
                                 !.max_units = Signed(o.max_units),
                                 !.price_sat = Signed(o.price_sat), !.locked = locked]
  BY <1>3, <1>4, <1>5, <1>6 DEF OrderToJson, MapSet, IntToJson
<1>8. /\ OrderToJson(o) \in [account : {Unset}, id : {id}, asset : {1}, min_units : {min},
                             max_units : {Signed(o.max_units)},
                             price_sat : {Signed(o.price_sat)}, type : {o.type},
                             locked : {locked}]
  BY <1>1, <1>7 DEF Order
<1>9. id \in Int \cup {Unset}
  <2>1. 1 \in Units /\ Limit \in Units
    BY LimitAssumption DEF Units
  <2> QED BY <1>1, <2>1, SignedNumber
<1>10. min \in Int
  BY <1>1, SignedNumber
<1>11. Signed(o.max_units) \in Int /\ Signed(o.price_sat) \in Int
  BY <1>2, SignedNumber
<1>12. locked \in {Unset, TRUE}
  OBVIOUS
<1> HIDE DEF id, min, locked
<1>13. OrderToJson(o) \in OrderObject
  BY <1>1, <1>8, <1>9, <1>10, <1>11, <1>12 DEF OrderObject
<1>14. /\ OrderToJson(o).id = id /\ OrderToJson(o).min_units = min
       /\ OrderToJson(o).max_units = Signed(o.max_units)
       /\ OrderToJson(o).price_sat = Signed(o.price_sat)
       /\ OrderToJson(o).type = o.type /\ OrderToJson(o).account = o.account
       /\ OrderToJson(o).asset = o.asset
  BY <1>1, <1>8
<1> QED BY <1>5, <1>13, <1>14 DEF id, min

(* What comes back is the same order, but for the lock, or it is refused.  *)
(* It is refused only if a number does not fit.                            *)
LEMMA RoundTrip ==
    ASSUME NEW o \in Order, UnitsValid(o), o.price_sat # Unset
    PROVE  /\ OrderFromJson(OrderToJson(o)) \in {Normalised(o), Invalid}
           /\ (\A n \in Numbers(o) : n < Limit)
                 => OrderFromJson(OrderToJson(o)) # Invalid
<1>1. PICK j \in OrderObject :
        /\ j = OrderToJson(o)
        /\ j.id = (IF o.id = Unset THEN Unset ELSE Signed(o.id))
        /\ j.min_units = (IF o.min_units = Unset THEN 1 ELSE Signed(o.min_units))
        /\ j.max_units = Signed(o.max_units) /\ j.price_sat = Signed(o.price_sat)
        /\ j.type = o.type /\ j.account = o.account /\ j.asset = o.asset
        /\ o.max_units # Unset
  BY ObjectOfOrder
<1>2. /\ o.min_units \in Units \cup {Unset} /\ o.id \in Units \cup {Unset}
      /\ o.max_units \in Units /\ o.price_sat \in Units
      /\ o.account = Unset /\ o.asset = 1 /\ o.type \in {"ask", "bid"}
  <2>1. 1 \in Units /\ Limit \in Units
    BY LimitAssumption DEF Units
  <2> QED BY <1>1, <2>1 DEF Order, Number
<1>3. \A n \in Units : /\ n \in Int /\ n >= 0 /\ Signed(n) \in Int
                       /\ n < Limit => Signed(n) = n
                       /\ ~(n < Limit) => ~(Signed(n) >= 0)
  BY SignedNumber
<1> DEFINE Accepted == /\ \A v \in {j.id, j.min_units} : v = Unset \/ IsUInt64(v)
                       /\ IsUInt64(j.max_units) /\ IsUInt64(j.price_sat)
                       /\ j.type \in {Unset, "ask", "bid"}
<1>4. OrderFromJson(j) = IF Accepted THEN [j EXCEPT !.locked = Unset] ELSE Invalid
  BY DEF OrderFromJson
<1>5. [j EXCEPT !.locked = Unset] \in OrderObject
  BY DEF OrderObject
<1>6. ASSUME Accepted PROVE [j EXCEPT !.locked = Unset] = Normalised(o)
  <2>1. j.id = o.id
    <3>1. CASE o.id = Unset
      BY <1>1, <3>1
    <3>2. CASE o.id # Unset
      <4>1. o.id \in Units /\ j.id = Signed(o.id) /\ (j.id = Unset \/ j.id >= 0)
        BY <1>1, <1>2, <1>6, <3>2 DEF IsUInt64
      <4>2. j.id \in Int /\ j.id # Unset
        BY <1>3, <4>1, OrderJsonAssumption
      <4> QED BY <1>3, <4>1, <4>2
    <3> QED BY <3>1, <3>2
  <2>2. j.min_units = Get(o.min_units, 1)
    <3>1. CASE o.min_units = Unset
      BY <1>1, <3>1 DEF Get
    <3>2. CASE o.min_units # Unset
      <4>1. /\ o.min_units \in Units /\ j.min_units = Signed(o.min_units)
            /\ j.min_units = Unset \/ j.min_units >= 0
        BY <1>1, <1>2, <1>6, <3>2 DEF IsUInt64
      <4>2. j.min_units \in Int /\ j.min_units # Unset
        BY <1>3, <4>1, OrderJsonAssumption
      <4>3. j.min_units = o.min_units
        BY <1>3, <4>1, <4>2
      <4> QED BY <3>2, <4>3 DEF Get
    <3> QED BY <3>1, <3>2
  <2>3. j.max_units = o.max_units /\ j.price_sat = Get(o.price_sat, 0)
    <3>1. j.max_units >= 0 /\ j.price_sat >= 0
      BY <1>6 DEF IsUInt64
    <3> QED BY <1>1, <1>2, <1>3, <3>1 DEF Get
  <2> DEFINE R == [account : {o.account}, id : {o.id}, asset : {o.asset},
                   min_units : {Get(o.min_units, 1)}, max_units : {o.max_units},
                   price_sat : {Get(o.price_sat, 0)}, type : {o.type}, locked : {Unset}]
  <2>4. [j EXCEPT !.locked = Unset] \in R
    BY <1>1, <2>1, <2>2, <2>3 DEF OrderObject
  <2>5. Normalised(o) \in R
    BY DEF Normalised, Order
  <2>6. \A x, y \in R : x = y
    OBVIOUS
  <2> HIDE DEF R
  <2> QED BY <2>4, <2>5, <2>6
<1>7. ASSUME \A n \in Numbers(o) : n < Limit PROVE Accepted
  <2>1. /\ o.max_units < Limit /\ o.price_sat < Limit
        /\ o.id # Unset => o.id < Limit
        /\ o.min_units # Unset => o.min_units < Limit
    BY <1>1, <1>7 DEF Numbers
  <2>2. /\ j.max_units \in Int /\ j.max_units >= 0
        /\ j.price_sat \in Int /\ j.price_sat >= 0
    BY <1>1, <1>2, <1>3, <2>1
  <2>3. j.id = Unset \/ (j.id \in Int /\ j.id >= 0)
    BY <1>1, <1>2, <1>3, <2>1
  <2>4. j.min_units \in Int /\ j.min_units >= 0
    BY <1>1, <1>2, <1>3, <2>1
  <2>5. j.type \in {Unset, "ask", "bid"}
    BY <1>1, <1>2
  <2> QED BY <2>2, <2>3, <2>4, <2>5, OrderJsonAssumption DEF IsUInt64
<1> HIDE DEF Accepted
<1> QED BY <1>1, <1>4, <1>5, <1>6, <1>7, ConversionsAssumption

(* A valid order never fails the CHECK when it is shown, and comes back as *)
(* the same order, with integers of any width; a number that does not fit  *)
(* is refused, and never changed silently.                                 *)
THEOREM OrdersRoundTrip == Spec => []OrderRoundTrip
<1>1. Init => OrderRoundTrip
  BY DEF Init, OrderRoundTrip
<1>2. OrderRoundTrip /\ [Next]_query => OrderRoundTrip'
  <2> SUFFICES ASSUME OrderRoundTrip, [Next]_query PROVE OrderRoundTrip'
    OBVIOUS
  <2>1. CASE UNCHANGED query
    BY <2>1 DEF OrderRoundTrip
  <2>2. CASE ConvertOrder
    <3>1. PICK o \in Order :
            /\ UnitsValid(o) /\ o.price_sat # Unset
            /\ Do("order", o, IF OrderToJson(o) = Invalid THEN [json |-> Invalid]
                              ELSE [json |-> OrderToJson(o),
                                    back |-> OrderFromJson(OrderToJson(o))])
      BY <2>2 DEF ConvertOrder, ValidateOrder
    <3>2. OrderToJson(o) # Invalid
      BY <3>1, ObjectOfOrder, ConversionsAssumption
    <3>3. /\ query'.op = "order" /\ query'.in = o
          /\ query'.out.json = OrderToJson(o)
          /\ query'.out.back = OrderFromJson(OrderToJson(o))
      BY <3>1, <3>2 DEF Do
    <3>4. /\ OrderFromJson(OrderToJson(o)) \in {Normalised(o), Invalid}
          /\ (\A n \in Numbers(o) : n < Limit) => OrderFromJson(OrderToJson(o)) # Invalid
      BY <3>1, RoundTrip
    <3> QED BY <3>2, <3>3, <3>4 DEF OrderRoundTrip
  <2>3. CASE AuthenticateJid \/ AuthenticateAccount \/ ShowBook \/ ShowOwnOrders \/ SplitAsset
    BY <2>3, OtherQueries DEF OrderRoundTrip
  <2> QED BY <2>1, <2>2, <2>3 DEF Next
<1> QED BY <1>1, <1>2, PTL DEF Spec

-----------------------------------------------------------------------------
(* Assets *)

(* A set of numbers has a least element.                                   *)
LEMMA LeastNumber ==
    ASSUME NEW T \in SUBSET Nat, T # {} PROVE \E p \in T : \A k \in T : p <= k
<1>1. PICK R : R = OpToRel(<, Nat) /\ IsWellFoundedOn(R, Nat)
  BY NatLessThanWellFounded, Zenon
<1>2. PICK p \in T : \A k \in T : ~(<<k, p>> \in R)
  BY <1>1, WFMin
<1>3. \A k \in T : k < p => <<k, p>> \in R
  BY <1>1, Zenon DEF OpToRel
<1>4. \A k \in T : ~(k < p)
  BY <1>2, <1>3
<1>5. p \in Int /\ \A k \in T : k \in Int
  OBVIOUS
<1>6. \A k \in T : p <= k
  BY <1>4, <1>5
<1> QED BY <1>6

(* The newline that is chosen is the first one.                            *)
LEMMA FirstSeparator ==
    ASSUME NEW S, NEW str \in Seq(S), NEW n \in Nat, n = Len(str),
           \E i \in DOMAIN str : str[i] = newline
    PROVE  /\ Nf!Separator(str) \in 1 .. n /\ str[Nf!Separator(str)] = newline
           /\ \A k \in 1 .. Nf!Separator(str) - 1 : str[k] # newline
<1> DEFINE T == {i \in 1 .. n : str[i] = newline}
<1>1. DOMAIN str = 1 .. n
  OBVIOUS
<1>2. T \in SUBSET Nat /\ T # {}
  BY <1>1
<1>3. PICK p \in T : \A k \in T : p <= k
  BY <1>2, LeastNumber
<1>4. p \in 1 .. n /\ str[p] = newline
  BY <1>3
<1>5. \A k \in 1 .. p - 1 : str[k] # newline
  <2> SUFFICES ASSUME NEW k \in 1 .. p - 1, str[k] = newline PROVE FALSE
    OBVIOUS
  <2>1. k \in 1 .. n /\ ~(p <= k)
    BY <1>4
  <2> QED BY <1>3, <2>1
<1>6. \E i \in DOMAIN str : str[i] = newline /\ \A k \in 1 .. i - 1 : str[k] # newline
  BY <1>1, <1>4, <1>5
<1>7. /\ Nf!Separator(str) \in DOMAIN str /\ str[Nf!Separator(str)] = newline
      /\ \A k \in 1 .. Nf!Separator(str) - 1 : str[k] # newline
  BY <1>6, Zenon DEF Nf!Separator
<1> QED BY <1>1, <1>7

(* What is before and after an element of a sequence makes up the rest.    *)
LEMMA SplitAt ==
    ASSUME NEW S, NEW s \in Seq(S), NEW n \in Nat, n = Len(s), NEW p \in 1 .. n
    PROVE  LET m == SubSeq(s, 1, p - 1) a == SubSeq(s, p + 1, n) IN
           /\ m \in Seq(S) /\ Len(m) = p - 1 /\ \A k \in 1 .. p - 1 : m[k] = s[k]
           /\ m \o <<s[p]>> \o a = s
<1>1. PICK m : m = SubSeq(s, 1, p - 1)
  OBVIOUS
<1>2. PICK a : a = SubSeq(s, p + 1, n)
  OBVIOUS
<1>3. m \in Seq(S) /\ Len(m) = p - 1 /\ \A k \in 1 .. p - 1 : m[k] = s[k]
  BY <1>1
<1>4. a \in Seq(S) /\ Len(a) = n - p /\ \A k \in 1 .. n - p : a[k] = s[k + p]
  BY <1>2
<1>5. PICK e \in Seq(S) : e = <<s[p]>> /\ Len(e) = 1 /\ e[1] = s[p]
  <2>1. <<s[p]>> \in Seq(S) /\ Len(<<s[p]>>) = 1 /\ <<s[p]>>[1] = s[p]
    OBVIOUS
  <2> QED BY <2>1, Zenon
<1>6. PICK me \in Seq(S) : /\ me = m \o e /\ Len(me) = p
                           /\ \A k \in 1 .. p : me[k] = s[k]
  <2>1. /\ m \o e \in Seq(S) /\ Len(m \o e) = Len(m) + Len(e)
        /\ \A k \in 1 .. Len(m) + Len(e) :
              (m \o e)[k] = IF k <= Len(m) THEN m[k] ELSE e[k - Len(m)]
    BY ONLY <1>3, <1>5, ConcatProperties
  <2>2. \A k \in 1 .. p : (m \o e)[k] = IF k <= p - 1 THEN m[k] ELSE e[k - (p - 1)]
    BY <1>3, <1>5, <2>1
  <2>3. ASSUME NEW k \in 1 .. p PROVE (m \o e)[k] = s[k]
    <3>1. CASE k <= p - 1
      BY <1>3, <2>2, <3>1
    <3>2. CASE ~(k <= p - 1)
      <4>1. k = p /\ k - (p - 1) = 1
        BY <3>2
      <4> QED BY <1>5, <2>2, <3>2, <4>1
    <3> QED BY <3>1, <3>2
  <2>4. Len(m \o e) = p
    BY <1>3, <1>5, <2>1
  <2> QED BY <2>1, <2>3, <2>4
<1>7. PICK all \in Seq(S) : /\ all = me \o a /\ Len(all) = n
                            /\ \A k \in 1 .. n : all[k] = s[k]
  <2>1. /\ me \o a \in Seq(S) /\ Len(me \o a) = Len(me) + Len(a)
        /\ \A k \in 1 .. Len(me) + Len(a) :
              (me \o a)[k] = IF k <= Len(me) THEN me[k] ELSE a[k - Len(me)]
    <3>1. me \in Seq(S) /\ a \in Seq(S)
      BY <1>4, <1>6
    <3> QED BY ONLY <3>1, ConcatProperties
  <2>2. Len(me \o a) = n /\ \A k \in 1 .. n :
              (me \o a)[k] = IF k <= p THEN me[k] ELSE a[k - p]
    BY <1>4, <1>6, <2>1
  <2>3. ASSUME NEW k \in 1 .. n PROVE (me \o a)[k] = s[k]
    <3>1. CASE k <= p
      BY <1>6, <2>2, <3>1
    <3>2. CASE ~(k <= p)
      <4>1. k - p \in 1 .. n - p /\ (k - p) + p = k
        BY <3>2
      <4>2. a[k - p] = s[(k - p) + p]
        BY <1>4, <4>1
      <4> QED BY <2>2, <3>2, <4>1, <4>2
    <3> QED BY <3>1, <3>2
  <2> QED BY <2>1, <2>2, <2>3
<1>8. all = s
  BY <1>7, SeqEqual
<1> QED BY <1>1, <1>2, <1>3, <1>5, <1>6, <1>7, <1>8

(* An asset is split where it has to be, for strings of any length.        *)
LEMMA AssetParts ==
    ASSUME NEW S, NEW str \in Seq(S), newline \in Range(str)
    PROVE  LET asset == Nf!GetNfAsset(str) IN
           newline \notin Range(asset.m) /\ asset.m \o <<newline>> \o asset.a = str
<1>1. PICK n \in Nat : n = Len(str) /\ DOMAIN str = 1 .. n
  OBVIOUS
<1>2. \E i \in DOMAIN str : str[i] = newline
  BY DEF Range
<1>3. PICK p \in 1 .. n : /\ p = Nf!Separator(str) /\ str[p] = newline
                          /\ \A k \in 1 .. p - 1 : str[k] # newline
  BY <1>1, <1>2, FirstSeparator
<1>4. PICK m : m = SubSeq(str, 1, p - 1)
  OBVIOUS
<1>5. PICK a : a = SubSeq(str, p + 1, n)
  OBVIOUS
<1>6. /\ m \in Seq(S) /\ Len(m) = p - 1 /\ \A k \in 1 .. p - 1 : m[k] = str[k]
      /\ m \o <<str[p]>> \o a = str
  BY <1>1, <1>4, <1>5, SplitAt
<1>7. newline \notin Range(m)
  <2>1. DOMAIN m = 1 .. p - 1
    BY <1>6
  <2> QED BY <1>3, <1>6, <2>1 DEF Range
<1>8. Nf!GetNfAsset(str) = [m |-> m, a |-> a]
  BY <1>1, <1>2, <1>3, <1>4, <1>5 DEF Nf!GetNfAsset
<1>9. Nf!GetNfAsset(str).m = m /\ Nf!GetNfAsset(str).a = a
  BY <1>8
<1> QED BY <1>3, <1>6, <1>7, <1>9

(* GetNfAsset splits the string of an asset at the first newline and loses *)
(* nothing, and GetTransferMove is about the same asset.                   *)
THEOREM AssetsAreSplit == Spec => []AssetIsSplit
<1>1. Init => AssetIsSplit
  BY DEF Init, AssetIsSplit
<1>2. AssetIsSplit /\ [Next]_query => AssetIsSplit'
  <2> SUFFICES ASSUME AssetIsSplit, [Next]_query PROVE AssetIsSplit'
    OBVIOUS
  <2>1. CASE UNCHANGED query
    BY <2>1 DEF AssetIsSplit
  <2>2. CASE SplitAsset
    <3>1. PICK str \in SeqOf({newline, "a", "b"}, MaxAsset) :
            Do("asset", str, [asset |-> Nf!GetNfAsset(str),
                              move |-> Nf!GetTransferMove(str, 1, "buyer")])
      BY <2>2 DEF SplitAsset
    <3>2. str \in Seq({newline, "a", "b"})
      <4>1. PICK k \in 0 .. MaxAsset : str \in [1 .. k -> {newline, "a", "b"}]
        BY DEF SeqOf
      <4>2. k \in Nat
        OBVIOUS
      <4> QED BY <4>1, <4>2
    <3>3. Nf!GetTransferMove(str, 1, "buyer").t.a = Nf!GetNfAsset(str)
      BY DEF Nf!GetTransferMove
    <3>4. /\ query'.op = "asset" /\ query'.in = str
          /\ query'.out.asset = Nf!GetNfAsset(str)
          /\ query'.out.move.t.a = Nf!GetNfAsset(str)
      BY <3>1, <3>3 DEF Do
    <3>5. CASE newline \in Range(str)
      <4>1. /\ newline \notin Range(Nf!GetNfAsset(str).m)
            /\ Nf!GetNfAsset(str).m \o <<newline>> \o Nf!GetNfAsset(str).a = str
        BY <3>2, <3>5, AssetParts
      <4> QED BY <3>4, <3>5, <4>1 DEF AssetIsSplit
    <3>6. CASE newline \notin Range(str)
      <4>1. Nf!GetNfAsset(str) = null
        BY <3>6 DEF Nf!GetNfAsset, Range
      <4> QED BY <3>4, <3>6, <4>1 DEF AssetIsSplit
    <3> QED BY <3>5, <3>6
  <2>3. CASE AuthenticateJid \/ AuthenticateAccount \/ ConvertOrder \/ ShowBook
             \/ ShowOwnOrders
    BY <2>3, OtherQueries DEF AssetIsSplit
  <2> QED BY <2>1, <2>2, <2>3 DEF Next
<1> QED BY <1>1, <1>2, PTL DEF Spec

-----------------------------------------------------------------------------
(* Sorting finite sets *)

(* Induction over the subsets of a finite set: among counterexamples, one  *)
(* is such that none is left when one of its elements is removed.          *)
LEMMA LeastSet ==
    ASSUME NEW U, IsFiniteSet(U), NEW B \in SUBSET (SUBSET U), B # {}
    PROVE  \E m \in B : \A x \in m : m \ {x} \notin B
<1> DEFINE T == {Cardinality(s) : s \in B}
<1>1. \A s \in SUBSET U : IsFiniteSet(s) /\ Cardinality(s) \in Nat
  BY FS_Subset, FS_CardinalityType
<1>2. T \in SUBSET Nat /\ T # {}
  BY <1>1
<1> HIDE DEF T
<1>3. PICK p \in T : \A k \in T : p <= k
  BY <1>2, LeastNumber
<1>4. PICK m \in B : p = Cardinality(m)
  BY DEF T
<1>5. ASSUME NEW x \in m, m \ {x} \in B PROVE FALSE
  <2>1. Cardinality(m \ {x}) = p - 1
    BY <1>1, <1>4, FS_RemoveElement
  <2>2. Cardinality(m \ {x}) \in T
    BY <1>5 DEF T
  <2>3. p \in Nat
    BY <1>2
  <2> QED BY <2>1, <2>2, <2>3, <1>3
<1> QED BY <1>5

(* The pairs in R are a strict total order of U.                           *)
Orders(R, U) ==
    /\ \A x, y \in U : <<x, y>> \in R => <<y, x>> \notin R
    /\ \A x, y, z \in U : <<x, y>> \in R /\ <<y, z>> \in R => <<x, z>> \in R
    /\ \A x, y \in U : x # y => <<x, y>> \in R \/ <<y, x>> \in R

(* The ways to sort S by R.                                                *)
Sorted(R, S) ==
    {s \in [1 .. Cardinality(S) -> S] :
        /\ Range(s) = S
        /\ \A i, j \in DOMAIN s : i < j => <<s[j], s[i]>> \notin R}

(* A finite set that is not empty has a last element.                      *)
LEMMA LastElement ==
    ASSUME NEW U, IsFiniteSet(U), NEW R, Orders(R, U), NEW S \in SUBSET U, S # {}
    PROVE  \E x \in S : \A y \in S : <<x, y>> \notin R
<1> DEFINE B == {s \in SUBSET U : s # {} /\ ~\E x \in s : \A y \in s : <<x, y>> \notin R}
<1>1. B = {}
  <2> SUFFICES ASSUME B # {} PROVE FALSE
    OBVIOUS
  <2>1. PICK m \in B : \A x \in m : m \ {x} \notin B
    BY LeastSet
  <2>2. PICK a \in m : TRUE
    OBVIOUS
  <2>3. a \in U /\ <<a, a>> \notin R
    BY DEF Orders
  <2>4. m \ {a} # {}
    BY <2>3
  <2>5. PICK x \in m \ {a} : \A y \in m \ {a} : <<x, y>> \notin R
    BY <2>1, <2>4
  <2>6. CASE <<x, a>> \notin R
    BY <2>5, <2>6
  <2>7. CASE <<x, a>> \in R
    <3>1. ASSUME NEW y \in m, <<a, y>> \in R PROVE FALSE
      <4>1. y # a /\ <<x, y>> \in R
        BY <2>3, <2>7, <3>1 DEF Orders
      <4> QED BY <4>1, <2>5
    <3> QED BY <3>1
  <2> QED BY <2>6, <2>7
<1> QED BY <1>1

(* A finite set can be sorted.                                             *)
LEMMA SortedExists ==
    ASSUME NEW U, IsFiniteSet(U), NEW R, Orders(R, U), NEW S \in SUBSET U
    PROVE  Sorted(R, S) # {}
<1> DEFINE B == {s \in SUBSET U : Sorted(R, s) = {}}
<1>1. B = {}
  <2> SUFFICES ASSUME B # {} PROVE FALSE
    OBVIOUS
  <2>1. PICK m \in B : \A x \in m : m \ {x} \notin B
    BY LeastSet
  <2>2. m # {}
    <3> DEFINE e == [i \in 1 .. 0 |-> i]
    <3>1. Cardinality({}) = 0
      BY FS_EmptySet
    <3>2. e \in [1 .. 0 -> {}] /\ Range(e) = {} /\ DOMAIN e = {}
      BY DEF Range
    <3>3. e \in Sorted(R, {})
      BY <3>1, <3>2 DEF Sorted
    <3> QED BY <3>3
  <2>3. PICK x \in m : \A y \in m : <<x, y>> \notin R
    BY <2>2, LastElement
  <2>4. IsFiniteSet(m)
    BY FS_Subset
  <2>5. PICK n \in Nat : n = Cardinality(m) /\ n > 0
    BY <2>2, <2>4, FS_CardinalityType, FS_EmptySet
  <2>6. Cardinality(m \ {x}) = n - 1
    BY <2>4, <2>5, FS_RemoveElement
  <2>7. PICK s : s \in Sorted(R, m \ {x})
    BY <2>1
  <2>8. /\ s \in [1 .. n - 1 -> m \ {x}]
        /\ \A z \in m \ {x} : \E i \in 1 .. n - 1 : s[i] = z
        /\ \A i, j \in 1 .. n - 1 : i < j => <<s[j], s[i]>> \notin R
    BY <2>6, <2>7 DEF Sorted, Range
  <2>9. PICK t : t = [i \in 1 .. n |-> IF i = n THEN x ELSE s[i]]
    OBVIOUS
  <2>10. \A i \in 1 .. n : i = n \/ i \in 1 .. n - 1
    BY <2>5
  <2>11. t \in [1 .. n -> m]
    BY <2>8, <2>9, <2>10
  <2>12. ASSUME NEW z \in m PROVE \E i \in 1 .. n : t[i] = z
    <3>1. CASE z = x
      BY <2>5, <2>9, <3>1
    <3>2. CASE z # x
      <4>1. PICK i \in 1 .. n - 1 : s[i] = z
        BY <2>8, <3>2
      <4>2. i \in 1 .. n /\ i # n
        BY <2>5
      <4> QED BY <2>9, <4>1, <4>2
    <3> QED BY <3>1, <3>2
  <2>13. Range(t) = m
    BY <2>11, <2>12 DEF Range
  <2>14. ASSUME NEW i \in 1 .. n, NEW j \in 1 .. n, i < j PROVE <<t[j], t[i]>> \notin R
    <3>1. i # n /\ i \in 1 .. n - 1 /\ t[i] = s[i]
      BY <2>5, <2>9, <2>14
    <3>2. CASE j = n
      BY <2>3, <2>8, <2>9, <3>1, <3>2
    <3>3. CASE j # n
      <4>1. j \in 1 .. n - 1 /\ t[j] = s[j]
        BY <2>5, <2>9, <3>3
      <4> QED BY <2>8, <2>14, <3>1, <4>1
    <3> QED BY <3>2, <3>3
  <2>15. t \in Sorted(R, m)
    BY <2>5, <2>11, <2>13, <2>14 DEF Sorted
  <2> QED BY <2>15
<1> QED BY <1>1

(* A sorted set has no repetitions.                                        *)
LEMMA SortedStrict ==
    ASSUME NEW U, IsFiniteSet(U), NEW R, Orders(R, U), NEW S \in SUBSET U,
           NEW s \in Sorted(R, S)
    PROVE  /\ s \in [1 .. Cardinality(S) -> S] /\ Cardinality(S) \in Nat
           /\ \A x \in S : \E i \in 1 .. Cardinality(S) : s[i] = x
           /\ \A i, j \in 1 .. Cardinality(S) : s[i] = s[j] => i = j
           /\ \A i, j \in 1 .. Cardinality(S) : i < j => <<s[i], s[j]>> \in R
<1>1. IsFiniteSet(S)
  BY FS_Subset
<1>2. PICK n \in Nat : n = Cardinality(S)
  BY <1>1, FS_CardinalityType
<1>3. /\ s \in [1 .. n -> S] /\ \A x \in S : \E i \in 1 .. n : s[i] = x
      /\ \A i, j \in 1 .. n : i < j => <<s[j], s[i]>> \notin R
  BY <1>2 DEF Sorted, Range
<1>4. IsFiniteSet(1 .. n) /\ Cardinality(1 .. n) = n
  BY FS_Interval
<1>5. s \in Surjection(1 .. n, S)
  BY <1>3 DEF Surjection
<1>6. s \in Injection(1 .. n, S)
  BY <1>1, <1>2, <1>4, <1>5, FS_SurjSameCardinalityImpliesInj
<1>7. \A i, j \in 1 .. n : s[i] = s[j] => i = j
  BY <1>6 DEF Injection, IsInjective
<1>8. ASSUME NEW i \in 1 .. n, NEW j \in 1 .. n, i < j PROVE <<s[i], s[j]>> \in R
  <2>1. s[i] # s[j] /\ s[i] \in U /\ s[j] \in U
    BY <1>3, <1>7, <1>8
  <2> QED BY <2>1, <1>3, <1>8 DEF Orders
<1> QED BY <1>2, <1>3, <1>7, <1>8

(* There is only one way to sort a set.                                    *)
LEMMA SortedUnique ==
    ASSUME NEW U, IsFiniteSet(U), NEW R, Orders(R, U), NEW S \in SUBSET U,
           NEW s \in Sorted(R, S), NEW t \in Sorted(R, S)
    PROVE  s = t
<1>1. PICK n \in Nat : n = Cardinality(S)
  BY SortedStrict
<1>2. /\ s \in [1 .. n -> S] /\ \A x \in S : \E i \in 1 .. n : s[i] = x
      /\ \A i, j \in 1 .. n : s[i] = s[j] => i = j
      /\ \A i, j \in 1 .. n : i < j => <<s[i], s[j]>> \in R
  BY <1>1, SortedStrict
<1>3. /\ t \in [1 .. n -> S] /\ \A x \in S : \E i \in 1 .. n : t[i] = x
      /\ \A i, j \in 1 .. n : t[i] = t[j] => i = j
      /\ \A i, j \in 1 .. n : i < j => <<t[i], t[j]>> \in R
  BY <1>1, SortedStrict
<1> DEFINE B == {i \in 1 .. n : s[i] # t[i]}
<1>4. B = {}
  <2> SUFFICES ASSUME B # {} PROVE FALSE
    OBVIOUS
  <2>1. B \in SUBSET Nat
    OBVIOUS
  <2>2. PICK i \in B : \A k \in B : i <= k
    BY <2>1, LeastNumber
  <2>3. i \in 1 .. n /\ s[i] # t[i] /\ \A k \in 1 .. n : k < i => s[k] = t[k]
    BY <2>2
  <2>4. PICK j \in 1 .. n : t[j] = s[i]
    BY <1>2, <1>3, <2>3
  <2>5. i < j
    <3>1. j # i
      BY <2>3, <2>4
    <3>2. ~(j < i)
      BY <1>2, <2>3, <2>4
    <3> QED BY <3>1, <3>2, <2>3
  <2>6. PICK k \in 1 .. n : s[k] = t[i]
    BY <1>2, <1>3, <2>3
  <2>7. i < k
    <3>1. k # i
      BY <2>3, <2>6
    <3>2. ~(k < i)
      BY <1>3, <2>3, <2>6
    <3> QED BY <3>1, <3>2, <2>3
  <2>8. <<t[i], s[i]>> \in R /\ <<s[i], t[i]>> \in R
    BY <1>2, <1>3, <2>3, <2>4, <2>5, <2>6, <2>7
  <2>9. s[i] \in U /\ t[i] \in U
    BY <1>2, <1>3, <2>3
  <2> QED BY <2>8, <2>9 DEF Orders
<1>5. \A i \in 1 .. n : s[i] = t[i]
  BY <1>4
<1>6. s = [i \in 1 .. n |-> s[i]] /\ t = [i \in 1 .. n |-> t[i]]
  BY <1>2, <1>3
<1> QED BY <1>5, <1>6

-----------------------------------------------------------------------------
(* The listings of orders *)

(* An order of the book on its way to a client.                            *)
Offer ==
    [account : BookAccount \cup {Unset}, id : BookId \cup {Unset},
     asset : {Unset, 1, 2}, min_units : {Unset}, max_units : {1}, price_sat : Price,
     type : {Unset, "ask", "bid"}, locked : {Unset}]

(* The member values of its JSON object, with the given account and ID.    *)
Object(o, account, id, asset, type) ==
    [account |-> account, id |-> id, asset |-> asset, min_units |-> 1,
     max_units |-> 1, price_sat |-> o.price_sat, type |-> type, locked |-> Unset]

(* The numbers of the book.                                                *)
LEMMA BookNumbers ==
    /\ \A n \in BookId \cup Price : n \in Int /\ 0 <= n /\ n < Limit /\ n # Unset
                                    /\ Signed(n) = n
    /\ Signed(0) = 0 /\ Signed(1) = 1
<1>1. PICK L \in Nat : L = Limit /\ L > 1
  BY LimitAssumption
<1>2. \A n \in BookId \cup Price : n \in Int /\ 0 <= n /\ n < L
  BY <1>1, BookAssumption
<1>3. \A n \in BookId \cup Price : n # Unset
  BY <1>2, OrderJsonAssumption
<1>4. \A n \in BookId \cup Price : Signed(n) = n
  BY <1>1, <1>2 DEF Signed
<1>5. Signed(0) = 0 /\ Signed(1) = 1
  BY <1>1 DEF Signed
<1> QED BY <1>1, <1>2, <1>3, <1>4, <1>5

(* What ProtoToJson shows of an offer.                                     *)
LEMMA ShownOffer ==
    ASSUME NEW o \in Offer
    PROVE  OrderToJson(o) = Object(o, o.account, o.id, o.asset, o.type)
<1>1. /\ o.max_units = 1 /\ o.min_units = Unset /\ o.locked = Unset
      /\ o.price_sat \in Price /\ o.id \in BookId \cup {Unset}
  BY DEF Offer
<1>2. 1 # Unset /\ Get(o.max_units, 0) = 1 /\ Get(o.min_units, 0) = 0
  BY <1>1, OrderJsonAssumption DEF Get
<1>3. Get(o.max_units, 0) >= Max2(1, Signed(Get(o.min_units, 0)))
  BY <1>2, BookNumbers DEF Max2
<1>4. MapSet(o.id) = o.id
  BY <1>1, BookNumbers DEF MapSet, IntToJson
<1>5. IntToJson(1) = 1 /\ IntToJson(Get(o.price_sat, 0)) = o.price_sat
  BY <1>1, BookNumbers DEF IntToJson, Get
<1>6. OrderToJson(o) =
        [o EXCEPT !.id = MapSet(@),
                  !.min_units = IF @ = Unset THEN IntToJson(1) ELSE IntToJson(@),
                  !.max_units = IntToJson(Get(o.max_units, 0)),
                  !.price_sat = IntToJson(Get(@, 0)),
                  !.locked = IF @ = TRUE THEN TRUE ELSE Unset]
  BY <1>3 DEF OrderToJson
<1>7. OrderToJson(o) =
        [o EXCEPT !.id = o.id, !.min_units = 1, !.max_units = 1,
                  !.price_sat = o.price_sat, !.locked = Unset]
  BY <1>1, <1>2, <1>4, <1>5, <1>6
<1> QED BY <1>7 DEF Offer, Object

(* The JSON object of an offer is accepted as an order.                    *)
LEMMA ObjectAccepted ==
    ASSUME NEW o \in Offer, NEW account, NEW id, id = Unset \/ (id \in Int /\ 0 <= id),
           NEW asset, NEW type \in {Unset, "ask", "bid"}
    PROVE  OrderFromJson(Object(o, account, id, asset, type))
              = Object(o, account, id, asset, type)
<1>1. o.price_sat \in Price
  BY DEF Offer
<1>2. IsUInt64(1) /\ IsUInt64(o.price_sat) /\ (id = Unset \/ IsUInt64(id))
  BY <1>1, BookNumbers, OrderJsonAssumption DEF IsUInt64
<1>3. PICK j : j = Object(o, account, id, asset, type)
  OBVIOUS
<1>4. /\ j.id = id /\ j.min_units = 1 /\ j.max_units = 1 /\ j.price_sat = o.price_sat
      /\ j.type = type /\ j.locked = Unset
  BY <1>3 DEF Object
<1>5. OrderFromJson(j) = [j EXCEPT !.locked = Unset]
  BY <1>2, <1>4 DEF OrderFromJson
<1>6. [j EXCEPT !.locked = Unset] = j
  BY <1>3, <1>4 DEF Object
<1> QED BY <1>3, <1>5, <1>6

(* The IDs of one's own orders, sorted: ById exists, and lists each ID     *)
(* once.                                                                   *)
LEMMA IdsSorted ==
    ASSUME NEW S \in SUBSET OwnId
    PROVE  /\ Cardinality(S) \in Nat
           /\ ById(S) \in [1 .. Cardinality(S) -> S]
           /\ \A i, j \in 1 .. Cardinality(S) : i < j => ById(S)[i] < ById(S)[j]
           /\ \A x \in S : \E i \in 1 .. Cardinality(S) : ById(S)[i] = x
<1>1. PICK L \in Nat : L = Limit
  BY LimitAssumption
<1>2. S \in SUBSET (0 .. 2 * L - 1)
  BY <1>1, BookAssumption DEF Units
<1>3. IsFiniteSet(S)
  <2>1. PICK k \in Int : k = 2 * L - 1
    BY <1>1
  <2>2. IsFiniteSet(0 .. k)
    BY FS_Interval
  <2> QED BY <1>2, <2>1, <2>2, FS_Subset
<1>4. PICK n \in Nat : n = Cardinality(S)
  BY <1>3, FS_CardinalityType
<1>5. \A x \in S : x \in Int
  BY <1>2
<1>6. PICK R : R = {p \in S \X S : p[1] < p[2]}
  OBVIOUS
<1>7. \A x, y \in S : <<x, y>> \in R <=> x < y
  BY <1>6
<1>8. Orders(R, S)
  BY <1>5, <1>7 DEF Orders
<1>9. PICK s : s \in Sorted(R, S)
  BY <1>3, <1>8, SortedExists
<1>10. s \in [1 .. n -> S] /\ \A i, j \in 1 .. n : i < j => <<s[i], s[j]>> \in R
  BY <1>3, <1>4, <1>8, <1>9, SortedStrict
<1>11. \A i, j \in DOMAIN s : i < j => s[i] < s[j]
  BY <1>7, <1>10
<1>12. PICK b : b = ById(S)
  OBVIOUS
<1>13. b \in [1 .. n -> S] /\ \A i, j \in DOMAIN b : i < j => b[i] < b[j]
  BY <1>4, <1>10, <1>11, <1>12, Zenon DEF ById
<1>14. \A i, j \in 1 .. n : b[i] = b[j] => i = j
  <2> SUFFICES ASSUME NEW i \in 1 .. n, NEW j \in 1 .. n, b[i] = b[j], i # j PROVE FALSE
    OBVIOUS
  <2>1. b[i] \in Int /\ b[j] \in Int
    BY <1>5, <1>13
  <2>2. i < j \/ j < i
    OBVIOUS
  <2> QED BY <1>13, <2>1, <2>2
<1>15. b \in Injection(1 .. n, S)
  BY <1>13, <1>14 DEF Injection, IsInjective
<1>16. IsFiniteSet(1 .. n) /\ Cardinality(1 .. n) = n
  BY FS_Interval
<1>17. b \in Surjection(1 .. n, S)
  BY <1>3, <1>4, <1>15, <1>16, FS_Injection
<1>18. \A x \in S : \E i \in 1 .. n : b[i] = x
  BY <1>17 DEF Surjection
<1> QED BY <1>4, <1>12, <1>13, <1>18

(* One's own orders are listed, sorted, each with its ID.                  *)
LEMMA OwnListed ==
    ASSUME NEW ids \in SUBSET OwnId, NEW orders \in [ids -> BookOrder]
    PROVE  OwnOrdersListed(orders, OrdersOfAccountToJson(orders))
<1>1. PICK n \in Nat : n = Cardinality(ids)
  BY IdsSorted
<1>2. PICK b : b = ById(ids)
  OBVIOUS
<1>3. /\ b \in [1 .. n -> ids]
      /\ \A i, j \in 1 .. n : i < j => b[i] < b[j]
      /\ \A x \in ids : \E i \in 1 .. n : b[i] = x
  BY <1>1, <1>2, IdsSorted
<1>4. \A x \in ids : /\ x \in Units /\ orders[x] \in BookOrder /\ orders[x] \in Offer
                     /\ orders[x].account = Unset
  BY BookAssumption DEF BookOrder, Offer
<1>5. PICK out : out = OrdersOfAccountToJson(orders)
  OBVIOUS
<1>6. out = [i \in 1 .. n |->
         [OrderToJson(orders[b[i]]) EXCEPT !.account = Unset, !.id = IntToJson(b[i])]]
  BY <1>2, <1>3, <1>5 DEF OrdersOfAccountToJson
<1>7. DOMAIN out = 1 .. n /\ Len(out) = n
  <2>1. DOMAIN out = 1 .. n
    BY <1>6
  <2>2. out = [i \in 1 .. n |-> out[i]]
    BY <1>6
  <2>3. PICK T : T = {out[i] : i \in 1 .. n}
    OBVIOUS
  <2>4. out \in [1 .. n -> T]
    BY <2>2, <2>3
  <2>5. out \in Seq(T)
    BY <2>4
  <2> QED BY <2>1, <2>5
<1>8. ASSUME NEW i \in 1 .. n
      PROVE  out[i] = Object(orders[b[i]], Unset, Signed(b[i]), orders[b[i]].asset,
                             orders[b[i]].type)
  <2>1. PICK o \in Offer : o = orders[b[i]] /\ o.account = Unset
    BY <1>3, <1>4
  <2>2. out[i] = [Object(o, o.account, o.id, o.asset, o.type)
                    EXCEPT !.account = Unset, !.id = Signed(b[i])]
    BY <1>6, <2>1, ShownOffer DEF IntToJson
  <2> QED BY <2>1, <2>2 DEF Object
<1>9. ASSUME NEW id \in ids, id < Limit
      PROVE  \E i \in 1 .. n :
               OrderFromJson(out[i]) = [Normalised(orders[id]) EXCEPT !.id = id]
  <2>1. PICK i \in 1 .. n : b[i] = id
    BY <1>3
  <2>2. id \in Int /\ 0 <= id /\ Signed(id) = id
    BY <1>4, <1>9, SignedNumber
  <2>3. PICK o \in Offer : o = orders[id] /\ o \in BookOrder
    BY <1>4
  <2>4. out[i] = Object(o, Unset, id, o.asset, o.type)
    BY <1>8, <2>1, <2>2, <2>3
  <2>5. OrderFromJson(out[i]) = Object(o, Unset, id, o.asset, o.type)
    <3>1. o.type \in {Unset, "ask", "bid"}
      BY DEF Offer
    <3> QED BY <2>2, <2>4, <3>1, ObjectAccepted
  <2>6. Get(o.min_units, 1) = 1 /\ Get(o.price_sat, 0) = o.price_sat
    BY BookNumbers DEF Get, Offer
  <2>7. [Normalised(o) EXCEPT !.id = id] = Object(o, Unset, id, o.asset, o.type)
    <3>1. Normalised(o) = [o EXCEPT !.min_units = 1, !.price_sat = o.price_sat,
                                    !.locked = Unset]
      BY <2>6 DEF Normalised
    <3>2. [Normalised(o) EXCEPT !.id = id]
          = [o EXCEPT !.id = id, !.min_units = 1, !.price_sat = o.price_sat,
                      !.locked = Unset]
      BY <3>1 DEF Offer
    <3>3. o.account = Unset /\ o.max_units = 1
      BY <2>3 DEF BookOrder
    <3> DEFINE T == [account : {Unset}, id : {id}, asset : {o.asset}, min_units : {1},
                     max_units : {1}, price_sat : {o.price_sat}, type : {o.type},
                     locked : {Unset}]
    <3>4. [Normalised(o) EXCEPT !.id = id] \in T
      BY <3>2, <3>3 DEF Offer
    <3>5. Object(o, Unset, id, o.asset, o.type) \in T
      BY DEF Object
    <3>6. \A x, y \in T : x = y
      OBVIOUS
    <3> HIDE DEF T
    <3> QED BY <3>4, <3>5, <3>6
  <2> QED BY <2>3, <2>5, <2>7
<1>10. ASSUME NEW i \in 1 .. n, NEW j \in 1 .. n, i < j, 0 <= out[i].id, 0 <= out[j].id
       PROVE  out[i].id < out[j].id
  <2>1. out[i].id = Signed(b[i]) /\ out[j].id = Signed(b[j])
    <3>1. ASSUME NEW k \in 1 .. n PROVE out[k].id = Signed(b[k])
      <4>1. out[k] = Object(orders[b[k]], Unset, Signed(b[k]), orders[b[k]].asset,
                            orders[b[k]].type)
        BY <1>8
      <4>2. PICK x, y : x = Signed(b[k]) /\ y = orders[b[k]]
        OBVIOUS
      <4>3. out[k] = Object(y, Unset, x, y.asset, y.type)
        BY <4>1, <4>2
      <4>4. out[k].id = x
        BY <4>3 DEF Object
      <4> QED BY <4>2, <4>4
    <3> QED BY <3>1
  <2>2. /\ b[i] \in Units /\ b[j] \in Units
    BY <1>3, <1>4
  <2>3. Signed(b[i]) = b[i] /\ Signed(b[j]) = b[j]
    BY <1>10, <2>1, <2>2, SignedNumber
  <2> QED BY <1>3, <1>10, <2>1, <2>3
<1>11. DOMAIN orders = ids
  OBVIOUS
<1> QED BY <1>1, <1>5, <1>7, <1>9, <1>10, <1>11 DEF OwnOrdersListed

Books == [BookAccount -> UNION {[S -> BookOrder] : S \in SUBSET BookId}]

(* Where the book has an order for one side of an asset.                   *)
Slots(book, asset, type) ==
    {p \in BookAccount \X BookId :
        /\ p[2] \in DOMAIN book[p[1]]
        /\ book[p[1]][p[2]].asset = asset /\ book[p[1]][p[2]].type = type}

(* The order there as an entry, and as it is listed on the side.           *)
Placed(o, account, id) == [o EXCEPT !.account = account, !.id = id]
OnSide(o) == [o EXCEPT !.asset = Unset, !.type = Unset]
Entry(book, p) == Placed(book[p[1]][p[2]], p[1], p[2])
Listed(book, p) == OnSide(Entry(book, p))

(* The members of an entry.                                                *)
LEMMA EntryMembers ==
    ASSUME NEW book \in Books, NEW asset, NEW type, NEW p \in Slots(book, asset, type)
    PROVE  /\ p[1] \in BookAccount /\ p[2] \in BookId
           /\ book[p[1]][p[2]] \in BookOrder
           /\ Entry(book, p) =
                [account |-> p[1], id |-> p[2], asset |-> asset, min_units |-> Unset,
                 max_units |-> 1, price_sat |-> book[p[1]][p[2]].price_sat,
                 type |-> type, locked |-> Unset]
           /\ Listed(book, p) =
                [account |-> p[1], id |-> p[2], asset |-> Unset, min_units |-> Unset,
                 max_units |-> 1, price_sat |-> book[p[1]][p[2]].price_sat,
                 type |-> Unset, locked |-> Unset]
           /\ Listed(book, p) \in Offer
<1>1. PICK a, id : a = p[1] /\ id = p[2]
  OBVIOUS
<1>2. /\ a \in BookAccount /\ id \in BookId /\ id \in DOMAIN book[a]
      /\ book[a][id].asset = asset /\ book[a][id].type = type
  BY <1>1 DEF Slots
<1>3. PICK o : o = book[a][id]
  OBVIOUS
<1>4. o \in BookOrder
  <2>1. PICK S \in SUBSET BookId : book[a] \in [S -> BookOrder]
    BY <1>2 DEF Books
  <2> QED BY <1>2, <1>3, <2>1
<1>5. /\ o.asset = asset /\ o.type = type /\ o.min_units = Unset /\ o.max_units = 1
      /\ o.locked = Unset /\ o.price_sat \in Price
  BY <1>2, <1>3, <1>4 DEF BookOrder
<1>6. PICK e : e = [o EXCEPT !.account = a, !.id = id]
  OBVIOUS
<1>7. e = [account |-> a, id |-> id, asset |-> asset, min_units |-> Unset,
           max_units |-> 1, price_sat |-> o.price_sat, type |-> type, locked |-> Unset]
  <2> DEFINE T == [account : {a}, id : {id}, asset : {asset}, min_units : {Unset},
                   max_units : {1}, price_sat : {o.price_sat}, type : {type},
                   locked : {Unset}]
  <2>1. e \in T
    BY <1>4, <1>5, <1>6 DEF BookOrder
  <2>2. [account |-> a, id |-> id, asset |-> asset, min_units |-> Unset,
         max_units |-> 1, price_sat |-> o.price_sat, type |-> type, locked |-> Unset] \in T
    OBVIOUS
  <2>3. \A x, y \in T : x = y
    OBVIOUS
  <2> HIDE DEF T
  <2> QED BY <2>1, <2>2, <2>3
<1>8. Entry(book, p) = e
  BY <1>1, <1>3, <1>6 DEF Entry, Placed
<1>9. [e EXCEPT !.asset = Unset, !.type = Unset]
      = [account |-> a, id |-> id, asset |-> Unset, min_units |-> Unset, max_units |-> 1,
         price_sat |-> o.price_sat, type |-> Unset, locked |-> Unset]
  <2> DEFINE T == [account : {a}, id : {id}, asset : {Unset}, min_units : {Unset},
                   max_units : {1}, price_sat : {o.price_sat}, type : {Unset},
                   locked : {Unset}]
  <2>1. [e EXCEPT !.asset = Unset, !.type = Unset] \in T
    BY <1>7
  <2>2. [account |-> a, id |-> id, asset |-> Unset, min_units |-> Unset, max_units |-> 1,
         price_sat |-> o.price_sat, type |-> Unset, locked |-> Unset] \in T
    OBVIOUS
  <2>3. \A x, y \in T : x = y
    OBVIOUS
  <2> HIDE DEF T
  <2> QED BY <2>1, <2>2, <2>3
<1>10. Listed(book, p)
       = [account |-> a, id |-> id, asset |-> Unset, min_units |-> Unset, max_units |-> 1,
          price_sat |-> o.price_sat, type |-> Unset, locked |-> Unset]
  BY <1>8, <1>9 DEF Listed, OnSide
<1>11. Listed(book, p) \in Offer
  BY <1>2, <1>5, <1>10 DEF Offer
<1> QED BY <1>1, <1>2, <1>3, <1>4, <1>7, <1>8, <1>10, <1>11

(* The entries for one side of an asset are those at its slots.            *)
LEMMA EntriesOfSlots ==
    ASSUME NEW book \in Books, NEW asset, NEW type
    PROVE  /\ {e \in Entries(book) : e.asset = asset /\ e.type = type}
                = {Entry(book, p) : p \in Slots(book, asset, type)}
           /\ AddOrderForAsset(book, asset, type)
                = {Listed(book, p) : p \in Slots(book, asset, type)}
<1> DEFINE M == {e \in Entries(book) : e.asset = asset /\ e.type = type}
<1>1. Entries(book) =
        UNION {{Placed(book[a][id], a, id) : id \in DOMAIN book[a]} : a \in BookAccount}
  <2>1. DOMAIN book = BookAccount
    BY DEF Books
  <2> QED BY <2>1, Zenon DEF Entries, Placed
<1>2. ASSUME NEW e \in M PROVE \E p \in Slots(book, asset, type) : e = Entry(book, p)
  <2>1. PICK a \in BookAccount : \E id \in DOMAIN book[a] : e = Placed(book[a][id], a, id)
    BY <1>1
  <2>2. PICK S \in SUBSET BookId : book[a] \in [S -> BookOrder]
    BY DEF Books
  <2>3. PICK id \in DOMAIN book[a] : e = Placed(book[a][id], a, id)
    BY <2>1
  <2>4. PICK o \in BookOrder : o = book[a][id]
    BY <2>2, <2>3
  <2>5. e.asset = o.asset /\ e.type = o.type
    BY <2>3, <2>4 DEF Placed, BookOrder
  <2>6. PICK p : p = <<a, id>>
    OBVIOUS
  <2>7. p \in BookAccount \X BookId /\ p[1] = a /\ p[2] = id
    BY <2>2, <2>3, <2>6
  <2>8. p \in Slots(book, asset, type)
    BY <2>3, <2>4, <2>5, <2>7 DEF Slots
  <2>9. e = Entry(book, p)
    BY <2>3, <2>7 DEF Entry
  <2> QED BY <2>8, <2>9
<1>3. ASSUME NEW p \in Slots(book, asset, type) PROVE Entry(book, p) \in M
  <2>1. p[1] \in BookAccount /\ p[2] \in DOMAIN book[p[1]]
    BY DEF Slots
  <2>2. Entry(book, p) \in Entries(book)
    BY <1>1, <2>1 DEF Entry
  <2>3. Entry(book, p).asset = asset /\ Entry(book, p).type = type
    BY EntryMembers
  <2> QED BY <2>2, <2>3
<1>4. M = {Entry(book, p) : p \in Slots(book, asset, type)}
  BY <1>2, <1>3
<1>5. AddOrderForAsset(book, asset, type) = {OnSide(o) : o \in M}
  BY Zenon DEF AddOrderForAsset, OnSide
<1> HIDE DEF M
<1>6. AddOrderForAsset(book, asset, type)
      = {OnSide(Entry(book, p)) : p \in Slots(book, asset, type)}
  BY <1>4, <1>5
<1>7. AddOrderForAsset(book, asset, type) = {Listed(book, p) : p \in Slots(book, asset, type)}
  BY <1>6, Zenon DEF Listed
<1> QED BY <1>4, <1>7 DEF M

(* The orders on a side are finitely many, and differ by account and ID.   *)
LEMMA SideEntries ==
    ASSUME NEW book \in Books, NEW asset, NEW type
    PROVE  LET U == AddOrderForAsset(book, asset, type) IN
           /\ IsFiniteSet(U)
           /\ \A x \in U : /\ x \in Offer /\ x.account \in Int /\ x.id \in Int
                           /\ x.price_sat \in Int
           /\ \A x, y \in U : x.account = y.account /\ x.id = y.id => x = y
<1>1. PICK P : P = Slots(book, asset, type)
  OBVIOUS
<1>2. PICK U : U = {Listed(book, p) : p \in P} /\ U = AddOrderForAsset(book, asset, type)
  BY <1>1, EntriesOfSlots
<1>3. IsFiniteSet(P)
  <2>1. PICK k \in Int : k = Limit - 1
    BY LimitAssumption
  <2>2. IsFiniteSet(0 .. k)
    BY FS_Interval
  <2>3. IsFiniteSet(BookId) /\ IsFiniteSet(BookAccount)
    BY <2>1, <2>2, BookAssumption, FS_Subset
  <2>4. IsFiniteSet(BookAccount \X BookId)
    BY <2>3, FS_Product
  <2>5. P \in SUBSET (BookAccount \X BookId)
    BY <1>1 DEF Slots
  <2> QED BY <2>4, <2>5, FS_Subset
<1>4. IsFiniteSet(U)
  <2>1. PICK f : f = [p \in P |-> Listed(book, p)]
    OBVIOUS
  <2>2. f \in Surjection(P, U)
    BY <1>2, <2>1 DEF Surjection
  <2> QED BY <1>3, <2>2, FS_Surjection
<1>5. ASSUME NEW p \in P
      PROVE  /\ Listed(book, p) \in Offer
             /\ Listed(book, p).account = p[1] /\ p[1] \in Int
             /\ Listed(book, p).id = p[2] /\ p[2] \in Int
  <2>1. /\ p[1] \in BookAccount /\ p[2] \in BookId /\ Listed(book, p) \in Offer
        /\ Listed(book, p) =
             [account |-> p[1], id |-> p[2], asset |-> Unset, min_units |-> Unset,
              max_units |-> 1, price_sat |-> book[p[1]][p[2]].price_sat,
              type |-> Unset, locked |-> Unset]
    BY <1>1, EntryMembers
  <2>2. p[1] \in Int /\ p[2] \in Int
    BY <2>1, BookAssumption, BookNumbers
  <2> QED BY <2>1, <2>2
<1>6. \A x \in U : /\ x \in Offer /\ x.account \in Int /\ x.id \in Int
                   /\ x.price_sat \in Int
  <2>1. \A x \in U : x \in Offer /\ x.account \in Int /\ x.id \in Int
    BY <1>2, <1>5
  <2>2. \A x \in Offer : x.price_sat \in Int
    BY BookNumbers DEF Offer
  <2> QED BY <2>1, <2>2
<1>7. ASSUME NEW x \in U, NEW y \in U, x.account = y.account, x.id = y.id PROVE x = y
  <2>1. PICK p \in P : x = Listed(book, p)
    BY <1>2
  <2>2. PICK q \in P : y = Listed(book, q)
    BY <1>2
  <2>3. p[1] = q[1] /\ p[2] = q[2]
    BY <1>5, <1>7, <2>1, <2>2
  <2>4. p \in BookAccount \X BookId /\ q \in BookAccount \X BookId
    BY <1>1 DEF Slots
  <2>5. p = q
    BY <2>3, <2>4
  <2> QED BY <2>1, <2>2, <2>5
<1> QED BY <1>2, <1>4, <1>6, <1>7

(* There is one way to sort a side, which lists each of its orders once.   *)
LEMMA SideSorted ==
    ASSUME NEW book \in Books, NEW asset, NEW type
    PROVE  LET U == AddOrderForAsset(book, asset, type)
               n == Cardinality(U) IN
           /\ n \in Nat
           /\ \E s \in [1 .. n -> U] :
                 /\ Sort(U) = {s}
                 /\ \A x \in U : \E i \in 1 .. n : s[i] = x
                 /\ \A i, j \in 1 .. n : s[i] = s[j] => i = j
                 /\ \A i, j \in 1 .. n : i < j => s[i].price_sat <= s[j].price_sat
<1>1. PICK U : U = AddOrderForAsset(book, asset, type)
  OBVIOUS
<1>2. /\ IsFiniteSet(U)
      /\ \A x \in U : x.account \in Int /\ x.id \in Int /\ x.price_sat \in Int
      /\ \A x, y \in U : x.account = y.account /\ x.id = y.id => x = y
  BY <1>1, SideEntries
<1>3. PICK n \in Nat : n = Cardinality(U)
  BY <1>2, FS_CardinalityType
<1>4. PICK R : R = {p \in U \X U : ByPriceAsc(p[1], p[2])}
  OBVIOUS
<1>5. \A x, y \in U : <<x, y>> \in R <=> ByPriceAsc(x, y)
  BY <1>4
<1>6. Orders(R, U)
  <2>1. \A x, y \in U : ByPriceAsc(x, y) => ~ByPriceAsc(y, x)
    BY <1>2 DEF ByPriceAsc
  <2>2. \A x, y, z \in U : ByPriceAsc(x, y) /\ ByPriceAsc(y, z) => ByPriceAsc(x, z)
    BY <1>2 DEF ByPriceAsc
  <2>3. \A x, y \in U : x # y => ByPriceAsc(x, y) \/ ByPriceAsc(y, x)
    BY <1>2 DEF ByPriceAsc
  <2> QED BY <1>5, <2>1, <2>2, <2>3 DEF Orders
<1>7. Sort(U) = Sorted(R, U)
  <2>1. ASSUME NEW s \in [1 .. n -> U]
        PROVE  (\A i, j \in DOMAIN s : i < j => ~ByPriceAsc(s[j], s[i]))
               <=> (\A i, j \in DOMAIN s : i < j => <<s[j], s[i]>> \notin R)
    BY <1>5
  <2> QED BY <1>3, <2>1 DEF Sort, Sorted
<1>8. PICK s : s \in Sorted(R, U)
  BY <1>2, <1>6, SortedExists
<1>9. Sorted(R, U) = {s}
  BY <1>2, <1>6, <1>8, SortedUnique
<1>10. /\ s \in [1 .. n -> U]
       /\ \A x \in U : \E i \in 1 .. n : s[i] = x
       /\ \A i, j \in 1 .. n : s[i] = s[j] => i = j
       /\ \A i, j \in 1 .. n : i < j => <<s[i], s[j]>> \in R
  BY <1>2, <1>3, <1>6, <1>8, SortedStrict
<1>11. ASSUME NEW i \in 1 .. n, NEW j \in 1 .. n, i < j
       PROVE  s[i].price_sat <= s[j].price_sat
  <2>1. s[i] \in U /\ s[j] \in U /\ ByPriceAsc(s[i], s[j])
    BY <1>5, <1>10, <1>11
  <2>2. s[i].price_sat \in Int /\ s[j].price_sat \in Int
    BY <1>2, <2>1
  <2> QED BY <2>1, <2>2 DEF ByPriceAsc
<1> QED BY <1>1, <1>3, <1>7, <1>9, <1>10, <1>11

(* The same for what GetForAsset returns: the best price comes first.      *)
LEMMA SideReturned ==
    ASSUME NEW book \in Books, NEW asset, NEW type \in {"ask", "bid"}
    PROVE  LET U == AddOrderForAsset(book, asset, type)
               n == Cardinality(U) IN
           /\ n \in Nat
           /\ \E s \in [1 .. n -> U] :
                 /\ GetForAsset(book, asset, type) = {s}
                 /\ \A x \in U : \E i \in 1 .. n : s[i] = x
                 /\ \A i, j \in 1 .. n : s[i] = s[j] => i = j
                 /\ \A i, j \in 1 .. n : i < j =>
                       IF type = "ask" THEN s[i].price_sat <= s[j].price_sat
                                       ELSE s[i].price_sat >= s[j].price_sat
<1>1. PICK U : U = AddOrderForAsset(book, asset, type)
  OBVIOUS
<1>2. PICK n \in Nat : n = Cardinality(U)
  BY <1>1, SideSorted
<1>3. PICK s \in [1 .. n -> U] :
        /\ Sort(U) = {s}
        /\ \A x \in U : \E i \in 1 .. n : s[i] = x
        /\ \A i, j \in 1 .. n : s[i] = s[j] => i = j
        /\ \A i, j \in 1 .. n : i < j => s[i].price_sat <= s[j].price_sat
  BY <1>1, <1>2, SideSorted
<1>4. GetForAsset(book, asset, type) = SortByPrices(U, type)
  BY <1>1 DEF GetForAsset
<1>5. CASE type = "ask"
  BY <1>1, <1>2, <1>3, <1>4, <1>5 DEF SortByPrices
<1>6. CASE type = "bid"
  <2>1. PICK t : t = Reverse(s)
    OBVIOUS
  <2>2. GetForAsset(book, asset, type) = {t}
    BY <1>3, <1>4, <1>6, <2>1 DEF SortByPrices
  <2>3. s \in Seq(U) /\ Len(s) = n
    BY <1>2, <1>3
  <2>4. t = [i \in 1 .. n |-> s[(n - i) + 1]]
    BY <2>1, <2>3 DEF Reverse
  <2>5. ASSUME NEW i \in 1 .. n
        PROVE  /\ (n - i) + 1 \in 1 .. n /\ t[i] = s[(n - i) + 1]
               /\ t[(n - i) + 1] = s[i]
    <3>1. (n - i) + 1 \in 1 .. n /\ (n - ((n - i) + 1)) + 1 = i
      BY <1>2
    <3> QED BY <2>4, <3>1
  <2>6. t \in [1 .. n -> U]
    BY <1>3, <2>4, <2>5
  <2>7. \A x \in U : \E i \in 1 .. n : t[i] = x
    BY <1>3, <2>5
  <2>8. ASSUME NEW i \in 1 .. n, NEW j \in 1 .. n, t[i] = t[j] PROVE i = j
    <3>1. PICK k \in 1 .. n, l \in 1 .. n :
            k = (n - i) + 1 /\ l = (n - j) + 1 /\ t[i] = s[k] /\ t[j] = s[l]
      BY <2>5
    <3>2. k = l
      BY <1>3, <2>8, <3>1
    <3> QED BY <1>2, <3>1, <3>2
  <2>9. ASSUME NEW i \in 1 .. n, NEW j \in 1 .. n, i < j
        PROVE  t[i].price_sat >= t[j].price_sat
    <3>1. PICK k \in 1 .. n, l \in 1 .. n :
            k = (n - i) + 1 /\ l = (n - j) + 1 /\ t[i] = s[k] /\ t[j] = s[l]
      BY <2>5
    <3>2. l < k
      BY <1>2, <2>9, <3>1
    <3>3. s[l].price_sat <= s[k].price_sat
      BY <1>3, <3>2
    <3>4. s[l].price_sat \in Int /\ s[k].price_sat \in Int
      BY <1>1, <1>3, SideEntries
    <3> QED BY <3>1, <3>3, <3>4
  <2>10. type # "ask"
    BY <1>6
  <2> QED BY <1>1, <1>2, <2>2, <2>6, <2>7, <2>8, <2>9, <2>10
<1> QED BY <1>5, <1>6

(* Asset and type are dropped from an object, and filled in.               *)
Marked(json, asset, type) == [json EXCEPT !.asset = asset, !.type = type]

(* Then it is the object with the new asset and type.                      *)
LEMMA ObjectUpdate ==
    ASSUME NEW o, NEW account, NEW id, NEW asset, NEW type, NEW a, NEW t
    PROVE  Marked(Object(o, account, id, asset, type), a, t) = Object(o, account, id, a, t)
<1> DEFINE T == [account : {account}, id : {id}, asset : {a}, min_units : {1},
                 max_units : {1}, price_sat : {o.price_sat}, type : {t}, locked : {Unset}]
<1>1. PICK j : j = Object(o, account, id, asset, type)
  OBVIOUS
<1>2. Marked(j, a, t) \in T
  BY <1>1 DEF Object, Marked
<1>3. Object(o, account, id, a, t) \in T
  BY DEF Object
<1>4. \A x, y \in T : x = y
  OBVIOUS
<1> HIDE DEF T
<1> QED BY <1>1, <1>2, <1>3, <1>4

(* An order of the book, when it is shown and passed back.                 *)
LEMMA BookRoundTrip ==
    ASSUME NEW book \in Books, NEW asset \in {1, 2}, NEW type \in {"ask", "bid"},
           NEW p \in Slots(book, asset, type)
    PROVE  LET x == Listed(book, p)
               json == Marked(OrderToJson(x), Unset, Unset)
               back == OrderFromJson(Marked(json, asset, type)) IN
           /\ back = Object(x, p[1], p[2], asset, type)
           /\ back = Normalised(Entry(book, p))
<1>1. PICK a \in BookAccount, id \in BookId : a = p[1] /\ id = p[2]
  BY EntryMembers
<1>2. PICK x \in Offer : x = Listed(book, p)
  BY EntryMembers
<1>3. PICK price : price = book[a][id].price_sat
  OBVIOUS
<1>4. x = [account |-> a, id |-> id, asset |-> Unset, min_units |-> Unset,
           max_units |-> 1, price_sat |-> price, type |-> Unset, locked |-> Unset]
  BY <1>1, <1>2, <1>3, EntryMembers
<1>5. PICK e : e = Entry(book, p)
  OBVIOUS
<1>6. e = [account |-> a, id |-> id, asset |-> asset, min_units |-> Unset,
           max_units |-> 1, price_sat |-> price, type |-> type, locked |-> Unset]
  BY <1>1, <1>3, <1>5, EntryMembers
<1>7. x.account = a /\ x.id = id /\ x.price_sat = price /\ price \in Price
  BY <1>4 DEF Offer
<1>8. OrderToJson(x) = Object(x, a, id, x.asset, x.type)
  BY <1>7, ShownOffer
<1>9. Marked(OrderToJson(x), Unset, Unset) = Object(x, a, id, Unset, Unset)
  BY <1>8, ObjectUpdate
<1>10. Marked(Object(x, a, id, Unset, Unset), asset, type) = Object(x, a, id, asset, type)
  BY ObjectUpdate
<1>11. OrderFromJson(Object(x, a, id, asset, type)) = Object(x, a, id, asset, type)
  <2>1. id \in Int /\ 0 <= id
    BY BookNumbers
  <2> QED BY <2>1, ObjectAccepted
<1>12. Normalised(e) = Object(x, a, id, asset, type)
  <2>1. Get(e.min_units, 1) = 1 /\ Get(e.price_sat, 0) = price
    BY <1>6, <1>7, BookNumbers DEF Get
  <2>2. Normalised(e) = [e EXCEPT !.min_units = 1, !.price_sat = price, !.locked = Unset]
    BY <2>1 DEF Normalised
  <2> QED BY <1>6, <1>7, <2>2 DEF Object
<1> QED BY <1>1, <1>2, <1>5, <1>9, <1>10, <1>11, <1>12

(* A side of the order book is listed completely, each order once, in an   *)
(* order that nothing but the book determines.                             *)
LEMMA SideListed ==
    ASSUME NEW book \in Books, NEW asset \in {1, 2}, NEW type \in {"ask", "bid"},
           NEW side \in GetForAsset(book, asset, type)
    PROVE  BookListed([book |-> book, asset |-> asset, type |-> type],
                      OrderbookSideToJson(side))
<1>1. PICK U : U = AddOrderForAsset(book, asset, type)
  OBVIOUS
<1>2. PICK n \in Nat : n = Cardinality(U)
  BY <1>1, SideReturned
<1>3. /\ side \in [1 .. n -> U]
      /\ GetForAsset(book, asset, type) = {side}
      /\ \A x \in U : \E i \in 1 .. n : side[i] = x
      /\ \A i, j \in 1 .. n : side[i] = side[j] => i = j
      /\ \A i, j \in 1 .. n : i < j =>
            IF type = "ask" THEN side[i].price_sat <= side[j].price_sat
                            ELSE side[i].price_sat >= side[j].price_sat
  BY <1>1, <1>2, SideReturned
<1>4. PICK P : P = Slots(book, asset, type)
  OBVIOUS
<1>5. U = {Listed(book, p) : p \in P}
  BY <1>1, <1>4, EntriesOfSlots
<1>6. PICK out : out = OrderbookSideToJson(side)
  OBVIOUS
<1>7. out = [i \in 1 .. n |-> Marked(OrderToJson(side[i]), Unset, Unset)]
  BY <1>3, <1>6, Zenon DEF OrderbookSideToJson, Marked
<1>8. PICK back : back = [i \in 1 .. n |-> OrderFromJson(Marked(out[i], asset, type))]
  OBVIOUS
<1>9. ASSUME NEW i \in 1 .. n
      PROVE  \E p \in P : /\ side[i] = Listed(book, p)
                           /\ back[i] = Normalised(Entry(book, p))
                           /\ back[i].account = side[i].account /\ back[i].id = side[i].id
                           /\ back[i].price_sat = side[i].price_sat
  <2>1. PICK p \in P : side[i] = Listed(book, p)
    BY <1>3, <1>5
  <2>2. PICK x : x = Listed(book, p)
    OBVIOUS
  <2>3. back[i] = OrderFromJson(Marked(Marked(OrderToJson(x), Unset, Unset), asset, type))
    BY <1>7, <1>8, <2>1, <2>2
  <2>4. back[i] = Object(x, p[1], p[2], asset, type) /\ back[i] = Normalised(Entry(book, p))
    BY <1>4, <2>2, <2>3, BookRoundTrip
  <2>5. x.account = p[1] /\ x.id = p[2]
    <3>1. x = [account |-> p[1], id |-> p[2], asset |-> Unset, min_units |-> Unset,
               max_units |-> 1, price_sat |-> book[p[1]][p[2]].price_sat,
               type |-> Unset, locked |-> Unset]
      BY <1>4, <2>2, EntryMembers
    <3> QED BY <3>1
  <2>6. /\ back[i].account = p[1] /\ back[i].id = p[2]
        /\ back[i].price_sat = x.price_sat
    BY <2>4 DEF Object
  <2> QED BY <2>1, <2>2, <2>4, <2>5, <2>6
<1>10. Range(back) = {Normalised(e) : e \in {x \in Entries(book) :
                                                x.asset = asset /\ x.type = type}}
  <2>1. {x \in Entries(book) : x.asset = asset /\ x.type = type} = {Entry(book, p) : p \in P}
    BY <1>4, EntriesOfSlots
  <2>2. ASSUME NEW p \in P PROVE \E i \in 1 .. n : back[i] = Normalised(Entry(book, p))
    <3>1. PICK i \in 1 .. n : side[i] = Listed(book, p)
      BY <1>3, <1>5
    <3>2. back[i] = OrderFromJson(Marked(Marked(OrderToJson(Listed(book, p)), Unset, Unset),
                                         asset, type))
      BY <1>7, <1>8, <3>1
    <3> QED BY <1>4, <3>2, BookRoundTrip
  <2>3. Range(back) = {back[i] : i \in 1 .. n}
    BY <1>8 DEF Range
  <2>4. {back[i] : i \in 1 .. n} = {Normalised(Entry(book, p)) : p \in P}
    BY <1>9, <2>2
  <2> QED BY <2>1, <2>3, <2>4
<1>11. \A i, j \in 1 .. n : back[i] = back[j] => i = j
  <2> SUFFICES ASSUME NEW i \in 1 .. n, NEW j \in 1 .. n, back[i] = back[j] PROVE i = j
    OBVIOUS
  <2>1. side[i].account = side[j].account /\ side[i].id = side[j].id
    BY <1>9
  <2>2. side[i] \in U /\ side[j] \in U
    BY <1>3
  <2>3. side[i] = side[j]
    BY <1>1, <2>1, <2>2, SideEntries
  <2> QED BY <1>3, <2>3
<1>12. \A i, j \in 1 .. n : i < j =>
          IF type = "ask" THEN back[i].price_sat <= back[j].price_sat
                          ELSE back[i].price_sat >= back[j].price_sat
  <2>1. \A i \in 1 .. n : back[i].price_sat = side[i].price_sat
    BY <1>9
  <2> QED BY <1>3, <2>1
<1>13. Cardinality(GetForAsset(book, asset, type)) = 1
  BY <1>3, FS_Singleton
<1>14. DOMAIN out = 1 .. n /\ DOMAIN back = 1 .. n
  BY <1>7, <1>8
<1>15. IsInjective(back)
  BY <1>11, <1>14 DEF IsInjective
<1>16. back = [i \in DOMAIN out |->
                 OrderFromJson([out[i] EXCEPT !.asset = asset, !.type = type])]
  BY <1>8, <1>14, Zenon DEF Marked
<1>17. PICK in : in = [book |-> book, asset |-> asset, type |-> type]
  OBVIOUS
<1>18. in.book = book /\ in.asset = asset /\ in.type = type
  BY <1>17
<1>19. BookListed(in, out)
  BY <1>10, <1>12, <1>13, <1>14, <1>15, <1>16, <1>18, Zenon DEF BookListed
<1> QED BY <1>6, <1>17, <1>19

(* The listings of the order book and of one's own orders are complete,    *)
(* sorted and unambiguous, with any number of accounts and orders.         *)
THEOREM ListingsAreComplete == Spec => []OrdersAreListed
<1>1. Init => OrdersAreListed
  BY DEF Init, OrdersAreListed
<1>2. OrdersAreListed /\ [Next]_query => OrdersAreListed'
  <2> SUFFICES ASSUME OrdersAreListed, [Next]_query PROVE OrdersAreListed'
    OBVIOUS
  <2>1. CASE UNCHANGED query
    BY <2>1 DEF OrdersAreListed
  <2>2. CASE ShowBook
    <3>1. PICK book \in Books, asset \in {1, 2}, type \in {"ask", "bid"} :
            \E side \in GetForAsset(book, asset, type) :
               query' = [op |-> "book",
                         in |-> [book |-> book, asset |-> asset, type |-> type],
                         out |-> OrderbookSideToJson(side)]
      BY <2>2, Zenon DEF ShowBook, Do, Books
    <3>2. PICK side \in GetForAsset(book, asset, type) :
            query' = [op |-> "book", in |-> [book |-> book, asset |-> asset, type |-> type],
                      out |-> OrderbookSideToJson(side)]
      BY <3>1
    <3>3. PICK in, out : /\ in = [book |-> book, asset |-> asset, type |-> type]
                         /\ out = OrderbookSideToJson(side)
      OBVIOUS
    <3>4. query' = [op |-> "book", in |-> in, out |-> out]
      BY <3>2, <3>3
    <3>5. query'.op = "book" /\ query'.in = in /\ query'.out = out
      BY <3>4
    <3>6. BookListed(in, out)
      BY <3>3, SideListed
    <3>7. query'.op # "own"
      BY <3>5
    <3> QED BY <3>5, <3>6, <3>7 DEF OrdersAreListed
  <2>3. CASE ShowOwnOrders
    <3>1. PICK ids \in SUBSET OwnId : \E orders \in [ids -> BookOrder] :
            query' = [op |-> "own", in |-> orders, out |-> OrdersOfAccountToJson(orders)]
      BY <2>3, Zenon DEF ShowOwnOrders, Do
    <3>2. PICK orders \in [ids -> BookOrder] :
            query' = [op |-> "own", in |-> orders, out |-> OrdersOfAccountToJson(orders)]
      BY <3>1
    <3>3. PICK out : out = OrdersOfAccountToJson(orders)
      OBVIOUS
    <3>4. query'.op = "own" /\ query'.in = orders /\ query'.out = out
      BY <3>2, <3>3
    <3>5. OwnOrdersListed(orders, out)
      BY <3>3, OwnListed
    <3>6. query'.op # "book"
      BY <3>4
    <3> QED BY <3>4, <3>5, <3>6 DEF OrdersAreListed
  <2>4. CASE AuthenticateJid \/ AuthenticateAccount \/ ConvertOrder \/ SplitAsset
    BY <2>4, OtherQueries DEF OrdersAreListed
  <2> QED BY <2>1, <2>2, <2>3, <2>4 DEF Next
<1> QED BY <1>1, <1>2, PTL DEF Spec
=============================================================================
