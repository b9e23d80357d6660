--------------------------------- MODULE Base64 ---------------------------------
(***************************************************************************)
(* QuestionsGenerator::Base64: the quiz site encodes its texts as encode   *)
(* does, and decode reads them.  Both push every character into an int     *)
(* that is never cleared and wraps around; valb and dvalb count the bits   *)
(* in it that are still to be taken out, less those of one symbol or byte. *)
(*                                                                         *)
(* The text is an input that grows one byte at a time until it is sent, so *)
(* what holds in every state holds for every text.  A symbol is its place  *)
(* in the string b of 64 characters.                                       *)
(***************************************************************************)
EXTENDS Integers, Sequences

CONSTANTS
  Bytes,           \* the bytes texts are made of
  Word,            \* number of values of an int, 2^32 in the program
  MaxBytes         \* bound on the length of the text

ASSUME BytesAssumption == Bytes \subseteq 0..255
ASSUME WordAssumption == Word \in Nat \ {0} /\ Word % 4096 = 0
ASSUME MaxBytesAssumption == MaxBytes \in Nat

Pad == 64   \* '=', which is not in b

VARIABLES
  bytes,        \* the text
  val, valb,    \* encode's
  coded,        \* encode's out, decode's in
  sent,         \* encode has returned
  dval, dvalb,  \* decode's val and valb
  taken,        \* number of symbols decode has read
  decoded,      \* decode's out
  done          \* decode has returned

encodeVars == <<bytes, val, valb, coded, sent>>
decodeVars == <<dval, dvalb, taken, decoded, done>>
base64Vars == <<encodeVars, decodeVars>>

Base64Init ==
  /\ bytes = << >>
  /\ val = 0
  /\ valb = -6
  /\ coded = << >>
  /\ sent = FALSE
  /\ dval = 0
  /\ dvalb = -8
  /\ taken = 0
  /\ decoded = << >>
  /\ done = FALSE

\* (value << k) + next in an int, where size is 2^k.
Push(value, size, next) == (value * size + next) % Word

\* (value >> bits) & mask, for a mask of ones.
Bits(value, bits, mask) == (value \div 2^bits) % (mask + 1)

(* Faulty variants of definitions below, to check that the properties notice *)
(* them.                                                                     *)

\* as many bits are taken out as in encode
TakeByte_Six(value, held) ==
  IF held >= 0
    THEN /\ decoded' = Append(decoded, Bits(value, held, 255))
         /\ dvalb' = held - 6
    ELSE /\ dvalb' = held
         /\ UNCHANGED decoded

-------------------------------------------------------------------------------
(* encode *)

\* A byte goes in, and one symbol comes out, or two when the bits of a third
\* byte are there.
EncodeByte(c) ==
  /\ ~sent
  /\ Len(bytes) < MaxBytes
  /\ bytes' = Append(bytes, c)
  /\ LET value == Push(val, 256, c)
         held == valb + 8
     IN /\ val' = value
        /\ IF held - 6 >= 0
             THEN /\ coded' = coded \o <<Bits(value, held, 63), Bits(value, held - 6, 63)>>
                  /\ valb' = held - 12
             ELSE /\ coded' = Append(coded, Bits(value, held, 63))
                  /\ valb' = held - 6
  /\ UNCHANGED <<sent, decodeVars>>

\* The bits that are left, with zeros after them.
LastSymbol ==
  IF valb > -6
    THEN Append(coded, Bits(Push(val, 256, 0), valb + 8, 63))
    ELSE coded

Padded(text) ==
  text \o (CASE Len(text) % 4 = 0 -> << >>
             [] Len(text) % 4 = 1 -> <<Pad, Pad, Pad>>
             [] Len(text) % 4 = 2 -> <<Pad, Pad>>
             [] Len(text) % 4 = 3 -> <<Pad>>)

FinishEncode ==
  /\ ~sent
  /\ sent' = TRUE
  /\ coded' = Padded(LastSymbol)
  /\ UNCHANGED <<bytes, val, valb, decodeVars>>

(* decode *)

TakeByte(value, held) ==
  IF held >= 0
    THEN /\ decoded' = Append(decoded, Bits(value, held, 255))
         /\ dvalb' = held - 8
    ELSE /\ dvalb' = held
         /\ UNCHANGED decoded

DecodeSymbol ==
  /\ sent
  /\ ~done
  /\ taken < Len(coded)
  /\ coded[taken + 1] # Pad
  /\ taken' = taken + 1
  /\ LET value == Push(dval, 64, coded[taken + 1]) IN
     /\ dval' = value
     /\ TakeByte(value, dvalb + 6)
  /\ UNCHANGED <<encodeVars, done>>

\* The text is over, or a character is not in b.
FinishDecode ==
  /\ sent
  /\ ~done
  /\ taken < Len(coded) => coded[taken + 1] = Pad
  /\ done' = TRUE
  /\ UNCHANGED <<encodeVars, dval, dvalb, taken, decoded>>

Base64Next ==
  \/ \E c \in Bytes : EncodeByte(c)
  \/ FinishEncode
  \/ DecodeSymbol
  \/ FinishDecode

Base64Spec == Base64Init /\ [][Base64Next]_base64Vars

-------------------------------------------------------------------------------
(* Properties *)

\* Texts come through: whatever their length and however often the ints have
\* wrapped around, decode returns what encode was given, and no byte on the
\* way to it is wrong.
RoundTrip ==
  /\ Len(decoded) <= Len(bytes)
  /\ \A i \in DOMAIN decoded : decoded[i] = bytes[i]
  /\ done => decoded = bytes

===============================================================================
