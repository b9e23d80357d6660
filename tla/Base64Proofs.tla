------------------------------ MODULE Base64Proofs ------------------------------
(***************************************************************************)
(* decode returns what encode was given, for texts of every length and an  *)
(* int of every width of at least 12 bits.                                 *)
(*                                                                         *)
(* A symbol is a function of the bytes around it (SymbolAt), and the only  *)
(* bits of the ints that are ever taken out are the last twelve, which are *)
(* a function of the last byte or symbol and the next one: wrapping around *)
(* does not touch them (Wrapped).                                          *)
(***************************************************************************)
EXTENDS Base64, TLAPS

Octets == 0..255
Symbols == 0..63

PushByte(value, c) == Push(value, 256, c)
PushSymbol(value, s) == Push(value, 64, s)
SymbolIn(value, bits) == Bits(value, bits, 63)
ByteIn(value, bits) == Bits(value, bits, 255)

Byte(text, i) == IF i <= Len(text) THEN text[i] ELSE 0

\* The four symbols of three bytes.
First(a) == a \div 4
Second(a, b) == (a % 4) * 16 + b \div 16
Third(b, c) == (b % 16) * 4 + c \div 64
Fourth(c) == c % 64

SymbolAt(text, j) ==
  LET i == 3 * ((j - 1) \div 4) IN
  CASE j % 4 = 1 -> First(Byte(text, i + 1))
    [] j % 4 = 2 -> Second(Byte(text, i + 1), Byte(text, i + 2))
    [] j % 4 = 3 -> Third(Byte(text, i + 2), Byte(text, i + 3))
    [] j % 4 = 0 -> Fourth(Byte(text, i + 3))

\* The bits of an int that count.
Sextet(x) == x % 64
Octet(x) == x % 256

\* The number of symbols of n bytes before and after the last one.
Whole(n) == 4 * (n \div 3) + (n % 3)
Total(n) == IF n % 3 = 0 THEN Whole(n) ELSE Whole(n) + 1

EncodeTypes ==
  /\ bytes \in Seq(Octets)
  /\ coded \in Seq(0..64)
  /\ val \in Nat
  /\ sent \in BOOLEAN

Held ==
  /\ valb = 2 * (Len(bytes) % 3) - 6
  /\ Len(bytes) > 0 => Octet(val) = bytes[Len(bytes)]

Growing ==
  ~sent => /\ Len(coded) = Whole(Len(bytes))
           /\ \A j \in 1..Len(coded) : coded[j] = SymbolAt(bytes, j)

Complete ==
  sent => /\ Len(coded) >= Total(Len(bytes))
          /\ \A j \in 1..Total(Len(bytes)) : coded[j] = SymbolAt(bytes, j)
          /\ \A j \in 1..Len(coded) : j > Total(Len(bytes)) => coded[j] = Pad

EncodeInv == EncodeTypes /\ Held /\ Growing /\ Complete

DecodeTypes ==
  /\ decoded \in Seq(Octets)
  /\ dval \in Nat
  /\ taken \in 0..Total(Len(bytes))
  /\ done \in BOOLEAN

\* decode has not begun before encode has returned
Waiting == ~sent => taken = 0 /\ ~done

DecodeHeld ==
  /\ dvalb = IF taken % 4 = 0 THEN -8 ELSE -(2 * (taken % 4))
  /\ taken > 0 => Sextet(dval) = coded[taken]

\* The number of bytes that k symbols give.
BytesOf(k) == 3 * (k \div 4) + (IF k % 4 = 0 THEN 0 ELSE (k % 4) - 1)

ReadSoFar ==
  /\ Len(decoded) = BytesOf(taken)
  /\ \A i \in 1..Len(decoded) : decoded[i] = Byte(bytes, i)

Stopped == done => taken = Total(Len(bytes))

DecodeInv == DecodeTypes /\ Waiting /\ DecodeHeld /\ ReadSoFar /\ Stopped

IInv == EncodeInv /\ DecodeInv

-------------------------------------------------------------------------------
(* Arithmetic. *)

\* Wrapping around leaves the last twelve bits.
LEMMA Wrapped ==
  ASSUME NEW x \in Nat
  PROVE  x % Word \in Nat /\ (x % Word) % 4096 = x % 4096
<1>1. Word \in Nat \ {0} /\ Word % 4096 = 0
  BY WordAssumption
<1>2. PICK k \in Nat : Word = 4096 * k
  BY <1>1
<1> DEFINE q == x \div Word
<1> DEFINE r == x % Word
<1>3. x = Word * q + r
  BY <1>1
<1>4. q \in Int /\ r \in Nat
  BY <1>1
<1> HIDE DEF q, r
<1> DEFINE m == k * q
<1>5. x = 4096 * m + r
  BY <1>2, <1>3, <1>4
<1>6. m \in Int
  BY <1>2, <1>4
<1> HIDE DEF m
<1>7. r % 4096 = x % 4096
  BY <1>4, <1>5, <1>6
<1> QED
  BY <1>4, <1>7 DEF r

Low(x) == x % 4096

\* The last bits of an int after a byte or a symbol has been pushed into it.
LEMMA BytePushed ==
  ASSUME NEW v \in Nat, NEW c \in Octets
  PROVE  /\ PushByte(v, c) \in Nat
         /\ Low(PushByte(v, c)) = (v % 16) * 256 + c
<1> DEFINE x == v * 256 + c
<1>1. x \in Nat /\ x % 4096 = (v % 16) * 256 + c
  BY DEF Octets, Symbols
<1>2. PushByte(v, c) = x % Word
  BY DEF Push, PushByte, PushSymbol, Octets, Symbols
<1> HIDE DEF x
<1> QED
  BY <1>1, <1>2, Wrapped DEF Low

LEMMA SymbolPushed ==
  ASSUME NEW v \in Nat, NEW s \in Symbols
  PROVE  /\ PushSymbol(v, s) \in Nat
         /\ Low(PushSymbol(v, s)) = (v % 64) * 64 + s
         /\ Sextet(PushSymbol(v, s)) = s
<1> DEFINE x == v * 64 + s
<1>1. x \in Nat /\ x % 4096 = (v % 64) * 64 + s
  BY DEF Octets, Symbols
<1>2. PushSymbol(v, s) = x % Word
  BY DEF Push, PushByte, PushSymbol, Octets, Symbols
<1> HIDE DEF x
<1> DEFINE w == PushSymbol(v, s)
<1>3. w \in Nat /\ w % 4096 = (v % 64) * 64 + s
  BY <1>1, <1>2, Wrapped
<1> HIDE DEF w
<1>4. w % 64 = s
  BY <1>3 DEF Symbols
<1> QED
  BY <1>3, <1>4 DEF w, Low, Sextet

\* The symbols that a byte gives, and the byte that two symbols give.
LEMMA SymbolsOfByte ==
  ASSUME NEW v \in Nat, NEW c \in Octets
  PROVE  /\ PushByte(v, c) \in Nat
         /\ Octet(PushByte(v, c)) = c
         /\ SymbolIn(PushByte(v, c), 2) = First(c)
         /\ SymbolIn(PushByte(v, c), 0) = Fourth(c)
<1> DEFINE w == PushByte(v, c)
<1>1. w \in Nat /\ Low(w) = (v % 16) * 256 + c
  BY BytePushed, Zenon
<1> HIDE DEF w
<1>2. w % 256 = c /\ w % 64 = c % 64
  BY <1>1 DEF Low, Octets, Symbols
<1>3. SymbolIn(w, 0) = w % 64
  BY <1>1, 2^0 = 1 DEF Bits, SymbolIn, ByteIn
<1>4. SymbolIn(w, 2) = (w % 256) \div 4
  BY <1>1, 2^2 = 4 DEF Bits, SymbolIn, ByteIn
<1> QED
  BY <1>1, <1>2, <1>3, <1>4 DEF w, Octet, First, Fourth

LEMMA SymbolsOfTwo ==
  ASSUME NEW v \in Nat, NEW b \in Octets, NEW c \in Octets, Octet(v) = b
  PROVE  /\ SymbolIn(PushByte(v, c), 4) = Second(b, c)
         /\ SymbolIn(PushByte(v, c), 6) = Third(b, c)
<1> DEFINE w == PushByte(v, c)
<1>1. w \in Nat /\ Low(w) = (v % 16) * 256 + c
  BY BytePushed, Zenon
<1> HIDE DEF w
<1>2. v % 16 = b % 16
  BY DEF Octet
<1>3. w % 4096 = (b % 16) * 256 + c
  BY <1>1, <1>2 DEF Low
<1>4. w % 1024 = (b % 4) * 256 + c
  BY <1>1, <1>3 DEF Octets, Symbols
<1>5. SymbolIn(w, 4) = (w % 1024) \div 16
  BY <1>1, 2^4 = 16 DEF Bits, SymbolIn, ByteIn
<1>6. SymbolIn(w, 6) = (w % 4096) \div 64
  BY <1>1, 2^6 = 64 DEF Bits, SymbolIn, ByteIn
<1>7. (w % 1024) \div 16 = (b % 4) * 16 + c \div 16
  BY <1>4 DEF Octets, Symbols
<1>8. (w % 4096) \div 64 = (b % 16) * 4 + c \div 64
  BY <1>3 DEF Octets, Symbols
<1> QED
  BY <1>5, <1>6, <1>7, <1>8 DEF w, Second, Third

\* decode's arithmetic: the byte a that two symbols in a row give, whatever the
\* bytes before and after it are.
Pulled(v, s, b, a, c) ==
  /\ Sextet(v) = First(a) /\ s = Second(a, c) => ByteIn(PushSymbol(v, s), 4) = a
  /\ Sextet(v) = Second(b, a) /\ s = Third(a, c) => ByteIn(PushSymbol(v, s), 2) = a
  /\ Sextet(v) = Third(b, a) /\ s = Fourth(a) => ByteIn(PushSymbol(v, s), 0) = a

LEMMA ByteOfSymbols ==
  ASSUME NEW v \in Nat, NEW s \in Symbols,
         NEW a \in Octets, NEW b \in Octets, NEW c \in Octets
  PROVE  Pulled(v, s, b, a, c)
<1> DEFINE p == Sextet(v)
<1>p. p \in Symbols
  BY DEF Sextet, Symbols
<1> DEFINE w == PushSymbol(v, s)
<1>0. w \in Nat /\ Low(w) = (v % 64) * 64 + s
  BY SymbolPushed, Zenon
<1> HIDE DEF w
<1>1. w % 4096 = p * 64 + s
  BY <1>0 DEF Low, Sextet
<1> HIDE DEF p
<1>2. ByteIn(w, 0) = w % 256
  BY <1>0, 2^0 = 1 DEF Bits, SymbolIn, ByteIn
<1>3. ByteIn(w, 2) = (w % 1024) \div 4
  BY <1>0, 2^2 = 4 DEF Bits, SymbolIn, ByteIn
<1>4. ByteIn(w, 4) = (w % 4096) \div 16
  BY <1>0, 2^4 = 16 DEF Bits, SymbolIn, ByteIn
<1>5. p = a \div 4 /\ s = (a % 4) * 16 + c \div 16 => (w % 4096) \div 16 = a
  BY <1>1, <1>p DEF Octets, Symbols
<1>6. w % 1024 = (p % 16) * 64 + s
  BY <1>0, <1>1, <1>p DEF Octets, Symbols
<1>7. w % 256 = (p % 4) * 64 + s
  BY <1>0, <1>1, <1>p DEF Octets, Symbols
<1>8. ASSUME p = (b % 4) * 16 + a \div 16, s = (a % 16) * 4 + c \div 64
      PROVE  (w % 1024) \div 4 = a
  <2>1. p % 16 = a \div 16
    BY <1>8 DEF Octets, Symbols
  <2>2. w % 1024 = (a \div 16) * 64 + (a % 16) * 4 + c \div 64
    BY <1>6, <1>8, <2>1 DEF Octets, Symbols
  <2> QED
    BY <2>2 DEF Octets, Symbols
<1>9. ASSUME p = (b % 16) * 4 + a \div 64, s = a % 64
      PROVE  w % 256 = a
  <2>1. p % 4 = a \div 64
    BY <1>9 DEF Octets, Symbols
  <2> QED
    BY <1>7, <1>9, <2>1 DEF Octets, Symbols
<1> QED
  BY <1>2, <1>3, <1>4, <1>5, <1>8, <1>9 DEF Pulled, w, p, First, Second, Third, Fourth

-------------------------------------------------------------------------------
(* Symbols. *)

LEMMA SymbolsAreSymbols ==
  ASSUME NEW a \in Octets, NEW b \in Octets
  PROVE  /\ First(a) \in Symbols
         /\ Second(a, b) \in Symbols
         /\ Third(a, b) \in Symbols
         /\ Fourth(a) \in Symbols
<1>1. First(a) \in Symbols /\ Fourth(a) \in Symbols
  BY DEF First, Fourth, Octets, Symbols
<1>2. Second(a, b) \in Symbols
  BY DEF Second, Octets, Symbols
<1>3. Third(a, b) \in Symbols
  BY DEF Third, Octets, Symbols
<1> QED
  BY <1>1, <1>2, <1>3

LEMMA ByteType ==
  ASSUME NEW t \in Seq(Octets), NEW i \in Nat \ {0}
  PROVE  Byte(t, i) \in Octets
<1>0. PICK n \in Nat : n = Len(t)
  OBVIOUS
<1>1. CASE i <= Len(t)
  <2>1. i \in 1..n
    BY <1>0, <1>1
  <2>2. t[i] \in Octets
    BY <1>0, <2>1
  <2> QED
    BY <1>1, <2>2 DEF Byte
<1>2. CASE ~(i <= Len(t))
  BY <1>2 DEF Byte, Octets, Symbols
<1> QED
  BY <1>1, <1>2

\* What a symbol is made of, by its place.
LEMMA SymbolCases ==
  ASSUME NEW t, NEW i \in Nat
  PROVE  /\ SymbolAt(t, 4 * i + 1) = First(Byte(t, 3 * i + 1))
         /\ SymbolAt(t, 4 * i + 2) = Second(Byte(t, 3 * i + 1), Byte(t, 3 * i + 2))
         /\ SymbolAt(t, 4 * i + 3) = Third(Byte(t, 3 * i + 2), Byte(t, 3 * i + 3))
         /\ SymbolAt(t, 4 * i + 4) = Fourth(Byte(t, 3 * i + 3))
<1>1. SymbolAt(t, 4 * i + 1) = First(Byte(t, 3 * i + 1))
  <2>1. (4 * i + 1) % 4 = 1 /\ 3 * (((4 * i + 1) - 1) \div 4) = 3 * i
    OBVIOUS
  <2> QED
    BY <2>1 DEF SymbolAt
<1>2. SymbolAt(t, 4 * i + 2) = Second(Byte(t, 3 * i + 1), Byte(t, 3 * i + 2))
  <2>1. (4 * i + 2) % 4 = 2 /\ 3 * (((4 * i + 2) - 1) \div 4) = 3 * i
    OBVIOUS
  <2> QED
    BY <2>1 DEF SymbolAt
<1>3. SymbolAt(t, 4 * i + 3) = Third(Byte(t, 3 * i + 2), Byte(t, 3 * i + 3))
  <2>1. (4 * i + 3) % 4 = 3 /\ 3 * (((4 * i + 3) - 1) \div 4) = 3 * i
    OBVIOUS
  <2> QED
    BY <2>1 DEF SymbolAt
<1>4. SymbolAt(t, 4 * i + 4) = Fourth(Byte(t, 3 * i + 3))
  <2>1. (4 * i + 4) % 4 = 0 /\ 3 * (((4 * i + 4) - 1) \div 4) = 3 * i
    OBVIOUS
  <2> QED
    BY <2>1 DEF SymbolAt
<1> QED
  BY <1>1, <1>2, <1>3, <1>4

\* The place of a symbol.
LEMMA Places ==
  ASSUME NEW j \in Nat \ {0}
  PROVE  \E i \in Nat : j \in {4 * i + 1, 4 * i + 2, 4 * i + 3, 4 * i + 4}
<1> DEFINE i == (j - 1) \div 4
<1>1. i \in Nat
  OBVIOUS
<1>2. j - 1 = 4 * i + ((j - 1) % 4) /\ (j - 1) % 4 \in 0..3
  OBVIOUS
<1> HIDE DEF i
<1>3. j \in {4 * i + 1, 4 * i + 2, 4 * i + 3, 4 * i + 4}
  BY <1>1, <1>2
<1> QED
  BY <1>1, <1>3

LEMMA SymbolAtType ==
  ASSUME NEW t \in Seq(Octets), NEW j \in Nat \ {0}
  PROVE  SymbolAt(t, j) \in Symbols
<1>1. PICK i \in Nat : j \in {4 * i + 1, 4 * i + 2, 4 * i + 3, 4 * i + 4}
  BY Places
<1>2. PICK a \in Octets, b \in Octets, c \in Octets :
        a = Byte(t, 3 * i + 1) /\ b = Byte(t, 3 * i + 2) /\ c = Byte(t, 3 * i + 3)
  <2>1. /\ 3 * i + 1 \in Nat \ {0}
        /\ 3 * i + 2 \in Nat \ {0}
        /\ 3 * i + 3 \in Nat \ {0}
    OBVIOUS
  <2>2. /\ Byte(t, 3 * i + 1) \in Octets
        /\ Byte(t, 3 * i + 2) \in Octets
        /\ Byte(t, 3 * i + 3) \in Octets
    BY <2>1, ByteType, Zenon
  <2> QED
    BY <2>2, Zenon
<1>3. /\ SymbolAt(t, 4 * i + 1) = First(a)
      /\ SymbolAt(t, 4 * i + 2) = Second(a, b)
      /\ SymbolAt(t, 4 * i + 3) = Third(b, c)
      /\ SymbolAt(t, 4 * i + 4) = Fourth(c)
  BY <1>2, SymbolCases, Zenon
<1>4. First(a) \in Symbols /\ Second(a, b) \in Symbols /\ Third(b, c) \in Symbols /\ Fourth(c) \in Symbols
  <2>1. First(a) \in Symbols /\ Second(a, b) \in Symbols
    BY SymbolsAreSymbols, Zenon
  <2>2. Third(b, c) \in Symbols
    BY SymbolsAreSymbols, Zenon
  <2>3. Fourth(c) \in Symbols
    BY SymbolsAreSymbols, Zenon
  <2> QED
    BY <2>1, <2>2, <2>3
<1>5. /\ SymbolAt(t, 4 * i + 1) \in Symbols
      /\ SymbolAt(t, 4 * i + 2) \in Symbols
      /\ SymbolAt(t, 4 * i + 3) \in Symbols
      /\ SymbolAt(t, 4 * i + 4) \in Symbols
  BY <1>3, <1>4, Zenon
<1>6. j = 4 * i + 1 \/ j = 4 * i + 2 \/ j = 4 * i + 3 \/ j = 4 * i + 4
  BY <1>1
<1> QED
  BY <1>5, <1>6, Zenon

\* A text by its length.
LEMMA Lengths ==
  ASSUME NEW n \in Nat
  PROVE  /\ Whole(n) \in Nat /\ Total(n) \in Nat
         /\ \E m \in Nat :
              \/ /\ n = 3 * m /\ n % 3 = 0
                 /\ Whole(n) = 4 * m /\ Total(n) = 4 * m
              \/ /\ n = 3 * m + 1 /\ n % 3 = 1
                 /\ Whole(n) = 4 * m + 1 /\ Total(n) = 4 * m + 2
              \/ /\ n = 3 * m + 2 /\ n % 3 = 2
                 /\ Whole(n) = 4 * m + 2 /\ Total(n) = 4 * m + 3
<1> DEFINE m == n \div 3
<1>1. m \in Nat /\ n = 3 * m + (n % 3) /\ n % 3 \in {0, 1, 2}
  OBVIOUS
<1>2. Whole(n) = 4 * m + (n % 3)
  BY DEF Whole
<1> HIDE DEF m
<1>3. Whole(n) \in Nat /\ Total(n) \in Nat
  BY <1>1, <1>2 DEF Total
<1>4. \/ n = 3 * m /\ n % 3 = 0 /\ Whole(n) = 4 * m /\ Total(n) = 4 * m
      \/ n = 3 * m + 1 /\ n % 3 = 1 /\ Whole(n) = 4 * m + 1 /\ Total(n) = 4 * m + 2
      \/ n = 3 * m + 2 /\ n % 3 = 2 /\ Whole(n) = 4 * m + 2 /\ Total(n) = 4 * m + 3
  BY <1>1, <1>2 DEF Total
<1> QED
  BY <1>1, <1>3, <1>4

-------------------------------------------------------------------------------
(* encode *)

LEMMA Appended ==
  ASSUME NEW t \in Seq(Octets), NEW c \in Octets, NEW n \in Nat, n = Len(t)
  PROVE  /\ Append(t, c) \in Seq(Octets)
         /\ Len(Append(t, c)) = n + 1
         /\ Byte(Append(t, c), n + 1) = c
         /\ Append(t, c)[n + 1] = c
         /\ \A i \in 1..n : Byte(Append(t, c), i) = Byte(t, i)
<1> DEFINE u == Append(t, c)
<1>1. u \in Seq(Octets) /\ Len(u) = n + 1 /\ u[n + 1] = c /\ \A i \in 1..n : u[i] = t[i]
  OBVIOUS
<1> HIDE DEF u
<1>2. Byte(u, n + 1) = c
  BY <1>1 DEF Byte
<1>3. \A i \in 1..n : Byte(u, i) = Byte(t, i)
  BY <1>1 DEF Byte
<1> QED
  BY <1>1, <1>2, <1>3 DEF u

\* One more byte changes no symbol that is already there.
LEMMA OldSymbols ==
  ASSUME NEW t \in Seq(Octets), NEW c \in Octets, NEW j \in 1..Whole(Len(t))
  PROVE  SymbolAt(Append(t, c), j) = SymbolAt(t, j)
<1>1. PICK n \in Nat : n = Len(t)
  OBVIOUS
<1>2. PICK u : u = Append(t, c)
  OBVIOUS
<1>3. \A k \in 1..n : Byte(u, k) = Byte(t, k)
  <2>1. \A k \in 1..n : Byte(Append(t, c), k) = Byte(t, k)
    BY <1>1, Appended, Zenon
  <2> QED
    BY <1>2, <2>1, Zenon
<1>4. PICK m \in Nat : \/ n = 3 * m /\ Whole(n) = 4 * m
                       \/ n = 3 * m + 1 /\ Whole(n) = 4 * m + 1
                       \/ n = 3 * m + 2 /\ Whole(n) = 4 * m + 2
  BY Lengths
<1>5. j \in Nat \ {0} /\ j <= Whole(n)
  BY <1>1, <1>4
<1>6. PICK i \in Nat : j = 4 * i + 1 \/ j = 4 * i + 2 \/ j = 4 * i + 3 \/ j = 4 * i + 4
  BY <1>5, Places
<1>7. CASE j = 4 * i + 1
  <2>1. 3 * i + 1 \in 1..n
    BY <1>4, <1>5, <1>7
  <2>2. Byte(u, 3 * i + 1) = Byte(t, 3 * i + 1)
    BY <1>3, <2>1, Zenon
  <2> QED
    BY <1>2, <1>7, <2>2, SymbolCases, Zenon
<1>8. CASE j = 4 * i + 2
  <2>1. 3 * i + 1 \in 1..n /\ 3 * i + 2 \in 1..n
    BY <1>4, <1>5, <1>8
  <2>2. Byte(u, 3 * i + 1) = Byte(t, 3 * i + 1) /\ Byte(u, 3 * i + 2) = Byte(t, 3 * i + 2)
    BY <1>3, <2>1, Zenon
  <2> QED
    BY <1>2, <1>8, <2>2, SymbolCases, Zenon
<1>9. CASE j = 4 * i + 3
  <2>1. 3 * i + 2 \in 1..n /\ 3 * i + 3 \in 1..n
    BY <1>4, <1>5, <1>9
  <2>2. Byte(u, 3 * i + 2) = Byte(t, 3 * i + 2) /\ Byte(u, 3 * i + 3) = Byte(t, 3 * i + 3)
    BY <1>3, <2>1, Zenon
  <2> QED
    BY <1>2, <1>9, <2>2, SymbolCases, Zenon
<1>10. CASE j = 4 * i + 4
  <2>1. 3 * i + 3 \in 1..n
    BY <1>4, <1>5, <1>10
  <2>2. Byte(u, 3 * i + 3) = Byte(t, 3 * i + 3)
    BY <1>3, <2>1, Zenon
  <2> QED
    BY <1>2, <1>10, <2>2, SymbolCases, Zenon
<1> QED
  BY <1>6, <1>7, <1>8, <1>9, <1>10

\* The symbols that are taken out of the int x are the next ones of the text u,
\* whose last byte has just been pushed: n and m say where in the text that is.
Emitted(u, x, n, m) ==
  /\ n = 3 * m => SymbolAt(u, 4 * m + 1) = SymbolIn(x, 2)
  /\ n = 3 * m + 1 => SymbolAt(u, 4 * m + 2) = SymbolIn(x, 4)
  /\ n = 3 * m + 2 => /\ SymbolAt(u, 4 * m + 3) = SymbolIn(x, 6)
                      /\ SymbolAt(u, 4 * m + 4) = SymbolIn(x, 0)

LEMMA PushedSymbols ==
  ASSUME NEW t \in Seq(Octets), NEW c \in Octets, NEW v \in Nat, NEW n \in Nat, NEW m \in Nat,
         n = Len(t), n > 0 => Octet(v) = t[n]
  PROVE  Emitted(Append(t, c), PushByte(v, c), n, m)
<1>1. PICK u : u = Append(t, c)
  OBVIOUS
<1>2. PICK w : w = PushByte(v, c)
  OBVIOUS
<1>3. Byte(u, n + 1) = c /\ \A i \in 1..n : Byte(u, i) = Byte(t, i)
  <2>1. /\ Byte(Append(t, c), n + 1) = c
        /\ \A i \in 1..n : Byte(Append(t, c), i) = Byte(t, i)
    BY Appended, Zenon
  <2> QED
    BY <1>1, <2>1, Zenon
<1>4. SymbolIn(w, 2) = First(c) /\ SymbolIn(w, 0) = Fourth(c)
  <2>1. /\ SymbolIn(PushByte(v, c), 2) = First(c)
        /\ SymbolIn(PushByte(v, c), 0) = Fourth(c)
    BY SymbolsOfByte, Zenon
  <2> QED
    BY <1>2, <2>1, Zenon
<1>5. ASSUME n > 0
      PROVE  SymbolIn(w, 4) = Second(Byte(u, n), c) /\ SymbolIn(w, 6) = Third(Byte(u, n), c)
  <2>1. n \in 1..n /\ t[n] \in Octets /\ Byte(t, n) = t[n]
    BY <1>5 DEF Byte
  <2>2. PICK b \in Octets : b = t[n]
    BY <2>1
  <2>3. Octet(v) = b /\ Byte(u, n) = b
    BY <1>3, <1>5, <2>1, <2>2
  <2>4. SymbolIn(w, 4) = Second(b, c) /\ SymbolIn(w, 6) = Third(b, c)
    <3>1. /\ SymbolIn(PushByte(v, c), 4) = Second(b, c)
          /\ SymbolIn(PushByte(v, c), 6) = Third(b, c)
      BY <2>3, SymbolsOfTwo, Zenon
    <3> QED
      BY <1>2, <3>1, Zenon
  <2> QED
    BY <2>3, <2>4, Zenon
<1>6. ASSUME n = 3 * m PROVE SymbolAt(u, 4 * m + 1) = SymbolIn(w, 2)
  <2>1. Byte(u, 3 * m + 1) = c
    BY <1>3, <1>6, Zenon
  <2>2. SymbolAt(u, 4 * m + 1) = First(c)
    BY <2>1, SymbolCases, Zenon
  <2> QED
    BY <1>4, <2>2, Zenon
<1>7. ASSUME n = 3 * m + 1 PROVE SymbolAt(u, 4 * m + 2) = SymbolIn(w, 4)
  <2>1. n > 0 /\ 3 * m + 2 = n + 1
    BY <1>7
  <2>2. Byte(u, 3 * m + 2) = c /\ Byte(u, 3 * m + 1) = Byte(u, n)
    BY <1>3, <1>7, <2>1, Zenon
  <2>3. SymbolAt(u, 4 * m + 2) = Second(Byte(u, n), c)
    BY <2>2, SymbolCases, Zenon
  <2> QED
    BY <1>5, <2>1, <2>3, Zenon
<1>8. ASSUME n = 3 * m + 2
      PROVE  SymbolAt(u, 4 * m + 3) = SymbolIn(w, 6) /\ SymbolAt(u, 4 * m + 4) = SymbolIn(w, 0)
  <2>1. n > 0 /\ 3 * m + 3 = n + 1
    BY <1>8
  <2>2. Byte(u, 3 * m + 3) = c /\ Byte(u, 3 * m + 2) = Byte(u, n)
    BY <1>3, <1>8, <2>1, Zenon
  <2>3. SymbolAt(u, 4 * m + 3) = Third(Byte(u, n), c) /\ SymbolAt(u, 4 * m + 4) = Fourth(c)
    BY <2>2, SymbolCases, Zenon
  <2> QED
    BY <1>4, <1>5, <2>1, <2>3, Zenon
<1> QED
  BY <1>1, <1>2, <1>6, <1>7, <1>8, Zenon DEF Emitted

\* A byte goes in: the symbols that come out are those of the longer text.
LEMMA EncodeByteStep ==
  ASSUME EncodeInv, NEW c \in Bytes, EncodeByte(c)
  PROVE  EncodeInv'
<1>1. PICK n \in Nat, m \in Nat, w \in Nat :
        /\ n = Len(bytes) /\ w = Whole(n)
        /\ \/ n = 3 * m /\ w = 4 * m
           \/ n = 3 * m + 1 /\ w = 4 * m + 1
           \/ n = 3 * m + 2 /\ w = 4 * m + 2
  <2>1. Len(bytes) \in Nat
    BY DEF EncodeInv, EncodeTypes
  <2> QED
    BY <2>1, Lengths
<1>2. PICK t \in Seq(Octets), v \in Nat, p \in Seq(0..64) : t = bytes /\ v = val /\ p = coded
  BY DEF EncodeInv, EncodeTypes, Octets
<1>3. PICK u, x : u = Append(t, c) /\ x = PushByte(v, c)
  OBVIOUS
<1>4. c \in Octets
  BY BytesAssumption DEF Octets
<1>5. ~sent /\ sent' = sent /\ bytes' = u /\ val' = x
  BY <1>2, <1>3 DEF EncodeByte, PushByte
<1>6. u \in Seq(Octets) /\ Len(u) = n + 1 /\ u[n + 1] = c
  <2>1. Append(t, c) \in Seq(Octets) /\ Len(Append(t, c)) = n + 1 /\ Append(t, c)[n + 1] = c
    BY <1>1, <1>2, <1>4, Appended, Zenon
  <2> QED
    BY <1>3, <2>1, Zenon
<1>7. x \in Nat /\ Octet(x) = c
  <2>1. PushByte(v, c) \in Nat /\ Octet(PushByte(v, c)) = c
    BY <1>4, SymbolsOfByte, Zenon
  <2> QED
    BY <1>3, <2>1, Zenon
<1>8. Len(p) = w /\ \A j \in 1..w : p[j] = SymbolAt(u, j)
  <2>1. Len(p) = w /\ \A j \in 1..w : p[j] = SymbolAt(t, j)
    BY <1>1, <1>2, <1>5, Zenon DEF EncodeInv, Growing
  <2>2. \A j \in 1..w : SymbolAt(u, j) = SymbolAt(t, j)
    BY <1>1, <1>2, <1>3, <1>4, OldSymbols, Zenon
  <2> QED
    BY <2>1, <2>2, Zenon
<1>9. /\ n = 3 * m => SymbolAt(u, 4 * m + 1) = SymbolIn(x, 2)
      /\ n = 3 * m + 1 => SymbolAt(u, 4 * m + 2) = SymbolIn(x, 4)
      /\ n = 3 * m + 2 => /\ SymbolAt(u, 4 * m + 3) = SymbolIn(x, 6)
                          /\ SymbolAt(u, 4 * m + 4) = SymbolIn(x, 0)
  <2>1. n = Len(t) /\ (n > 0 => Octet(v) = t[n])
    BY <1>1, <1>2, Zenon DEF EncodeInv, Held
  <2>2. Emitted(Append(t, c), PushByte(v, c), n, m)
    BY <1>4, <2>1, PushedSymbols, Zenon
  <2> QED
    BY <1>3, <2>2, Zenon DEF Emitted
<1>10. /\ valb = 2 * (n % 3) - 6
       /\ IF valb + 8 - 6 >= 0
            THEN /\ coded' = p \o <<SymbolIn(x, valb + 8), SymbolIn(x, valb + 8 - 6)>>
                 /\ valb' = valb + 8 - 12
            ELSE /\ coded' = Append(p, SymbolIn(x, valb + 8))
                 /\ valb' = valb + 8 - 6
  <2>1. valb = 2 * (n % 3) - 6
    BY <1>1, Zenon DEF EncodeInv, Held
  <2> QED
    BY <1>2, <1>3, <2>1 DEF EncodeByte, SymbolIn, PushByte
<1>11. ASSUME NEW q, coded' = q, NEW k \in Nat, Whole(n + 1) = k,
              q \in Seq(0..64), Len(q) = k, \A j \in 1..k : q[j] = SymbolAt(u, j),
              valb' = 2 * ((n + 1) % 3) - 6
       PROVE  EncodeInv'
  <2>1. EncodeTypes'
    BY <1>5, <1>6, <1>7, <1>11 DEF EncodeTypes, EncodeInv, Octets
  <2>2. Held'
    BY <1>5, <1>6, <1>7, <1>11 DEF Held
  <2>3. Growing'
    BY <1>5, <1>6, <1>11, Zenon DEF Growing
  <2>4. Complete'
    BY <1>5, Zenon DEF Complete
  <2> QED
    BY <2>1, <2>2, <2>3, <2>4 DEF EncodeInv
\* one symbol s comes out
<1>12. ASSUME NEW s, s = SymbolAt(u, w + 1), coded' = Append(p, s), Whole(n + 1) = w + 1,
              valb' = 2 * ((n + 1) % 3) - 6
       PROVE  EncodeInv'
  <2>1. s \in Symbols
    <3>1. w + 1 \in Nat \ {0}
      OBVIOUS
    <3> QED
      BY <1>6, <1>12, <3>1, SymbolAtType, Zenon
  <2> DEFINE q == Append(p, s)
  <2>2. /\ q \in Seq(0..64) /\ Len(q) = w + 1
        /\ \A j \in 1..w : q[j] = p[j]
        /\ q[w + 1] = s
    BY <1>8, <2>1 DEF Symbols
  <2> HIDE DEF q
  <2>3. \A j \in 1..w + 1 : q[j] = SymbolAt(u, j)
    <3> TAKE j \in 1..w + 1
    <3>1. j \in 1..w \/ j = w + 1
      OBVIOUS
    <3> QED
      BY <1>8, <1>12, <2>2, <3>1, Zenon
  <2>4. coded' = q /\ w + 1 \in Nat
    BY <1>12 DEF q
  <2> QED
    BY <1>11, <1>12, <2>2, <2>3, <2>4, Zenon
<1>13. CASE n = 3 * m /\ w = 4 * m
  <2>1. valb = -6 /\ valb + 8 = 2 /\ ~(valb + 8 - 6 >= 0)
    BY <1>10, <1>13
  <2>2. (n + 1) % 3 = 1 /\ Whole(n + 1) = w + 1
    BY <1>13 DEF Whole
  <2>3. coded' = Append(p, SymbolIn(x, 2)) /\ valb' = valb + 8 - 6
    BY <1>10, <2>1, Zenon
  <2>4. valb' = 2 * ((n + 1) % 3) - 6
    BY <2>1, <2>2, <2>3
  <2>5. SymbolIn(x, 2) = SymbolAt(u, w + 1)
    BY <1>9, <1>13, Zenon
  <2> QED
    BY <1>12, <2>2, <2>3, <2>4, <2>5, Zenon
<1>14. CASE n = 3 * m + 1 /\ w = 4 * m + 1
  <2>1. valb = -4 /\ valb + 8 = 4 /\ ~(valb + 8 - 6 >= 0)
    BY <1>10, <1>14
  <2>2. (n + 1) % 3 = 2 /\ Whole(n + 1) = w + 1 /\ w + 1 = 4 * m + 2
    BY <1>14 DEF Whole
  <2>3. coded' = Append(p, SymbolIn(x, 4)) /\ valb' = valb + 8 - 6
    BY <1>10, <2>1, Zenon
  <2>4. valb' = 2 * ((n + 1) % 3) - 6
    BY <2>1, <2>2, <2>3
  <2>5. SymbolIn(x, 4) = SymbolAt(u, w + 1)
    BY <1>9, <1>14, <2>2, Zenon
  <2> QED
    BY <1>12, <2>2, <2>3, <2>4, <2>5, Zenon
\* the last byte of three gives two
<1>15. CASE n = 3 * m + 2 /\ w = 4 * m + 2
  <2>1. valb = -2 /\ valb + 8 = 6 /\ valb + 8 - 6 = 0 /\ valb + 8 - 6 >= 0
    BY <1>10, <1>15
  <2>2. /\ (n + 1) % 3 = 0 /\ Whole(n + 1) = w + 2 /\ w + 2 \in Nat
        /\ w + 1 = 4 * m + 3 /\ w + 2 = 4 * m + 4
    BY <1>15 DEF Whole
  <2> DEFINE y == SymbolIn(x, 6)
  <2> DEFINE z == SymbolIn(x, 0)
  <2>3. coded' = p \o <<y, z>> /\ valb' = valb + 8 - 12
    BY <1>10, <2>1, Zenon
  <2>4. valb' = 2 * ((n + 1) % 3) - 6
    BY <2>1, <2>2, <2>3
  <2>5. y = SymbolAt(u, w + 1) /\ z = SymbolAt(u, w + 2)
    BY <1>9, <1>15, <2>2, Zenon
  <2>6. y \in Symbols /\ z \in Symbols
    <3>1. w + 1 \in Nat \ {0} /\ w + 2 \in Nat \ {0}
      OBVIOUS
    <3> QED
      BY <1>6, <2>5, <3>1, SymbolAtType, Zenon
  <2> HIDE DEF y, z
  <2> DEFINE q == p \o <<y, z>>
  <2>7. /\ q \in Seq(0..64) /\ Len(q) = w + 2
        /\ \A j \in 1..w : q[j] = p[j]
        /\ q[w + 1] = y /\ q[w + 2] = z
    BY <1>8, <2>6 DEF Symbols
  <2>8. coded' = q
    BY <2>3
  <2> HIDE DEF q
  <2>9. \A j \in 1..w + 2 : q[j] = SymbolAt(u, j)
    <3> TAKE j \in 1..w + 2
    <3>1. j \in 1..w \/ j = w + 1 \/ j = w + 2
      OBVIOUS
    <3> QED
      BY <1>8, <2>5, <2>7, <3>1, Zenon
  <2> QED
    BY <1>11, <2>2, <2>4, <2>7, <2>8, <2>9, Zenon
<1> QED
  BY <1>1, <1>13, <1>14, <1>15

\* Zeros after the text change nothing: that is what the missing bytes are.
LEMMA ZeroAfter ==
  ASSUME NEW t \in Seq(Octets), NEW m \in Nat
  PROVE  /\ SymbolAt(Append(t, 0), 4 * m + 2) = SymbolAt(t, 4 * m + 2)
         /\ SymbolAt(Append(t, 0), 4 * m + 3) = SymbolAt(t, 4 * m + 3)
<1>0. PICK n \in Nat : n = Len(t)
  OBVIOUS
<1>1. PICK u : u = Append(t, 0) /\ n = Len(t)
  BY <1>0
<1>2. Len(u) = n + 1 /\ u[n + 1] = 0 /\ \A i \in 1..n : u[i] = t[i]
  BY <1>1
<1>3. ASSUME NEW i \in Nat \ {0} PROVE Byte(u, i) = Byte(t, i)
  <2>1. CASE i \in 1..n
    BY <1>1, <1>2, <2>1 DEF Byte
  <2>2. CASE i = n + 1
    BY <1>1, <1>2, <2>2 DEF Byte
  <2>3. CASE i > n + 1
    BY <1>1, <1>2, <2>3 DEF Byte
  <2> QED
    BY <2>1, <2>2, <2>3
<1>4. 3 * m + 1 \in Nat \ {0} /\ 3 * m + 2 \in Nat \ {0} /\ 3 * m + 3 \in Nat \ {0}
  OBVIOUS
<1>5. /\ Byte(u, 3 * m + 1) = Byte(t, 3 * m + 1)
      /\ Byte(u, 3 * m + 2) = Byte(t, 3 * m + 2)
      /\ Byte(u, 3 * m + 3) = Byte(t, 3 * m + 3)
  BY <1>3, <1>4, Zenon
<1>6. SymbolAt(u, 4 * m + 2) = SymbolAt(t, 4 * m + 2)
  BY <1>5, SymbolCases, Zenon
<1>7. SymbolAt(u, 4 * m + 3) = SymbolAt(t, 4 * m + 3)
  BY <1>5, SymbolCases, Zenon
<1> QED
  BY <1>1, <1>6, <1>7, Zenon

\* encode returns: the symbols of the text, and no symbol after them.
LEMMA FinishEncodeStep ==
  ASSUME EncodeInv, FinishEncode
  PROVE  EncodeInv'
<1>1. PICK n \in Nat, m \in Nat, w \in Nat, k \in Nat :
        /\ n = Len(bytes) /\ w = Whole(n) /\ k = Total(n)
        /\ \/ n = 3 * m /\ n % 3 = 0 /\ w = 4 * m /\ k = 4 * m
           \/ n = 3 * m + 1 /\ n % 3 = 1 /\ w = 4 * m + 1 /\ k = 4 * m + 2
           \/ n = 3 * m + 2 /\ n % 3 = 2 /\ w = 4 * m + 2 /\ k = 4 * m + 3
  <2>1. PICK n \in Nat : n = Len(bytes)
    BY DEF EncodeInv, EncodeTypes
  <2>2. PICK w \in Nat, k \in Nat : w = Whole(n) /\ k = Total(n)
    BY Lengths
  <2>3. PICK m \in Nat :
          \/ n = 3 * m /\ n % 3 = 0 /\ w = 4 * m /\ k = 4 * m
          \/ n = 3 * m + 1 /\ n % 3 = 1 /\ w = 4 * m + 1 /\ k = 4 * m + 2
          \/ n = 3 * m + 2 /\ n % 3 = 2 /\ w = 4 * m + 2 /\ k = 4 * m + 3
    BY <2>2, Lengths
  <2> QED
    BY <2>1, <2>2, <2>3, Zenon
<1>2. PICK t \in Seq(Octets), v \in Nat, p \in Seq(0..64) : t = bytes /\ v = val /\ p = coded
  BY DEF EncodeInv, EncodeTypes, Octets
<1>3. /\ ~sent /\ sent' = TRUE /\ bytes' = t /\ val' = v /\ valb' = valb
      /\ coded' = Padded(LastSymbol)
  BY <1>2 DEF FinishEncode
<1>4. Len(p) = w /\ \A j \in 1..w : p[j] = SymbolAt(t, j)
  BY <1>1, <1>2, <1>3, Zenon DEF EncodeInv, Growing
<1>5. valb = 2 * (n % 3) - 6
  BY <1>1, Zenon DEF EncodeInv, Held
<1>6. LastSymbol = IF valb > -6 THEN Append(p, SymbolIn(PushByte(v, 0), valb + 8)) ELSE p
  BY <1>2 DEF LastSymbol, SymbolIn, PushByte
<1>7. /\ n = 3 * m + 1 => SymbolIn(PushByte(v, 0), 4) = SymbolAt(t, 4 * m + 2)
      /\ n = 3 * m + 2 => SymbolIn(PushByte(v, 0), 6) = SymbolAt(t, 4 * m + 3)
  <2>1. n = Len(t) /\ (n > 0 => Octet(v) = t[n])
    BY <1>1, <1>2, Zenon DEF EncodeInv, Held
  <2>2. 0 \in Octets
    BY DEF Octets
  <2>3. Emitted(Append(t, 0), PushByte(v, 0), n, m)
    BY <2>1, <2>2, PushedSymbols, Zenon
  <2>4. /\ SymbolAt(Append(t, 0), 4 * m + 2) = SymbolAt(t, 4 * m + 2)
        /\ SymbolAt(Append(t, 0), 4 * m + 3) = SymbolAt(t, 4 * m + 3)
    BY ZeroAfter, Zenon
  <2> QED
    BY <2>3, <2>4, Zenon DEF Emitted
\* the symbols without the padding
<1>8. PICK q \in Seq(0..64) : /\ q = LastSymbol
                              /\ Len(q) = k
                              /\ \A j \in 1..k : q[j] = SymbolAt(t, j)
  <2>1. CASE n = 3 * m /\ n % 3 = 0 /\ w = 4 * m /\ k = 4 * m
    <3>1. valb = -6
      BY <1>5, <2>1
    <3>2. LastSymbol = p
      BY <1>6, <3>1
    <3>3. k = w
      BY <2>1
    <3> QED
      BY <1>4, <3>2, <3>3, Zenon
  <2>2. ASSUME NEW s, s = SymbolAt(t, w + 1), LastSymbol = Append(p, s), k = w + 1
        PROVE  \E q \in Seq(0..64) : /\ q = LastSymbol
                                     /\ Len(q) = k
                                     /\ \A j \in 1..k : q[j] = SymbolAt(t, j)
    <3>1. s \in Symbols
      <4>1. w + 1 \in Nat \ {0}
        OBVIOUS
      <4> QED
        BY <2>2, <4>1, SymbolAtType, Zenon
    <3> DEFINE q == Append(p, s)
    <3>2. /\ q \in Seq(0..64) /\ Len(q) = w + 1
          /\ \A j \in 1..w : q[j] = p[j]
          /\ q[w + 1] = s
      BY <1>4, <3>1 DEF Symbols
    <3>3. q = LastSymbol
      BY <2>2
    <3> HIDE DEF q
    <3>4. \A j \in 1..k : q[j] = SymbolAt(t, j)
      <4> TAKE j \in 1..k
      <4>1. j \in 1..w \/ j = w + 1
        BY <2>2
      <4> QED
        BY <1>4, <2>2, <3>2, <4>1, Zenon
    <3> QED
      BY <2>2, <3>2, <3>3, <3>4, Zenon
  <2>3. CASE n = 3 * m + 1 /\ n % 3 = 1 /\ w = 4 * m + 1 /\ k = 4 * m + 2
    <3>1. valb = -4 /\ valb > -6 /\ valb + 8 = 4 /\ w + 1 = 4 * m + 2
      BY <1>5, <2>3
    <3>2. LastSymbol = Append(p, SymbolIn(PushByte(v, 0), 4))
      BY <1>6, <3>1, Zenon
    <3>3. SymbolIn(PushByte(v, 0), 4) = SymbolAt(t, w + 1) /\ k = w + 1
      BY <1>7, <2>3, <3>1, Zenon
    <3> QED
      BY <2>2, <3>2, <3>3, Zenon
  <2>4. CASE n = 3 * m + 2 /\ n % 3 = 2 /\ w = 4 * m + 2 /\ k = 4 * m + 3
    <3>1. valb = -2 /\ valb > -6 /\ valb + 8 = 6 /\ w + 1 = 4 * m + 3
      BY <1>5, <2>4
    <3>2. LastSymbol = Append(p, SymbolIn(PushByte(v, 0), 6))
      BY <1>6, <3>1, Zenon
    <3>3. SymbolIn(PushByte(v, 0), 6) = SymbolAt(t, w + 1) /\ k = w + 1
      BY <1>7, <2>4, <3>1, Zenon
    <3> QED
      BY <2>2, <3>2, <3>3, Zenon
  <2> QED
    BY <1>1, <2>1, <2>3, <2>4, Zenon
<1>9. PICK pads \in Seq({Pad}) : Padded(q) = q \o pads
  <2>1. \/ Len(q) % 4 = 0 /\ Padded(q) = q \o << >>
        \/ Len(q) % 4 = 2 /\ Padded(q) = q \o <<Pad, Pad>>
        \/ Len(q) % 4 = 3 /\ Padded(q) = q \o <<Pad>>
    <3>1. k % 4 \in {0, 2, 3}
      BY <1>1
    <3> QED
      BY <1>8, <3>1 DEF Padded
  <2>2. << >> \in Seq({Pad}) /\ <<Pad>> \in Seq({Pad}) /\ <<Pad, Pad>> \in Seq({Pad})
    OBVIOUS
  <2> QED
    BY <2>1, <2>2, Zenon
<1>10. /\ q \o pads \in Seq(0..64)
       /\ Len(q \o pads) >= k
       /\ \A j \in 1..k : (q \o pads)[j] = q[j]
       /\ \A j \in 1..Len(q \o pads) : j > k => (q \o pads)[j] = Pad
  BY <1>8, <1>9 DEF Pad
<1>11. EncodeTypes'
  BY <1>2, <1>3, <1>8, <1>9, <1>10 DEF EncodeTypes, Octets
<1>12. Held'
  BY <1>2, <1>3, Zenon DEF EncodeInv, Held
<1>13. Growing'
  BY <1>3, Zenon DEF Growing
<1>14. Complete'
  <2>1. bytes' = bytes /\ coded' = q \o pads /\ Total(Len(bytes')) = k
    BY <1>1, <1>2, <1>3, <1>8, <1>9, Zenon
  <2> QED
    BY <1>2, <1>8, <1>10, <2>1, Zenon DEF Complete
<1> QED
  BY <1>11, <1>12, <1>13, <1>14 DEF EncodeInv

-------------------------------------------------------------------------------
(* decode *)

LEMMA TotalIsNat ==
  ASSUME EncodeInv
  PROVE  Len(bytes) \in Nat /\ Total(Len(bytes)) \in Nat
<1>1. Len(bytes) \in Nat
  BY DEF EncodeInv, EncodeTypes
<1> QED
  BY <1>1, Lengths, Zenon

\* The bytes that the symbols of the text u give, from the int x that the last
\* of them has just been pushed into.
PulledAt(t, v, s, i) ==
  /\ Sextet(v) = SymbolAt(t, 4 * i + 1) /\ s = SymbolAt(t, 4 * i + 2) =>
       ByteIn(PushSymbol(v, s), 4) = Byte(t, 3 * i + 1)
  /\ Sextet(v) = SymbolAt(t, 4 * i + 2) /\ s = SymbolAt(t, 4 * i + 3) =>
       ByteIn(PushSymbol(v, s), 2) = Byte(t, 3 * i + 2)
  /\ Sextet(v) = SymbolAt(t, 4 * i + 3) /\ s = SymbolAt(t, 4 * i + 4) =>
       ByteIn(PushSymbol(v, s), 0) = Byte(t, 3 * i + 3)

LEMMA PulledBytes ==
  ASSUME NEW t \in Seq(Octets), NEW v \in Nat, NEW s \in Symbols, NEW i \in Nat
  PROVE  PulledAt(t, v, s, i)
<1>1. PICK a \in Octets, b \in Octets, c \in Octets :
        a = Byte(t, 3 * i + 1) /\ b = Byte(t, 3 * i + 2) /\ c = Byte(t, 3 * i + 3)
  <2>1. /\ 3 * i + 1 \in Nat \ {0}
        /\ 3 * i + 2 \in Nat \ {0}
        /\ 3 * i + 3 \in Nat \ {0}
    OBVIOUS
  <2> QED
    BY <2>1, ByteType, Zenon
<1>2. /\ SymbolAt(t, 4 * i + 1) = First(a)
      /\ SymbolAt(t, 4 * i + 2) = Second(a, b)
      /\ SymbolAt(t, 4 * i + 3) = Third(b, c)
      /\ SymbolAt(t, 4 * i + 4) = Fourth(c)
  BY <1>1, SymbolCases, Zenon
<1>3. Pulled(v, s, a, a, b) /\ Pulled(v, s, a, b, c) /\ Pulled(v, s, b, c, c)
  BY ByteOfSymbols, Zenon
<1>4. /\ Sextet(v) = First(a) /\ s = Second(a, b) => ByteIn(PushSymbol(v, s), 4) = a
      /\ Sextet(v) = Second(a, b) /\ s = Third(b, c) => ByteIn(PushSymbol(v, s), 2) = b
      /\ Sextet(v) = Third(b, c) /\ s = Fourth(c) => ByteIn(PushSymbol(v, s), 0) = c
  BY <1>3, Zenon DEF Pulled
<1> QED
  BY <1>1, <1>2, <1>4, Zenon DEF PulledAt

\* How many bytes k symbols give, and how many bits are then held.
LEMMA BytesOfSymbols ==
  ASSUME NEW i \in Nat
  PROVE  /\ BytesOf(4 * i) = 3 * i
         /\ BytesOf(4 * i + 1) = 3 * i
         /\ BytesOf(4 * i + 2) = 3 * i + 1
         /\ BytesOf(4 * i + 3) = 3 * i + 2
         /\ BytesOf(4 * i + 4) = 3 * i + 3
<1>1. /\ (4 * i) \div 4 = i /\ (4 * i) % 4 = 0
      /\ (4 * i + 1) \div 4 = i /\ (4 * i + 1) % 4 = 1
      /\ (4 * i + 2) \div 4 = i /\ (4 * i + 2) % 4 = 2
      /\ (4 * i + 3) \div 4 = i /\ (4 * i + 3) % 4 = 3
      /\ (4 * i + 4) \div 4 = i + 1 /\ (4 * i + 4) % 4 = 0
  OBVIOUS
<1> QED
  BY <1>1 DEF BytesOf

\* A symbol is read: the byte that comes out, if any, is the next one of the text.
LEMMA DecodeSymbolStep ==
  ASSUME IInv, DecodeSymbol
  PROVE  DecodeInv'
<1>1. PICK n \in Nat, total \in Nat : n = Len(bytes) /\ total = Total(n)
  BY TotalIsNat, Zenon DEF IInv
<1>2. PICK t \in Seq(Octets), p \in Seq(0..64), v \in Nat, d \in Seq(Octets), k \in 0..total :
        t = bytes /\ p = coded /\ v = dval /\ d = decoded /\ k = taken
  BY <1>1 DEF IInv, EncodeInv, EncodeTypes, DecodeInv, DecodeTypes, Octets
<1>3. /\ sent /\ ~done /\ k < Len(p) /\ p[k + 1] # Pad
      /\ taken' = k + 1 /\ sent' = sent /\ done' = done /\ bytes' = t /\ coded' = p
  BY <1>2 DEF DecodeSymbol, encodeVars
<1>4. PICK s : s = p[k + 1]
  OBVIOUS
<1>5. k + 1 \in 1..total /\ s = SymbolAt(t, k + 1) /\ s \in Symbols
  <2>1. \A j \in 1..total : p[j] = SymbolAt(t, j)
    BY <1>1, <1>2, <1>3, Zenon DEF IInv, EncodeInv, Complete
  <2>2. \A j \in 1..Len(p) : j > total => p[j] = Pad
    BY <1>1, <1>2, <1>3, Zenon DEF IInv, EncodeInv, Complete
  <2>3. k + 1 \in 1..Len(p) /\ k + 1 \in Nat \ {0}
    BY <1>3
  <2>4. ~(k + 1 > total)
    BY <1>3, <2>2, <2>3, Zenon
  <2>5. k + 1 \in 1..total
    BY <2>3, <2>4
  <2> QED
    BY <1>4, <2>1, <2>3, <2>5, SymbolAtType, Zenon
<1>6. PICK x : x = PushSymbol(v, s)
  OBVIOUS
<1>7. x \in Nat /\ Sextet(x) = s
  <2>1. PushSymbol(v, s) \in Nat /\ Sextet(PushSymbol(v, s)) = s
    BY <1>5, SymbolPushed, Zenon
  <2> QED
    BY <1>6, <2>1, Zenon
<1>8. PICK h \in Int :
        /\ h = dvalb + 6
        /\ dval' = x
        /\ IF h >= 0
             THEN decoded' = Append(d, ByteIn(x, h)) /\ dvalb' = h - 8
             ELSE decoded' = d /\ dvalb' = h
  <2>1. coded[taken + 1] = s
    BY <1>2, <1>4, Zenon
  <2>2. x = Push(dval, 64, s)
    BY <1>2, <1>6, Zenon DEF PushSymbol
  <2>3. dvalb \in Int
    <3>1. k % 4 \in Int
      OBVIOUS
    <3> QED
      BY <1>2, <3>1 DEF IInv, DecodeInv, DecodeHeld
  <2>4. PICK h \in Int : h = dvalb + 6
    BY <2>3
  <2>5. dval' = x /\ TakeByte(x, h)
    BY <2>1, <2>2, <2>4, Zenon DEF DecodeSymbol
  <2>6. IF h >= 0
          THEN decoded' = Append(decoded, Bits(x, h, 255)) /\ dvalb' = h - 8
          ELSE decoded' = decoded /\ dvalb' = h
    BY <2>4, <2>5 DEF TakeByte
  <2>7. IF h >= 0
          THEN decoded' = Append(d, ByteIn(x, h)) /\ dvalb' = h - 8
          ELSE decoded' = d /\ dvalb' = h
    BY <1>2, <2>6 DEF ByteIn
  <2> QED
    BY <2>4, <2>5, <2>7, Zenon
<1>9. /\ dvalb = IF k % 4 = 0 THEN -8 ELSE -(2 * (k % 4))
      /\ k > 0 => Sextet(v) = p[k]
  BY <1>2, Zenon DEF IInv, DecodeInv, DecodeHeld
<1>10. k > 0 => Sextet(v) = SymbolAt(t, k)
  <2>1. \A j \in 1..total : p[j] = SymbolAt(t, j)
    BY <1>1, <1>2, <1>3, Zenon DEF IInv, EncodeInv, Complete
  <2>2. k > 0 => k \in 1..total
    OBVIOUS
  <2> QED
    BY <1>9, <2>1, <2>2, Zenon
<1>11. Len(d) = BytesOf(k) /\ \A i \in 1..Len(d) : d[i] = Byte(t, i)
  BY <1>2, Zenon DEF IInv, DecodeInv, ReadSoFar
\* what is left to show of each case
<1>12. ASSUME dvalb' = IF (k + 1) % 4 = 0 THEN -8 ELSE -(2 * ((k + 1) % 4)),
              decoded' \in Seq(Octets), Len(decoded') = BytesOf(k + 1),
              \A i \in 1..Len(decoded') : decoded'[i] = Byte(t, i)
       PROVE  DecodeInv'
  <2>1. Total(Len(bytes')) = total /\ Len(bytes') = n
    BY <1>1, <1>2, <1>3, Zenon
  <2>2. DecodeTypes'
    <3>1. taken' \in 0..total /\ dval' \in Nat /\ done' \in BOOLEAN
      <4>1. done \in BOOLEAN
        BY DEF IInv, DecodeInv, DecodeTypes
      <4> QED
        BY <1>3, <1>5, <1>7, <1>8, <4>1
    <3>2. taken' \in 0..Total(Len(bytes'))
      BY <2>1, <3>1, Zenon
    <3> QED
      BY <1>12, <3>1, <3>2, Zenon DEF DecodeTypes
  <2>3. Waiting' /\ Stopped'
    BY <1>3, Zenon DEF Waiting, Stopped
  <2>4. DecodeHeld'
    <3>1. Sextet(dval') = coded'[taken']
      BY <1>3, <1>4, <1>7, <1>8, Zenon
    <3> QED
      BY <1>3, <1>12, <3>1, Zenon DEF DecodeHeld
  <2>5. ReadSoFar'
    BY <1>3, <1>12, Zenon DEF ReadSoFar
  <2> QED
    BY <2>2, <2>3, <2>4, <2>5 DEF DecodeInv
<1>13. ASSUME NEW b, b = Byte(t, Len(d) + 1), decoded' = Append(d, b),
              BytesOf(k + 1) = Len(d) + 1,
              dvalb' = IF (k + 1) % 4 = 0 THEN -8 ELSE -(2 * ((k + 1) % 4))
       PROVE  DecodeInv'
  <2>1. PICK l \in Nat : l = Len(d)
    OBVIOUS
  <2>2. b \in Octets
    <3>1. l + 1 \in Nat \ {0}
      OBVIOUS
    <3> QED
      BY <1>13, <2>1, <3>1, ByteType, Zenon
  <2> DEFINE q == Append(d, b)
  <2>3. /\ q \in Seq(Octets) /\ Len(q) = l + 1
        /\ \A i \in 1..l : q[i] = d[i]
        /\ q[l + 1] = b
    BY <2>1, <2>2
  <2>4. decoded' = q
    BY <1>13
  <2> HIDE DEF q
  <2>5. \A i \in 1..l + 1 : q[i] = Byte(t, i)
    <3> TAKE i \in 1..l + 1
    <3>1. i \in 1..l \/ i = l + 1
      BY <2>1
    <3> QED
      BY <1>11, <1>13, <2>1, <2>3, <3>1, Zenon
  <2> QED
    BY <1>12, <1>13, <2>1, <2>3, <2>4, <2>5, Zenon
<1>14. PICK i \in Nat : k = 4 * i \/ k = 4 * i + 1 \/ k = 4 * i + 2 \/ k = 4 * i + 3
  <2>1. k + 1 \in Nat \ {0}
    OBVIOUS
  <2>2. PICK i \in Nat : k + 1 \in {4 * i + 1, 4 * i + 2, 4 * i + 3, 4 * i + 4}
    BY <2>1, Places
  <2>3. k = 4 * i \/ k = 4 * i + 1 \/ k = 4 * i + 2 \/ k = 4 * i + 3
    BY <2>2
  <2> QED
    BY <2>3, Zenon
<1>15. PulledAt(t, v, s, i)
  BY <1>5, PulledBytes, Zenon
<1>16. CASE k = 4 * i
  <2>1. k % 4 = 0 /\ (k + 1) % 4 = 1 /\ k + 1 = 4 * i + 1
    BY <1>16
  <2>2. dvalb = -8 /\ h = -2 /\ ~(h >= 0)
    BY <1>8, <1>9, <2>1
  <2>3. decoded' = d /\ dvalb' = h
    BY <1>8, <2>2, Zenon
  <2>4. dvalb' = IF (k + 1) % 4 = 0 THEN -8 ELSE -(2 * ((k + 1) % 4))
    BY <2>1, <2>2, <2>3
  <2>5. BytesOf(k + 1) = BytesOf(k)
    BY <1>16, <2>1, BytesOfSymbols, Zenon
  <2> QED
    BY <1>11, <1>12, <2>3, <2>4, <2>5, Zenon
<1>17. CASE k = 4 * i + 1
  <2>1. k % 4 = 1 /\ (k + 1) % 4 = 2 /\ k + 1 = 4 * i + 2 /\ k > 0
    BY <1>17
  <2>2. dvalb = -2 /\ h = 4 /\ h >= 0
    BY <1>8, <1>9, <2>1
  <2>3. decoded' = Append(d, ByteIn(x, 4)) /\ dvalb' = h - 8
    BY <1>8, <2>2, Zenon
  <2>4. dvalb' = IF (k + 1) % 4 = 0 THEN -8 ELSE -(2 * ((k + 1) % 4))
    BY <2>1, <2>2, <2>3
  <2>5. BytesOf(k) = 3 * i /\ BytesOf(k + 1) = 3 * i + 1
    BY <1>17, <2>1, BytesOfSymbols, Zenon
  <2>6. ByteIn(x, 4) = Byte(t, 3 * i + 1)
    BY <1>5, <1>6, <1>10, <1>17, <1>15, <2>1, Zenon DEF PulledAt
  <2> QED
    BY <1>11, <1>13, <2>3, <2>4, <2>5, <2>6, Zenon
<1>18. CASE k = 4 * i + 2
  <2>1. k % 4 = 2 /\ (k + 1) % 4 = 3 /\ k + 1 = 4 * i + 3 /\ k > 0
    BY <1>18
  <2>2. dvalb = -4 /\ h = 2 /\ h >= 0
    BY <1>8, <1>9, <2>1
  <2>3. decoded' = Append(d, ByteIn(x, 2)) /\ dvalb' = h - 8
    BY <1>8, <2>2, Zenon
  <2>4. dvalb' = IF (k + 1) % 4 = 0 THEN -8 ELSE -(2 * ((k + 1) % 4))
    BY <2>1, <2>2, <2>3
  <2>5. BytesOf(k) = 3 * i + 1 /\ BytesOf(k + 1) = 3 * i + 2 /\ 3 * i + 1 + 1 = 3 * i + 2
    <3>1. BytesOf(k) = 3 * i + 1 /\ BytesOf(k + 1) = 3 * i + 2
      BY <1>18, <2>1, BytesOfSymbols, Zenon
    <3> QED
      BY <3>1
  <2>6. ByteIn(x, 2) = Byte(t, 3 * i + 2)
    BY <1>5, <1>6, <1>10, <1>18, <1>15, <2>1, Zenon DEF PulledAt
  <2> QED
    BY <1>11, <1>13, <2>3, <2>4, <2>5, <2>6, Zenon
<1>19. CASE k = 4 * i + 3
  <2>1. k % 4 = 3 /\ (k + 1) % 4 = 0 /\ k + 1 = 4 * i + 4 /\ k > 0
    BY <1>19
  <2>2. dvalb = -6 /\ h = 0 /\ h >= 0
    BY <1>8, <1>9, <2>1
  <2>3. decoded' = Append(d, ByteIn(x, 0)) /\ dvalb' = h - 8
    BY <1>8, <2>2, Zenon
  <2>4. dvalb' = IF (k + 1) % 4 = 0 THEN -8 ELSE -(2 * ((k + 1) % 4))
    BY <2>1, <2>2, <2>3
  <2>5. BytesOf(k) = 3 * i + 2 /\ BytesOf(k + 1) = 3 * i + 3 /\ 3 * i + 2 + 1 = 3 * i + 3
    <3>1. BytesOf(k) = 3 * i + 2 /\ BytesOf(k + 1) = 3 * i + 3
      BY <1>19, <2>1, BytesOfSymbols, Zenon
    <3> QED
      BY <3>1
  <2>6. ByteIn(x, 0) = Byte(t, 3 * i + 3)
    BY <1>5, <1>6, <1>10, <1>19, <1>15, <2>1, Zenon DEF PulledAt
  <2> QED
    BY <1>11, <1>13, <2>3, <2>4, <2>5, <2>6, Zenon
<1> QED
  BY <1>14, <1>16, <1>17, <1>18, <1>19, Zenon

\* decode returns when every symbol has been read, and no earlier.
LEMMA FinishDecodeStep ==
  ASSUME IInv, FinishDecode
  PROVE  DecodeInv'
<1>1. PICK n \in Nat, total \in Nat : n = Len(bytes) /\ total = Total(n)
  BY TotalIsNat, Zenon DEF IInv
<1>2. PICK k \in 0..total, p \in Seq(0..64) : k = taken /\ p = coded
  BY <1>1 DEF IInv, EncodeInv, EncodeTypes, DecodeInv, DecodeTypes
<1>3. /\ sent /\ sent' = sent /\ bytes' = bytes /\ coded' = coded
      /\ done' = TRUE /\ dval' = dval /\ dvalb' = dvalb /\ taken' = taken
      /\ decoded' = decoded
      /\ k < Len(p) => p[k + 1] = Pad
  BY <1>2 DEF FinishDecode, encodeVars
<1>4. k = total
  <2>1. SUFFICES ASSUME k # total PROVE FALSE
    OBVIOUS
  <2>2. Len(p) >= total /\ \A j \in 1..total : p[j] = SymbolAt(bytes, j)
    BY <1>1, <1>2, <1>3, Zenon DEF IInv, EncodeInv, Complete
  <2>3. k + 1 \in 1..total /\ k + 1 \in Nat \ {0} /\ k < Len(p)
    BY <2>1, <2>2
  <2>4. bytes \in Seq(Octets)
    BY DEF IInv, EncodeInv, EncodeTypes, Octets
  <2>5. p[k + 1] \in Symbols
    BY <2>2, <2>3, <2>4, SymbolAtType, Zenon
  <2>6. Pad \notin Symbols
    BY DEF Symbols, Pad
  <2> QED
    BY <1>3, <2>3, <2>5, <2>6, Zenon
<1>5. Total(Len(bytes')) = total
  BY <1>1, <1>3, Zenon
<1>6. DecodeTypes'
  BY <1>3, Zenon DEF IInv, DecodeInv, DecodeTypes
<1>7. Waiting' /\ Stopped'
  BY <1>2, <1>3, <1>4, <1>5, Zenon DEF Waiting, Stopped
<1>8. DecodeHeld'
  BY <1>3, Zenon DEF IInv, DecodeInv, DecodeHeld
<1>9. ReadSoFar'
  BY <1>3, Zenon DEF IInv, DecodeInv, ReadSoFar
<1> QED
  BY <1>6, <1>7, <1>8, <1>9 DEF DecodeInv

\* Nothing is decoded while the text is still being encoded.
LEMMA NotYet ==
  ASSUME EncodeInv', ~sent, DecodeInv, decodeVars' = decodeVars
  PROVE  DecodeInv'
<1>1. taken = 0 /\ ~done
  BY DEF DecodeInv, Waiting
<1>2. /\ dval' = dval /\ dvalb' = dvalb /\ taken' = taken /\ decoded' = decoded
      /\ done' = done
  BY DEF decodeVars
<1>3. PICK total \in Nat : total = Total(Len(bytes'))
  <2>1. Len(bytes') \in Nat
    BY DEF EncodeInv, EncodeTypes
  <2> QED
    BY <2>1, Lengths, Zenon
<1>4. Len(decoded) = 0
  <2>1. BytesOf(0) = 0
    BY DEF BytesOf
  <2> QED
    BY <1>1, <2>1 DEF DecodeInv, ReadSoFar
<1>5. DecodeTypes'
  <2>1. taken' \in 0..total
    BY <1>1, <1>2
  <2> QED
    BY <1>2, <1>3, <2>1, Zenon DEF DecodeInv, DecodeTypes
<1>6. Waiting' /\ Stopped'
  BY <1>1, <1>2, Zenon DEF Waiting, Stopped
<1>7. DecodeHeld'
  <2>1. ~(taken' > 0)
    BY <1>1, <1>2
  <2> QED
    BY <1>2, <2>1, Zenon DEF DecodeInv, DecodeHeld
<1>8. ReadSoFar'
  <2>1. Len(decoded') = BytesOf(taken')
    BY <1>2, Zenon DEF DecodeInv, ReadSoFar
  <2>2. \A i \in 1..Len(decoded') : decoded'[i] = Byte(bytes', i)
    BY <1>2, <1>4
  <2> QED
    BY <2>1, <2>2, Zenon DEF ReadSoFar
<1> QED
  BY <1>5, <1>6, <1>7, <1>8 DEF DecodeInv

LEMMA Initially ==
  Base64Init => IInv
<1> SUFFICES ASSUME Base64Init PROVE IInv
  OBVIOUS
<1>1. /\ bytes = << >> /\ val = 0 /\ valb = -6 /\ coded = << >> /\ sent = FALSE
      /\ dval = 0 /\ dvalb = -8 /\ taken = 0 /\ decoded = << >> /\ done = FALSE
  BY DEF Base64Init
<1>2. Len(bytes) = 0 /\ Len(coded) = 0 /\ Len(decoded) = 0
  BY <1>1
<1>3. Whole(0) = 0 /\ Total(0) = 0 /\ BytesOf(0) = 0
  BY DEF Whole, Total, BytesOf
<1>4. EncodeTypes /\ DecodeTypes
  <2>1. bytes \in Seq(0..255) /\ coded \in Seq(0..64) /\ decoded \in Seq(Octets)
    BY <1>1
  <2>2. taken \in 0..Total(Len(bytes)) /\ val \in Nat /\ dval \in Nat
    BY <1>1, <1>2, <1>3
  <2> QED
    BY <1>1, <2>1, <2>2 DEF EncodeTypes, DecodeTypes
<1>5. Held
  BY <1>1, <1>2 DEF Held
<1>6. Growing
  BY <1>2, <1>3 DEF Growing
<1>7. Complete /\ Waiting /\ Stopped
  BY <1>1, <1>2, <1>3 DEF Complete, Waiting, Stopped
<1>8. DecodeHeld
  BY <1>1 DEF DecodeHeld
<1>9. ReadSoFar
  BY <1>1, <1>2, <1>3 DEF ReadSoFar
<1> QED
  BY <1>4, <1>5, <1>6, <1>7, <1>8, <1>9 DEF IInv, EncodeInv, DecodeInv

LEMMA Step ==
  IInv /\ [Base64Next]_base64Vars => IInv'
<1> SUFFICES ASSUME IInv, [Base64Next]_base64Vars PROVE IInv'
  OBVIOUS
<1>1. ASSUME NEW c \in Bytes, EncodeByte(c) PROVE IInv'
  <2>1. ~sent /\ decodeVars' = decodeVars
    BY <1>1 DEF EncodeByte
  <2>2. EncodeInv'
    BY <1>1, EncodeByteStep DEF IInv
  <2> QED
    BY <2>1, <2>2, NotYet DEF IInv
<1>2. CASE FinishEncode
  <2>1. ~sent /\ decodeVars' = decodeVars
    BY <1>2 DEF FinishEncode
  <2>2. EncodeInv'
    BY <1>2, FinishEncodeStep DEF IInv
  <2> QED
    BY <2>1, <2>2, NotYet DEF IInv
<1>3. ASSUME encodeVars' = encodeVars PROVE EncodeInv'
  <2>1. bytes' = bytes /\ val' = val /\ valb' = valb /\ coded' = coded /\ sent' = sent
    BY <1>3 DEF encodeVars
  <2> QED
    BY <2>1, Zenon DEF IInv, EncodeInv, EncodeTypes, Held, Growing, Complete
<1>4. CASE DecodeSymbol
  <2>1. encodeVars' = encodeVars
    BY <1>4 DEF DecodeSymbol
  <2> QED
    BY <1>3, <1>4, <2>1, DecodeSymbolStep DEF IInv
<1>5. CASE FinishDecode
  <2>1. encodeVars' = encodeVars
    BY <1>5 DEF FinishDecode
  <2> QED
    BY <1>3, <1>5, <2>1, FinishDecodeStep DEF IInv
<1>6. CASE UNCHANGED base64Vars
  <2>1. encodeVars' = encodeVars /\ decodeVars' = decodeVars
    BY <1>6 DEF base64Vars
  <2>2. /\ bytes' = bytes /\ coded' = coded /\ sent' = sent
        /\ dval' = dval /\ dvalb' = dvalb /\ taken' = taken /\ decoded' = decoded
        /\ done' = done
    BY <2>1 DEF encodeVars, decodeVars
  <2>3. DecodeInv'
    BY <2>2, Zenon DEF IInv, DecodeInv, DecodeTypes, Waiting, DecodeHeld, ReadSoFar, Stopped
  <2> QED
    BY <1>3, <2>1, <2>3 DEF IInv
<1> QED
  BY <1>1, <1>2, <1>4, <1>5, <1>6 DEF Base64Next

\* The bytes of the total symbols of a text are the bytes of the text.
LEMMA Enough ==
  ASSUME IInv
  PROVE  RoundTrip
<1>1. PICK n \in Nat : n = Len(bytes)
  BY TotalIsNat DEF IInv
<1>2. PICK total \in Nat, m \in Nat :
        /\ total = Total(n)
        /\ \/ n = 3 * m /\ total = 4 * m
           \/ n = 3 * m + 1 /\ total = 4 * m + 2
           \/ n = 3 * m + 2 /\ total = 4 * m + 3
  BY Lengths
<1>3. PICK k \in 0..total, d \in Seq(Octets), t \in Seq(Octets) :
        k = taken /\ d = decoded /\ t = bytes
  BY <1>1, <1>2 DEF IInv, EncodeInv, EncodeTypes, DecodeInv, DecodeTypes, Octets
<1>4. Len(d) = BytesOf(k) /\ \A i \in 1..Len(d) : d[i] = Byte(t, i)
  BY <1>3, Zenon DEF IInv, DecodeInv, ReadSoFar
<1>5. BytesOf(k) <= n /\ (k = total => BytesOf(k) = n)
  BY <1>2 DEF BytesOf
<1>6. \A i \in 1..Len(d) : d[i] = t[i]
  BY <1>1, <1>3, <1>4, <1>5 DEF Byte
<1>7. done => k = total
  BY <1>1, <1>2, <1>3, Zenon DEF IInv, DecodeInv, Stopped
<1>8. k = total => d = t
  BY <1>1, <1>3, <1>4, <1>5, <1>6
<1>9. Len(d) <= Len(t) /\ \A i \in DOMAIN d : d[i] = t[i]
  BY <1>1, <1>3, <1>4, <1>5, <1>6
<1> QED
  BY <1>3, <1>7, <1>8, <1>9, Zenon DEF RoundTrip

\* Texts come through: whatever bytes the quiz site has encoded, and however long
\* the text is, the characters that Base64::decode has pushed out are the first
\* of it, and when it returns they are all of it, though its int has overflown.
THEOREM RoundTripHolds ==
  Base64Spec => []RoundTrip
<1>1. IInv => RoundTrip
  BY Enough
<1> QED
  BY <1>1, Initially, Step, PTL DEF Base64Spec

===============================================================================
