--------------------------- MODULE FormParserProofs ---------------------------
(***************************************************************************)
(* No text, however long and over whatever alphabet, makes one of the      *)
(* parsers of utils.cpp report a field with an empty value.                *)
(*                                                                         *)
(* The inductive invariant adds what the automaton keeps between two       *)
(* characters: a value is only ever entered into the map after at least    *)
(* one character of it has been read.                                      *)
(***************************************************************************)
EXTENDS FormParser, SequenceTheorems, TLAPS

Kept ==
  /\ \A n \in DOMAIN parsed_values : parsed_values[n] # << >>
  /\ state = "Value" => value # << >>

IInv == TypeOK /\ Kept

\* std::map::insert of a text that is not empty keeps types and adds no
\* empty value (parsed_values.insert in both parsers).
LEMMA InsertKeeps ==
  ASSUME NEW map, NEW n \in Seq(Chars), NEW v \in Seq(Chars),
         DOMAIN map \subseteq Seq(Chars),
         \A m \in DOMAIN map : map[m] \in Seq(Chars) /\ map[m] # << >>,
         v # << >>
  PROVE  /\ DOMAIN Insert(map, n, v) \subseteq Seq(Chars)
         /\ \A m \in DOMAIN Insert(map, n, v) :
              Insert(map, n, v)[m] \in Seq(Chars) /\ Insert(map, n, v)[m] # << >>
<1>1. CASE n \in DOMAIN map
  BY <1>1 DEF Insert
<1>2. CASE n \notin DOMAIN map
  <2>1. Insert(map, n, v) =
          [m \in {n} \cup DOMAIN map |-> IF m = n THEN v ELSE map[m]]
    BY <1>2 DEF Insert
  <2> QED  BY <2>1
<1> QED  BY <1>1, <1>2

\* The empty text.
LEMMA Start == Init => IInv
<1> SUFFICES ASSUME Init PROVE IInv
  OBVIOUS
<1>1. DOMAIN parsed_values = {}
  BY DEF Init
<1>2. << >> \in Seq(Chars)
  OBVIOUS
<1> QED  BY <1>1, <1>2 DEF Init, IInv, TypeOK, Kept

\* One more character: a step of either parser.
LEMMA OneCharacter ==
  ASSUME IInv, NEW c \in Chars, Read(c),
         NEW separator, NEW next \in {"Name", "WhiteSpace"},
         \/ ReadName(c)
         \/ SkipEquals(c)
         \/ ReadValue(c, separator, next)
         \/ SkipBlank(c)
  PROVE  IInv'
<1> USE DEF IInv, TypeOK, Kept
<1>0. input' \in Seq(Chars) /\ format' \in {"body", "cookie"}
  BY DEF Read
<1>1. CASE ReadName(c)
  BY <1>0, <1>1 DEF ReadName
<1>2. CASE SkipEquals(c)
  <2>1. CASE c = "="
    BY <1>0, <1>2, <2>1 DEF SkipEquals
  <2>2. CASE c # "="
    <3>1. value' = Append(value, c) /\ state' = "Value"
      BY <1>2, <2>2 DEF SkipEquals
    <3>2. value' \in Seq(Chars) /\ value' # << >>
      BY <3>1
    <3> QED  BY <1>0, <1>2, <3>1, <3>2 DEF SkipEquals
  <2> QED  BY <2>1, <2>2
<1>3. CASE ReadValue(c, separator, next)
  <2>1. CASE EndField(next)
    <3>1. parsed_values' = Insert(parsed_values, name, value)
      BY <2>1 DEF EndField
    <3>2. /\ DOMAIN parsed_values' \subseteq Seq(Chars)
          /\ \A m \in DOMAIN parsed_values' :
               parsed_values'[m] \in Seq(Chars) /\ parsed_values'[m] # << >>
      <4>1. state = "Value" /\ value # << >>
        BY <1>3 DEF ReadValue
      <4> QED  BY <3>1, <4>1, InsertKeeps
    <3>3. name' = << >> /\ value' = << >> /\ state' = next
      BY <2>1 DEF EndField
    <3> QED  BY <1>0, <3>2, <3>3
  <2>2. CASE /\ value' = Append(value, c)
             /\ UNCHANGED <<state, name, parsed_values>>
    <3>1. value' \in Seq(Chars) /\ value' # << >>
      BY <2>2
    <3>2. state' = "Value"
      BY <1>3, <2>2 DEF ReadValue
    <3> QED  BY <1>0, <2>2, <3>1, <3>2
  <2> QED  BY <1>3, <2>1, <2>2 DEF ReadValue
<1>4. CASE SkipBlank(c)
  BY <1>0, <1>4 DEF SkipBlank
<1> QED  BY <1>1, <1>2, <1>3, <1>4

\* Nothing read, nothing changed.
LEMMA NoCharacter == IInv /\ UNCHANGED vars => IInv'
BY DEF IInv, TypeOK, Kept, vars

\* What the invariant says of the map the parser returns.
LEMMA Returned == IInv => NoEmptyValue
<1> SUFFICES ASSUME IInv PROVE NoEmptyValue
  OBVIOUS
<1>1. CASE value # << >>
  <2>1. /\ DOMAIN parsed_values \subseteq Seq(Chars)
        /\ \A m \in DOMAIN parsed_values :
             parsed_values[m] \in Seq(Chars) /\ parsed_values[m] # << >>
        /\ name \in Seq(Chars) /\ value \in Seq(Chars)
    BY DEF IInv, TypeOK, Kept
  <2> QED  BY <1>1, <2>1, InsertKeeps DEF NoEmptyValue, Result
<1>2. CASE value = << >>
  BY <1>2 DEF NoEmptyValue, Result, IInv, Kept
<1> QED  BY <1>1, <1>2

\* No text of any length yields a field or a cookie whose value is empty
\* (parseRequestBody, parseBasicCookie).
THEOREM FieldsHaveValues == Spec => []NoEmptyValue
<1>1. IInv /\ [Next]_vars => IInv'
  <2>1. ASSUME IInv, BodyNext PROVE IInv'
    BY <2>1, OneCharacter DEF BodyNext
  <2>2. ASSUME IInv, CookieNext PROVE IInv'
    BY <2>2, OneCharacter DEF CookieNext
  <2> QED  BY <2>1, <2>2, NoCharacter DEF Next
<1> QED  BY Start, <1>1, Returned, PTL DEF Spec

-------------------------------------------------------------------------------
(* Two fields that a page sends, and the first cookie. *)

\* What ends a cookie.
Semicolon == ";"

LEMMA SemicolonMeansSomething == Semicolon \in Chars \ Letters
BY LettersAssumption, Zenon DEF Semicolon, Chars

\* The characters of a field (what jQuery puts together).
LEMMA FieldCharacters ==
  ASSUME NEW n \in Words, NEW v \in Words
  PROVE  /\ n \in Seq(Letters) /\ v \in Seq(Letters)
         /\ Len(n) \in Nat \ {0} /\ Len(v) \in Nat \ {0}
         /\ Field(n, v) \in Seq(Chars)
         /\ Len(Field(n, v)) = Len(n) + 1 + Len(v) /\ Len(Field(n, v)) \in Nat
         /\ \A i \in 1 .. Len(n) : Field(n, v)[i] = n[i] /\ n[i] \in Letters
         /\ Field(n, v)[Len(n) + 1] = "="
         /\ \A i \in 1 .. Len(v) :
              Field(n, v)[Len(n) + 1 + i] = v[i] /\ v[i] \in Letters
<1>1. /\ n \in Seq(Letters) /\ v \in Seq(Letters) /\ v # << >> /\ n # << >>
      /\ n \in Seq(Chars) /\ v \in Seq(Chars) /\ <<"=">> \in Seq(Chars)
  <2>1. n \in Seq(Letters) /\ v \in Seq(Letters) /\ v # << >> /\ n # << >>
    BY WordsAssumption
  <2>2. Letters \subseteq Chars /\ "=" \in Chars
    BY DEF Chars
  <2> QED  BY <2>1, <2>2
<1>2. /\ Len(n) \in Nat \ {0} /\ Len(v) \in Nat \ {0}
      /\ \A i \in 1 .. Len(n) : n[i] \in Letters
      /\ \A i \in 1 .. Len(v) : v[i] \in Letters
  BY <1>1, EmptySeq, ElementOfSeq
<1>3. PICK a \in Nat, b \in Nat : a = Len(n) /\ b = Len(v)
  BY <1>2
<1>4. Len(<<"=">>) = 1 /\ <<"=">>[1] = "="
  OBVIOUS
<1>5. /\ n \o <<"=">> \in Seq(Chars)
      /\ Len(n \o <<"=">>) = a + 1
      /\ \A i \in 1 .. a + 1 : (n \o <<"=">>)[i] = IF i <= a THEN n[i] ELSE <<"=">>[i - a]
  BY <1>1, <1>3, <1>4, ConcatProperties
<1>6. /\ Field(n, v) \in Seq(Chars)
      /\ Len(Field(n, v)) = a + 1 + b
      /\ \A i \in 1 .. a + 1 + b : Field(n, v)[i] =
           IF i <= a + 1 THEN (n \o <<"=">>)[i] ELSE v[i - (a + 1)]
  BY <1>1, <1>3, <1>5, ConcatProperties DEF Field
<1>7. \A i \in 1 .. a : Field(n, v)[i] = n[i]
  BY <1>5, <1>6
<1>8. Field(n, v)[a + 1] = "="
  BY <1>4, <1>5, <1>6
<1>9. \A i \in 1 .. b : Field(n, v)[a + 1 + i] = v[i]
  BY <1>6
<1> QED  BY <1>1, <1>2, <1>3, <1>6, <1>7, <1>8, <1>9

\* A beginning of a text and the character after it.
LEMMA OneMore ==
  ASSUME NEW S, NEW x \in Seq(S), NEW l \in Nat, l < Len(x)
  PROVE  SubSeq(x, 1, l + 1) = Append(SubSeq(x, 1, l), x[l + 1])
<1>1. 1 \in 1 .. Len(x) /\ l + 1 \in 1 .. Len(x) /\ (l + 1) - 1 = l
  OBVIOUS
<1>2. SubSeq(x, 1, l + 1) = SubSeq(x, 1, l) \o <<x[l + 1]>>
  BY <1>1, SubSeqRecursiveSecond
<1>3. SubSeq(x, 1, l) \in Seq(S) /\ x[l + 1] \in S
  BY <1>1, SubSeqProperties, ElementOfSeq
<1> QED  BY <1>2, <1>3, AppendIsConcat

\* The text read so far agrees with another one, put after its first from
\* characters, as far as it goes.
Agrees(text, from) ==
  \A i \in 1 .. Len(text) : from + i <= Len(input) => input[from + i] = text[i]

\* What is kept after l characters of a field, when the map was map before it.
InField(n, v, l, map) ==
  /\ parsed_values = map
  /\ l <= Len(n) =>
       state = "Name" /\ name = SubSeq(n, 1, l) /\ value = << >>
  /\ l = Len(n) + 1 =>
       state = "Ignore" /\ name = n /\ value = << >>
  /\ l > Len(n) + 1 =>
       state = "Value" /\ name = n /\ value = SubSeq(v, 1, l - (Len(n) + 1))

FirstField ==
  \A n, v \in Words :
    Len(input) <= Len(Field(n, v)) /\ Agrees(Field(n, v), 0)
      => InField(n, v, Len(input), << >>)

SecondField ==
  \A n, v, m, w \in Words :
    LET f == Field(n, v)
        g == Field(m, w)
    IN /\ format = "body"
       /\ Len(f) + 1 <= Len(input) /\ Len(input) <= Len(f) + 1 + Len(g)
       /\ Agrees(f, 0) /\ input[Len(f) + 1] = "&" /\ Agrees(g, Len(f) + 1)
       => InField(m, w, Len(input) - (Len(f) + 1), Insert(<< >>, n, v))

FirstCookie ==
  \A n, v \in Words :
    LET f == Field(n, v) IN
    /\ format = "cookie"
    /\ Len(f) + 1 <= Len(input)
    /\ Agrees(f, 0) /\ input[Len(f) + 1] = Semicolon
    => n \in DOMAIN parsed_values /\ parsed_values[n] = v

ReadInv == IInv /\ FirstField /\ SecondField /\ FirstCookie

\* The parsers' reactions to one character (the switch in both loops).
Reacts(c, separator, next) ==
  \/ ReadName(c)
  \/ SkipEquals(c)
  \/ ReadValue(c, separator, next)
  \/ SkipBlank(c)

\* Each character of a field takes the parser one further in it.
LEMMA FieldGoesOn ==
  ASSUME NEW n \in Words, NEW v \in Words, NEW l \in Nat, l < Len(Field(n, v)),
         NEW map, InField(n, v, l, map),
         NEW separator, separator \notin Letters, NEW next,
         NEW c, c = Field(n, v)[l + 1], Reacts(c, separator, next)
  PROVE  InField(n, v, l + 1, map)'
<1>0. Len(n) \in Nat \ {0} /\ Len(v) \in Nat \ {0}
  BY FieldCharacters
<1>1. PICK a \in Nat, b \in Nat : a = Len(n) /\ b = Len(v) /\ a > 0 /\ b > 0
  BY <1>0
<1>2. l < a + 1 + b
  BY <1>1, FieldCharacters
<1>3. "=" \notin Letters
  BY LettersAssumption
<1>4. CASE l < a
  <2>1. state = "Name" /\ name = SubSeq(n, 1, l) /\ value = << >> /\ parsed_values = map
    BY <1>1, <1>4 DEF InField
  <2>2. c = n[l + 1] /\ c # "="
    <3>1. l + 1 \in 1 .. Len(n)
      BY <1>1, <1>4
    <3> QED  BY <1>3, <3>1, FieldCharacters
  <2>3. name' = Append(name, c) /\ state' = "Name" /\ UNCHANGED <<value, parsed_values>>
    BY <2>1, <2>2 DEF Reacts, ReadName, SkipEquals, ReadValue, SkipBlank
  <2>4. name' = SubSeq(n, 1, l + 1)
    BY <1>1, <1>4, <2>1, <2>2, <2>3, OneMore, FieldCharacters
  <2> QED  BY <1>1, <1>4, <2>1, <2>3, <2>4 DEF InField
<1>5. CASE l = a
  <2>1. state = "Name" /\ name = SubSeq(n, 1, a) /\ value = << >> /\ parsed_values = map
    BY <1>1, <1>5 DEF InField
  <2>2. c = "="
    BY <1>1, <1>5, FieldCharacters
  <2>3. name' = name /\ state' = "Ignore" /\ UNCHANGED <<value, parsed_values>>
    BY <2>1, <2>2 DEF Reacts, ReadName, SkipEquals, ReadValue, SkipBlank
  <2>4. name' = n
    BY <1>1, <2>1, <2>3, SubSeqFull, FieldCharacters
  <2> QED  BY <1>1, <1>5, <2>1, <2>3, <2>4 DEF InField
<1>6. CASE l = a + 1
  <2>1. state = "Ignore" /\ name = n /\ value = << >> /\ parsed_values = map
    BY <1>1, <1>6 DEF InField
  <2>2. c = v[1] /\ c # "="
    <3>1. 1 \in 1 .. Len(v) /\ l + 1 = Len(n) + 1 + 1
      BY <1>1, <1>6
    <3> QED  BY <1>3, <3>1, FieldCharacters
  <2>3. value' = Append(value, c) /\ state' = "Value" /\ UNCHANGED <<name, parsed_values>>
    BY <2>1, <2>2 DEF Reacts, ReadName, SkipEquals, ReadValue, SkipBlank
  <2>4. value' = SubSeq(v, 1, 1)
    <3>1. SubSeq(v, 1, 0) = << >>
      BY SubSeqEmpty
    <3>2. SubSeq(v, 1, 0 + 1) = Append(SubSeq(v, 1, 0), v[0 + 1])
      BY <1>1, OneMore, FieldCharacters
    <3> QED  BY <2>1, <2>2, <2>3, <3>1, <3>2
  <2> QED  BY <1>1, <1>6, <2>1, <2>3, <2>4 DEF InField
<1>7. CASE l > a + 1
  <2>1. PICK k \in Nat : k = l - (a + 1) /\ k > 0 /\ k < b
    BY <1>2, <1>7
  <2>2. state = "Value" /\ name = n /\ value = SubSeq(v, 1, k) /\ parsed_values = map
    BY <1>1, <1>7, <2>1 DEF InField
  <2>3. c = v[k + 1] /\ c # separator
    <3>1. k + 1 \in 1 .. Len(v) /\ l + 1 = Len(n) + 1 + (k + 1)
      BY <1>1, <2>1
    <3> QED  BY <1>3, <3>1, FieldCharacters
  <2>4. value' = Append(value, c) /\ state' = "Value" /\ UNCHANGED <<name, parsed_values>>
    BY <2>2, <2>3 DEF Reacts, ReadName, SkipEquals, ReadValue, SkipBlank
  <2>5. value' = SubSeq(v, 1, k + 1)
    <3>1. v \in Seq(Letters) /\ k < Len(v)
      BY <1>1, <2>1, FieldCharacters
    <3>2. SubSeq(v, 1, k + 1) = Append(SubSeq(v, 1, k), v[k + 1])
      BY <3>1, OneMore
    <3> QED  BY <2>2, <2>3, <2>4, <3>2
  <2>6. (l + 1) - (Len(n) + 1) = k + 1 /\ l + 1 > Len(n) + 1
    BY <1>1, <2>1
  <2> QED  BY <1>1, <2>2, <2>4, <2>5, <2>6 DEF InField
<1> QED  BY <1>1, <1>4, <1>5, <1>6, <1>7

\* At the end of a field all of it has been collected.
LEMMA FieldCollected ==
  ASSUME NEW n \in Words, NEW v \in Words, NEW map,
         InField(n, v, Len(Field(n, v)), map)
  PROVE  state = "Value" /\ name = n /\ value = v /\ v # << >> /\ parsed_values = map
<1>1. PICK a \in Nat, b \in Nat : a = Len(n) /\ b = Len(v) /\ b > 0
  BY FieldCharacters
<1>2. Len(Field(n, v)) = a + 1 + b /\ (a + 1 + b) - (a + 1) = b /\ a + 1 + b > a + 1
  BY <1>1, FieldCharacters
<1>3. SubSeq(v, 1, b) = v
  BY <1>1, SubSeqFull, FieldCharacters
<1> QED  BY <1>1, <1>2, <1>3, EmptySeq, WordsAssumption DEF InField

\* The separator takes it to the next field.
LEMMA FieldOver ==
  ASSUME NEW n \in Words, NEW v \in Words, NEW map,
         InField(n, v, Len(Field(n, v)), map),
         NEW separator, NEW next, Reacts(separator, separator, next)
  PROVE  /\ parsed_values' = Insert(map, n, v)
         /\ name' = << >> /\ value' = << >> /\ state' = next
BY FieldCollected DEF Reacts, ReadName, SkipEquals, ReadValue, SkipBlank, EndField

\* A name that is in the map keeps its value (std::map::insert).
LEMMA NameKeepsValue ==
  ASSUME NEW map, NEW n, NEW x, NEW y
  PROVE  /\ n \in DOMAIN Insert(map, n, y)
         /\ n \notin DOMAIN map => Insert(map, n, y)[n] = y
         /\ n \in DOMAIN map =>
              n \in DOMAIN Insert(map, x, y) /\ Insert(map, x, y)[n] = map[n]
BY DEF Insert

\* What agrees with a text after one more character did so before, and the
\* character is the one of the text.
LEMMA AgreedBefore ==
  ASSUME input \in Seq(Chars), NEW c \in Chars, input' = Append(input, c),
         NEW k, k = Len(input), NEW from \in Nat, NEW text, Len(text) \in Nat,
         Agrees(text, from)'
  PROVE  /\ Agrees(text, from)
         /\ \A i \in 1 .. Len(text) : from + i = k + 1 => c = text[i]
<1>1. /\ k \in Nat /\ Len(input') = k + 1
      /\ \A i \in 1 .. k : input'[i] = input[i]
      /\ input'[k + 1] = c
  BY AppendProperties
<1>2. \A i \in 1 .. Len(text) : from + i <= k + 1 => input'[from + i] = text[i]
  BY <1>1 DEF Agrees
<1>3. \A i \in 1 .. Len(text) : from + i <= k => input[from + i] = text[i]
  <2> SUFFICES ASSUME NEW i \in 1 .. Len(text), from + i <= k
               PROVE  input[from + i] = text[i]
    OBVIOUS
  <2>1. from + i \in 1 .. k /\ from + i <= k + 1
    BY <1>1
  <2> QED  BY <1>1, <1>2, <2>1
<1>4. \A i \in 1 .. Len(text) : from + i = k + 1 => c = text[i]
  BY <1>1, <1>2
<1> QED  BY <1>3, <1>4 DEF Agrees

\* Where a field ends in the two formats, and in which state.
EndsWith(separator, next) ==
  \/ format = "body" /\ separator = "&" /\ next = "Name"
  \/ format = "cookie" /\ separator = Semicolon /\ next = "WhiteSpace"

LEMMA Ends ==
  ASSUME NEW separator, NEW next, EndsWith(separator, next)
  PROVE  /\ separator \notin Letters
         /\ next \in {"Name", "WhiteSpace"}
         /\ format = "body" => separator = "&" /\ next = "Name"
         /\ format = "cookie" => separator = Semicolon
<1>1. "&" \notin Letters
  BY LettersAssumption, Zenon
<1> QED  BY <1>1, SemicolonMeansSomething DEF EndsWith

\* One more character, whatever it is.
LEMMA ReadingGoesOn ==
  ASSUME ReadInv, NEW c \in Chars, Read(c), NEW separator, NEW next,
         Reacts(c, separator, next), EndsWith(separator, next)
  PROVE  ReadInv'
<1>1. input \in Seq(Chars) /\ input' = Append(input, c) /\ format' = format
  BY DEF ReadInv, IInv, TypeOK, Read
<1>2. PICK k \in Nat : k = Len(input)
  BY <1>1
<1>3. /\ Len(input') = k + 1
      /\ \A i \in 1 .. k : input'[i] = input[i]
      /\ input'[k + 1] = c
  BY <1>1, <1>2, AppendProperties
<1>4. separator \notin Letters
  BY Ends
<1>0. ASSUME NEW text, Len(text) \in Nat, NEW from \in Nat, Agrees(text, from)'
      PROVE  /\ Agrees(text, from)
             /\ \A i \in 1 .. Len(text) : from + i = k + 1 => c = text[i]
  BY <1>0, <1>1, <1>2, AgreedBefore
<1>5. IInv'
  BY Ends, OneCharacter DEF ReadInv, Reacts
<1>6. FirstField'
  <2> SUFFICES ASSUME NEW n \in Words, NEW v \in Words,
                      k + 1 <= Len(Field(n, v)), Agrees(Field(n, v), 0)'
               PROVE  InField(n, v, k + 1, << >>)'
    BY <1>3 DEF FirstField
  <2>1. Len(Field(n, v)) \in Nat
    BY FieldCharacters
  <2>2. Agrees(Field(n, v), 0) /\ c = Field(n, v)[k + 1]
    <3>1. /\ Agrees(Field(n, v), 0)
          /\ \A i \in 1 .. Len(Field(n, v)) : 0 + i = k + 1 => c = Field(n, v)[i]
      BY <1>0, <2>1, 0 \in Nat, Zenon
    <3>2. k + 1 \in 1 .. Len(Field(n, v)) /\ 0 + (k + 1) = k + 1
      BY <2>1
    <3> QED  BY <3>1, <3>2
  <2>3. InField(n, v, k, << >>)
    BY <1>2, <2>1, <2>2 DEF ReadInv, FirstField
  <2>4. k < Len(Field(n, v))
    BY <2>1
  <2> QED  BY <1>4, <2>2, <2>3, <2>4, FieldGoesOn, Zenon
<1>7. SecondField'
  <2> SUFFICES ASSUME NEW n \in Words, NEW v \in Words, NEW m \in Words, NEW w \in Words,
                      NEW L, L = Len(Field(n, v)),
                      format = "body", L + 1 <= k + 1, k + 1 <= L + 1 + Len(Field(m, w)),
                      Agrees(Field(n, v), 0)', input'[L + 1] = "&",
                      Agrees(Field(m, w), L + 1)'
               PROVE  InField(m, w, (k + 1) - (L + 1), Insert(<< >>, n, v))'
    BY <1>1, <1>3, Zenon DEF SecondField
  <2>1. L \in Nat /\ Len(Field(m, w)) \in Nat
    BY FieldCharacters, Zenon
  <2>2. Agrees(Field(n, v), 0)
    BY <1>0, <2>1, 0 \in Nat, Zenon
  <2>3. CASE L = k
    <3>1. InField(n, v, L, << >>)
      <4>1. Len(input) = L /\ Len(input) <= Len(Field(n, v))
        BY <1>2, <2>1, <2>3
      <4> QED  BY <2>2, <4>1, Zenon DEF ReadInv, FirstField
    <3>2. c = separator /\ next = "Name"
      BY <1>3, <2>3, Ends
    <3>3. /\ parsed_values' = Insert(<< >>, n, v)
          /\ name' = << >> /\ value' = << >> /\ state' = "Name"
      BY <3>1, <3>2, FieldOver
    <3>4. (k + 1) - (L + 1) = 0 /\ Len(m) \in Nat /\ SubSeq(m, 1, 0) = << >>
      BY <2>1, <2>3, SubSeqEmpty, FieldCharacters
    <3> QED  BY <3>3, <3>4 DEF InField
  <2>4. CASE L < k
    <3>1. /\ Agrees(Field(m, w), L + 1)
          /\ \A i \in 1 .. Len(Field(m, w)) : (L + 1) + i = k + 1 => c = Field(m, w)[i]
      <4>1. L + 1 \in Nat
        BY <2>1
      <4> QED  BY <1>0, <2>1, <4>1, Zenon
    <3>2. PICK l \in Nat : l = k - (L + 1) /\ l + 1 = (k + 1) - (L + 1)
      <4>1. k - (L + 1) \in Nat /\ (k - (L + 1)) + 1 = (k + 1) - (L + 1)
        BY <2>1, <2>4
      <4> QED  BY <4>1, Zenon
    <3>3. input[L + 1] = "&"
      BY <1>3, <2>1, <2>4
    <3>4. InField(m, w, l, Insert(<< >>, n, v))
      BY <1>2, <2>1, <2>2, <2>4, <3>1, <3>2, <3>3 DEF ReadInv, SecondField
    <3>5. l < Len(Field(m, w)) /\ c = Field(m, w)[l + 1]
      <4>1. l + 1 \in 1 .. Len(Field(m, w)) /\ (L + 1) + (l + 1) = k + 1
        BY <2>1, <3>2
      <4> QED  BY <2>1, <3>1, <3>2, <4>1
    <3> QED  BY <1>4, <3>1, <3>2, <3>4, <3>5, FieldGoesOn
  <2>5. L = k \/ L < k
    BY <2>1
  <2> QED  BY <2>3, <2>4, <2>5
<1>8. FirstCookie'
  <2> SUFFICES ASSUME NEW n \in Words, NEW v \in Words, NEW L, L = Len(Field(n, v)),
                      format = "cookie", L + 1 <= k + 1,
                      Agrees(Field(n, v), 0)', input'[L + 1] = Semicolon
               PROVE  n \in DOMAIN parsed_values' /\ parsed_values'[n] = v
    BY <1>1, <1>3, Zenon DEF FirstCookie
  <2>1. L \in Nat
    BY FieldCharacters, Zenon
  <2>2. Agrees(Field(n, v), 0)
    BY <1>0, <2>1, 0 \in Nat, Zenon
  <2>3. CASE L = k
    <3>1. InField(n, v, L, << >>)
      <4>1. Len(input) = L /\ Len(input) <= Len(Field(n, v))
        BY <1>2, <2>1, <2>3
      <4> QED  BY <2>2, <4>1, Zenon DEF ReadInv, FirstField
    <3>2. c = separator
      BY <1>3, <2>3, Ends
    <3>3. parsed_values' = Insert(<< >>, n, v)
      BY <3>1, <3>2, FieldOver
    <3>4. n \notin DOMAIN << >>
      OBVIOUS
    <3> QED  BY <3>3, <3>4, NameKeepsValue
  <2>4. CASE L < k
    <3>1. input[L + 1] = Semicolon
      BY <1>3, <2>1, <2>4
    <3>2. n \in DOMAIN parsed_values /\ parsed_values[n] = v
      <4>1. L + 1 <= Len(input)
        BY <1>2, <2>1, <2>4
      <4> QED  BY <2>2, <3>1, <4>1, Zenon DEF ReadInv, FirstCookie
    <3>3. parsed_values' \in {parsed_values, Insert(parsed_values, name, value)}
      BY DEF Reacts, ReadName, SkipEquals, ReadValue, SkipBlank, EndField
    <3> QED  BY <3>2, <3>3, NameKeepsValue
  <2>5. L = k \/ L < k
    BY <2>1
  <2> QED  BY <2>3, <2>4, <2>5
<1> QED  BY <1>5, <1>6, <1>7, <1>8 DEF ReadInv

LEMMA ReadInvInductive ==
  /\ Init => ReadInv
  /\ ReadInv /\ [Next]_vars => ReadInv'
<1>1. ASSUME Init PROVE ReadInv
  <2>1. input = << >> /\ Len(input) = 0 /\ parsed_values = << >> /\ state = "Name"
        /\ name = << >> /\ value = << >>
    BY <1>1 DEF Init
  <2>2. FirstField
    <3> SUFFICES ASSUME NEW n \in Words, NEW v \in Words PROVE InField(n, v, 0, << >>)
      BY <2>1 DEF FirstField
    <3>1. Len(n) \in Nat /\ SubSeq(n, 1, 0) = << >>
      BY SubSeqEmpty, FieldCharacters
    <3> QED  BY <2>1, <3>1 DEF InField
  <2>3. \A n, v \in Words : ~(Len(Field(n, v)) + 1 <= Len(input))
    BY <2>1, FieldCharacters
  <2> QED  BY <1>1, <2>2, <2>3, Start DEF ReadInv, SecondField, FirstCookie
<1>2. ASSUME ReadInv, [Next]_vars PROVE ReadInv'
  <2>1. CASE UNCHANGED vars
    <3>1. IInv'
      BY <1>2, <2>1, NoCharacter DEF ReadInv
    <3>2. /\ input' = input /\ format' = format /\ parsed_values' = parsed_values
          /\ state' = state /\ name' = name /\ value' = value
      BY <2>1 DEF vars
    <3>3. ASSUME NEW text, NEW from PROVE Agrees(text, from)' <=> Agrees(text, from)
      BY <3>2 DEF Agrees
    <3>4. ASSUME NEW n, NEW v, NEW l, NEW map
          PROVE  InField(n, v, l, map)' <=> InField(n, v, l, map)
      BY <3>2 DEF InField
    <3>5. FirstField'
      BY <1>2, <3>2, <3>3, <3>4, Zenon DEF ReadInv, FirstField
    <3>6. SecondField'
      BY <1>2, <3>2, <3>3, <3>4, Zenon DEF ReadInv, SecondField
    <3>7. FirstCookie'
      BY <1>2, <3>2, <3>3, Zenon DEF ReadInv, FirstCookie
    <3> QED  BY <3>1, <3>5, <3>6, <3>7 DEF ReadInv
  <2>2. CASE BodyNext
    BY <1>2, <2>2, ReadingGoesOn DEF BodyNext, Reacts, EndsWith
  <2>3. CASE CookieNext
    <3>1. PICK c \in Chars : /\ format = "cookie" /\ Read(c)
                            /\ Reacts(c, Semicolon, "WhiteSpace")
      BY <2>3, Zenon DEF CookieNext, Reacts, Semicolon
    <3>2. EndsWith(Semicolon, "WhiteSpace")
      BY <3>1, Zenon DEF EndsWith
    <3> QED  BY <1>2, <3>1, <3>2, ReadingGoesOn
  <2> QED  BY <1>2, <2>1, <2>2, <2>3 DEF Next
<1> QED  BY <1>1, <1>2

\* The parsers keep to their types (TypeOK); in particular a value has been
\* begun only in the state Value, which is all that Result looks at.
THEOREM ParserTyped == Spec => []TypeOK
<1>1. IInv => TypeOK
  BY DEF IInv
<1>2. IInv /\ [Next]_vars => IInv'
  <2>1. ASSUME IInv, BodyNext PROVE IInv'
    BY <2>1, OneCharacter DEF BodyNext
  <2>2. ASSUME IInv, CookieNext PROVE IInv'
    BY <2>2, OneCharacter DEF CookieNext
  <2> QED  BY <2>1, <2>2, NoCharacter DEF Next
<1> QED  BY Start, <1>1, <1>2, PTL DEF Spec

\* The two fields of a form are read as the page has sent them (FormRead,
\* parseRequestBody), however long they are and even if they have one name.
THEOREM FormsAreRead == Spec => []FormRead
<1>1. ReadInv => FormRead
  <2> SUFFICES ASSUME ReadInv
               PROVE  \A n, v, m, w \in Words :
                        format = "body" /\ input = Field(n, v) \o <<"&">> \o Field(m, w)
                          => Result = [x \in {n, m} |-> IF x = n THEN v ELSE w]
    BY Zenon DEF FormRead
  <2> TAKE n, v, m, w \in Words
  <2> HAVE format = "body" /\ input = Field(n, v) \o <<"&">> \o Field(m, w)
  <2> DEFINE f == Field(n, v)
  <2> DEFINE g == Field(m, w)
  <2>1. f \in Seq(Chars) /\ g \in Seq(Chars) /\ <<"&">> \in Seq(Chars)
    <3>1. f \in Seq(Chars) /\ g \in Seq(Chars)
      BY FieldCharacters
    <3>2. "&" \in Chars
      BY Zenon DEF Chars
    <3> QED  BY <3>1, <3>2
  <2>2. PICK L \in Nat, M \in Nat : L = Len(f) /\ M = Len(g)
    BY <2>1
  <2>3. /\ f \o <<"&">> \in Seq(Chars) /\ Len(f \o <<"&">>) = L + 1
        /\ \A i \in 1 .. L + 1 : (f \o <<"&">>)[i] = IF i <= L THEN f[i] ELSE <<"&">>[i - L]
    BY <2>1, <2>2, ConcatProperties, Len(<<"&">>) = 1
  <2>4. /\ Len(input) = L + 1 + M
        /\ \A i \in 1 .. L + 1 + M : input[i] =
             IF i <= L + 1 THEN (f \o <<"&">>)[i] ELSE g[i - (L + 1)]
    BY <2>1, <2>2, <2>3, ConcatProperties
  <2>5. Agrees(f, 0)
    BY <2>2, <2>3, <2>4 DEF Agrees
  <2>6. input[L + 1] = "&"
    BY <2>3, <2>4, <<"&">>[1] = "&"
  <2>7. Agrees(g, L + 1)
    BY <2>2, <2>4 DEF Agrees
  <2>8. InField(m, w, M, Insert(<< >>, n, v))
    <3>1. Len(input) - (L + 1) = M /\ L + 1 <= Len(input) /\ Len(input) <= L + 1 + M
      BY <2>4
    <3> QED  BY <2>2, <2>5, <2>6, <2>7, <3>1 DEF ReadInv, SecondField
  <2>9. Result = Insert(Insert(<< >>, n, v), m, w)
    BY <2>2, <2>8, FieldCollected DEF Result
  <2> QED  BY <2>9 DEF Insert
<1> QED  BY <1>1, ReadInvInductive, PTL DEF Spec

\* The first cookie is read as it was sent (FirstCookieRead, parseBasicCookie),
\* whatever comes after it and however long the header is.
THEOREM FirstCookiesAreRead == Spec => []FirstCookieRead
<1>1. ReadInv => FirstCookieRead
  <2> SUFFICES ASSUME ReadInv, NEW n \in Words, NEW v \in Words, format = "cookie",
                      NEW f, f = Field(n, v),
                      \/ input = f
                      \/ /\ Len(input) > Len(f)
                         /\ SubSeq(input, 1, Len(f) + 1) = Append(f, Semicolon)
               PROVE  n \in DOMAIN Result /\ Result[n] = v
    BY Zenon DEF FirstCookieRead, Semicolon
  <2>1. f \in Seq(Chars) /\ input \in Seq(Chars) /\ Semicolon \in Chars
    BY FieldCharacters, SemicolonMeansSomething DEF ReadInv, IInv, TypeOK
  <2>2. PICK L \in Nat : L = Len(f)
    BY <2>1
  <2>3. CASE input = f
    <3>1. InField(n, v, L, << >>)
      BY <2>2, <2>3 DEF ReadInv, FirstField, Agrees
    <3>2. Result = Insert(<< >>, n, v)
      BY <2>2, <3>1, FieldCollected DEF Result
    <3>3. n \notin DOMAIN << >>
      OBVIOUS
    <3> QED  BY <3>2, <3>3, NameKeepsValue
  <2>4. CASE /\ Len(input) > L
             /\ SubSeq(input, 1, L + 1) = Append(f, Semicolon)
    <3>1. \A i \in 1 .. L + 1 : input[i] = Append(f, Semicolon)[i]
      <4>1. \A i \in 1 .. L + 1 : input[i] \in Chars
        BY <2>1, <2>2, <2>4, ElementOfSeq
      <4>2. \A i \in 1 .. ((L + 1) - 1) + 1 : SubSeq(input, 1, L + 1)[i] = input[(1 + i) - 1]
        BY <4>1, SubSeqProperties
      <4> QED  BY <2>4, <4>2
    <3>2. Agrees(f, 0) /\ input[L + 1] = Semicolon
      BY <2>1, <2>2, <3>1, AppendProperties DEF Agrees
    <3>3. n \in DOMAIN parsed_values /\ parsed_values[n] = v
      BY <2>1, <2>2, <2>4, <3>2 DEF ReadInv, FirstCookie
    <3> QED  BY <3>3, NameKeepsValue DEF Result
  <2> QED  BY <2>2, <2>3, <2>4
<1> QED  BY <1>1, ReadInvInductive, PTL DEF Spec

===============================================================================
