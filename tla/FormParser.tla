------------------------------ MODULE FormParser ------------------------------
(***************************************************************************)
(* The two parsers of utils.cpp: parseRequestBody, which reads the fields  *)
(* of a form or of a query, and parseBasicCookie, which reads a Cookie     *)
(* header.  Both are the same automaton over the characters of the text,   *)
(* which collects a name, then a value, up to a separator; after the       *)
(* separator the cookie parser first skips blanks.                         *)
(*                                                                         *)
(* The text is an input that grows one character at a time, so what holds  *)
(* in every state holds for every text.                                    *)
(***************************************************************************)
EXTENDS Naturals, Sequences

CONSTANTS
  Letters,     \* characters that no parser gives a meaning to
  Words,       \* the names and values that pages send
  MaxLength    \* bound on the length of the text

ASSUME LettersAssumption == Letters \cap {"=", "&", ";", " "} = {}
ASSUME WordsAssumption == Words \subseteq Seq(Letters) \ {<< >>}
ASSUME MaxLengthAssumption == MaxLength \in Nat

Chars == Letters \cup {"=", "&", ";", " "}

VARIABLES
  format,          \* which parser it is: parseRequestBody or parseBasicCookie
  state,           \* the local States
  name, value,     \* what has been collected of the current field
  parsed_values,   \* the std::map: a function from names to values
  input            \* the text read so far

vars == <<format, state, name, value, parsed_values, input>>

TypeOK ==
  /\ format \in {"body", "cookie"}
  /\ state \in {"Name", "Ignore", "Value", "WhiteSpace"}
  /\ name \in Seq(Chars)
  /\ value \in Seq(Chars)
  /\ DOMAIN parsed_values \subseteq Seq(Chars)
  /\ \A n \in DOMAIN parsed_values : parsed_values[n] \in Seq(Chars)
  /\ input \in Seq(Chars)
  /\ state # "Value" => value = << >>

Init ==
  /\ format \in {"body", "cookie"}
  /\ state = "Name"
  /\ name = << >>
  /\ value = << >>
  /\ parsed_values = << >>
  /\ input = << >>

\* std::map::insert keeps the value a name already has.
Insert(map, n, v) ==
  IF n \in DOMAIN map THEN map
  ELSE [m \in {n} \cup DOMAIN map |-> IF m = n THEN v ELSE map[m]]

(* Faulty variants of definitions below, to check that the properties notice *)
(* them.                                                                     *)

\* a second '=' ends the search for a value
SkipEquals_Once(c) ==
  /\ state = "Ignore"
  /\ state' = "Value"
  /\ value' = IF c # "=" THEN Append(value, c) ELSE value
  /\ UNCHANGED <<name, parsed_values>>

\* the value of the last field is not cleared
EndField_KeepValue(next) ==
  /\ parsed_values' = Insert(parsed_values, name, value)
  /\ name' = << >>
  /\ state' = next
  /\ UNCHANGED value

\* the name of the last field is not cleared
EndField_KeepName(next) ==
  /\ parsed_values' = Insert(parsed_values, name, value)
  /\ value' = << >>
  /\ state' = next
  /\ UNCHANGED name

ReadName(c) ==
  /\ state = "Name"
  /\ name' = IF c # "=" THEN Append(name, c) ELSE name
  /\ state' = IF c # "=" THEN "Name" ELSE "Ignore"
  /\ UNCHANGED <<value, parsed_values>>

\* Every '=' after the name is skipped.
SkipEquals(c) ==
  /\ state = "Ignore"
  /\ value' = IF c # "=" THEN Append(value, c) ELSE value
  /\ state' = IF c # "=" THEN "Value" ELSE "Ignore"
  /\ UNCHANGED <<name, parsed_values>>

EndField(next) ==
  /\ parsed_values' = Insert(parsed_values, name, value)
  /\ name' = << >>
  /\ value' = << >>
  /\ state' = next

\* Faulty: both parsers end a field at '&'.
ReadValue_Ampersand(c, separator, next) ==
  /\ state = "Value"
  /\ \/ /\ c # "&"
        /\ value' = Append(value, c)
        /\ UNCHANGED <<state, name, parsed_values>>
     \/ c = "&" /\ EndField(next)

ReadValue(c, separator, next) ==
  /\ state = "Value"
  /\ \/ /\ c # separator
        /\ value' = Append(value, c)
        /\ UNCHANGED <<state, name, parsed_values>>
     \/ c = separator /\ EndField(next)

\* The first character that is no blank is dropped with the blanks.
SkipBlank(c) ==
  /\ state = "WhiteSpace"
  /\ state' = IF c # " " THEN "Name" ELSE "WhiteSpace"
  /\ UNCHANGED <<name, value, parsed_values>>

\* The text is over: a value that has been begun counts.
Result == IF value # << >> THEN Insert(parsed_values, name, value) ELSE parsed_values

Read(c) ==
  /\ Len(input) < MaxLength
  /\ input' = Append(input, c)
  /\ UNCHANGED format

(* parseRequestBody *)

BodyNext ==
  \E c \in Chars :
    /\ format = "body"
    /\ Read(c)
    /\ ReadName(c) \/ SkipEquals(c) \/ ReadValue(c, "&", "Name")

(* parseBasicCookie *)

CookieNext ==
  \E c \in Chars :
    /\ format = "cookie"
    /\ Read(c)
    /\ \/ ReadName(c)
       \/ SkipEquals(c)
       \/ ReadValue(c, ";", "WhiteSpace")
       \/ SkipBlank(c)

Next == BodyNext \/ CookieNext

Spec == Init /\ [][Next]_vars

-------------------------------------------------------------------------------
(* Properties *)

\* No field is present with an empty value, for any text: the request handlers
\* take "the value is empty" for "there is no such field".
NoEmptyValue == \A n \in DOMAIN Result : Result[n] # << >>

\* What a page sends is what the server reads: jQuery sends two fields as
\* name=value with '&' between them, and names and values are Words.
Field(n, v) == n \o <<"=">> \o v

FormRead ==
  \A n, v, m, w \in Words :
    format = "body" /\ input = Field(n, v) \o <<"&">> \o Field(m, w)
      => Result = [x \in {n, m} |-> IF x = n THEN v ELSE w]

\* The first cookie is read right whatever the cookies after it are, which
\* lose the first character of their names and so may be mistaken for it.
FirstCookieRead ==
  \A n, v \in Words :
    LET cookie == Field(n, v) IN
    /\ format = "cookie"
    /\ \/ input = cookie
       \/ /\ Len(input) > Len(cookie)
          /\ SubSeq(input, 1, Len(cookie) + 1) = Append(cookie, ";")
    => n \in DOMAIN Result /\ Result[n] = v

===============================================================================
