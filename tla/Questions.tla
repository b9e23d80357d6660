------------------------------- MODULE Questions -------------------------------
(***************************************************************************)
(* Where the questions of a game come from: the class QuestionsGenerator,  *)
(* which makes them of the response of the quiz site, and the constructor  *)
(* of Question, which shuffles the answers and looks for the right one     *)
(* again.  Texts are tokens here; Base64 has how they are decoded.         *)
(***************************************************************************)
EXTENDS Naturals, Sequences, FiniteSets, Functions

CONSTANTS
  AnswerTexts,   \* what an answer may say
  NoArray,       \* an incorrect_answers that is no array
  NoText         \* an answer that is no text

ASSUME NoTextAssumption == NoText \notin AnswerTexts

\* complete: an object that has a text as its question and both kinds of answers.
Result == [complete : BOOLEAN,
           correct : AnswerTexts \cup {NoText},
           incorrect : Seq(AnswerTexts \cup {NoText}) \cup {NoArray}]

\* "silent": curl fails, or the site sends nothing; "refused": what it sends is
\* no JSON object, has no response_code 0, or results that are no array;
\* "noResults": it has no results at all.
Responses == [kind : {"silent", "refused", "noResults", "results"}, results : Seq(Result)]

QuestionRecord == [answers : [1..4 -> AnswerTexts], correctAnswerIndex : 0..3]

Shuffles(texts) ==
  {[i \in DOMAIN texts |-> texts[f[i]]] : f \in Bijection(DOMAIN texts, DOMAIN texts)}

\* The first index, counted from 0, at which the text stands.
IndexOf(texts, text) ==
  CHOOSE i \in 0..Len(texts) - 1 :
    /\ texts[i + 1] = text
    /\ \A j \in 1..i : texts[j] # text

(* Faulty variants of definitions below, to check that the properties notice *)
(* them.                                                                     *)

\* the right answer is looked for before the shuffle
Question_IndexFirst(a1, a2, a3, correctA) ==
  LET answers == <<a1, a2, a3, correctA>> IN
  {[answers |-> a, correctAnswerIndex |-> IndexOf(answers, correctA)] :
     a \in Shuffles(answers)}

\* a result that cannot be used ends the list
NumberKept_Earlier(results) ==
  CHOOSE n \in 0..Len(results) :
    /\ \A i \in 1..n : results[i].incorrect # NoArray
    /\ n < Len(results) => results[n + 1].incorrect = NoArray

\* Question::Question: the questions it may make of a right and three wrong
\* answers.
Question(a1, a2, a3, correctA) ==
  {[answers |-> a, correctAnswerIndex |-> IndexOf(a, correctA)] :
     a \in Shuffles(<<a1, a2, a3, correctA>>)}

\* GetString: of what is no text it makes an undefined one, if the program
\* survives it.
ReadText(text) == IF text = NoText THEN AnswerTexts ELSE {text}

\* answers[j] for a list that may be too short: what is read beyond its end is
\* as undefined.
ReadAnswer(incorrect, j) ==
  IF j <= Len(incorrect) THEN ReadText(incorrect[j]) ELSE AnswerTexts

QuestionsOf(result) ==
  UNION {Question(a1, a2, a3, c) :
           c \in ReadText(result.correct),
           a1 \in ReadAnswer(result.incorrect, 1),
           a2 \in ReadAnswer(result.incorrect, 2),
           a3 \in ReadAnswer(result.incorrect, 3)}

\* A result without an array of wrong answers takes everything that was
\* collected before it along: return {}.
NumberKept(results) ==
  IF \E i \in DOMAIN results : results[i].incorrect = NoArray THEN 0
                                                             ELSE Len(results)

\* QuestionsGenerator::collectQuestions: the lists it may return.
CollectQuestions(response) ==
  LET results == response.results
      kept == IF response.kind = "results" THEN 1..NumberKept(results) ELSE {}
  IN {list \in [kept -> UNION {QuestionsOf(results[i]) : i \in kept}] :
        \A i \in kept : list[i] \in QuestionsOf(results[i])}

\* A result that is not what the code takes for granted: a member is missing, a
\* text is none, or there are too few wrong answers.
Unsound(result) ==
  \/ ~result.complete
  \/ result.correct = NoText
  \/ /\ result.incorrect # NoArray
     /\ \/ Len(result.incorrect) < 3
        \/ \E j \in DOMAIN result.incorrect : result.incorrect[j] = NoText

\* Reading what is not there fails an assertion of rapidjson, or goes beyond the
\* end of a list: the program may end.  What stands behind an incorrect_answers
\* that is no array is not read.
MayCrash(response) ==
  \/ response.kind = "noResults"
  \/ /\ response.kind = "results"
     /\ \E i \in DOMAIN response.results :
          /\ \A j \in 1..i - 1 : response.results[j].incorrect # NoArray
          /\ Unsound(response.results[i])

===============================================================================
