-------------------------------- MODULE Player --------------------------------
(***************************************************************************)
(* One participant of a quiz: the class Player (player.h, player.cpp), a   *)
(* record with the fields of the class.  The name is left out: nothing     *)
(* depends on it.                                                          *)
(***************************************************************************)
EXTENDS Integers, Sequences

CONSTANTS
  PlayerIds,   \* what the random generator can yield for a player
  Answers      \* indices of the answers a question offers

POINTS_FOR_CORRECT_ANSWER == 10

Entry == [question : Nat, answer : Answers]

PlayerRecord == [id : PlayerIds,
                 score : Nat,
                 questionsAnswered : Nat,
                 answersGiven : Seq(Entry)]

NewPlayer(i) ==
  [id |-> i, score |-> 0, questionsAnswered |-> 0, answersGiven |-> << >>]

HasAnswered(p, q) ==
  \E k \in DOMAIN p.answersGiven : p.answersGiven[k].question = q

(* Faulty variants of definitions below, to check that the properties notice *)
(* them.                                                                     *)

\* no guard: every answer is taken
Refused_Never(p, q) == FALSE

\* wrong answers are paid as well
Paid_Always(p, correct) == [p EXCEPT !.score = @ + POINTS_FOR_CORRECT_ANSWER]

\* a right answer costs points
Paid_Penalty(p, correct) ==
  IF correct THEN [p EXCEPT !.score = @ - POINTS_FOR_CORRECT_ANSWER] ELSE p

(***************************************************************************)
(* gaveAnswer(questionIndex, answer, correct): the first answer to a       *)
(* question counts, and no question can be answered after a later one.     *)
(* The three writes are operators of their own, because another thread may *)
(* come between them.                                                      *)
(***************************************************************************)
Refused(p, q) == q < p.questionsAnswered \/ HasAnswered(p, q)

WithEntry(p, q, a) ==
  [p EXCEPT !.answersGiven = Append(@, [question |-> q, answer |-> a])]

WithCount(p, q) == [p EXCEPT !.questionsAnswered = q + 1]

Paid(p, correct) ==
  IF correct THEN [p EXCEPT !.score = @ + POINTS_FOR_CORRECT_ANSWER] ELSE p

GaveAnswer(p, q, a, correct) ==
  IF Refused(p, q) THEN p
                   ELSE Paid(WithCount(WithEntry(p, q, a), q), correct)

\* The answers of p are to distinct questions, in the order asked.
OnceEach(p) ==
  \A j, k \in DOMAIN p.answersGiven :
    j < k => p.answersGiven[j].question < p.answersGiven[k].question

===============================================================================
