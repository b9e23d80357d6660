---------------------------- MODULE PlayerPageProofs ----------------------------
(***************************************************************************)
(* A page sends at most one answer to a question, whatever the site sends, *)
(* however many players join and however late the statuses arrive; and a   *)
(* game has all the questions of the site or none.                         *)
(***************************************************************************)
EXTENDS PlayerPage, FiniteSetTheorems, SequenceTheorems, TLAPS

Asks(j) == statuses[j].state = "PLAYING"

\* The question of the page is that of the last running status it has read;
\* those on their way ask for the same one or for later ones, in order.
Types ==
  /\ currQuestion \in Nat
  /\ page.question \in Nat
  /\ page = [question |-> page.question, visible |-> page.visible,
             answerGiven |-> page.answerGiven, answers |-> page.answers,
             score |-> page.score]
  /\ \E S : statuses \in Seq(S)
  /\ \A j \in 1..Len(statuses) : statuses[j].question \in Nat
  /\ \E S : clicks \in Seq(S)
  /\ \A j \in 1..Len(clicks) : clicks[j].question \in Nat

Behind ==
  /\ page.question <= currQuestion + 1
  /\ \A j \in 1..Len(statuses) :
       Asks(j) => /\ page.question <= statuses[j].question + 1
                  /\ statuses[j].question <= currQuestion

Sorted ==
  \A j, k \in 1..Len(statuses) :
    j < k /\ Asks(j) /\ Asks(k) => statuses[j].question <= statuses[k].question

\* What has been clicked belongs to the question of the page or to an earlier
\* one, and to an earlier one while the buttons are shown.
Clicked ==
  \A j \in 1..Len(clicks) :
    /\ clicks[j].question <= page.question
    /\ page.visible => clicks[j].question < page.question

Ordered ==
  \A j, k \in 1..Len(clicks) : j < k => clicks[j].question < clicks[k].question

IInv == Types /\ Behind /\ Sorted /\ Clicked /\ Ordered

-------------------------------------------------------------------------------
(* The server's side: a status more, or none, and no question is taken back. *)

LEMMA Unsent ==
  ASSUME IInv, currQuestion' \in Nat, currQuestion' >= currQuestion,
         statuses' = statuses, page' = page, clicks' = clicks
  PROVE  IInv'
<1>1. Types'
  BY Zenon DEF IInv, Types
<1>2. Behind'
  BY DEF IInv, Types, Behind, Asks
<1>3. Sorted'
  BY DEF IInv, Sorted, Asks
<1>4. Clicked' /\ Ordered'
  BY DEF IInv, Clicked, Ordered
<1> QED
  BY <1>1, <1>2, <1>3, <1>4 DEF IInv

LEMMA Sent ==
  ASSUME IInv, currQuestion' \in Nat, currQuestion' >= currQuestion,
         NEW st, st.question = currQuestion, statuses' = Append(statuses, st),
         page' = page, clicks' = clicks
  PROVE  IInv'
<1>1. PICK n \in Nat : n = Len(statuses)
  BY DEF IInv, Types
<1>2. PICK S : statuses \in Seq(S)
  BY DEF IInv, Types
<1>3. /\ statuses' \in Seq(S \cup {st})
      /\ Len(statuses') = n + 1
      /\ \A j \in 1..n : statuses'[j] = statuses[j]
      /\ statuses'[n + 1] = st
  BY <1>1, <1>2
<1>4. \A j \in 1..n + 1 : j \in 1..n \/ j = n + 1
  OBVIOUS
<1>5. Types'
  <2>1. \A j \in 1..Len(statuses') : statuses'[j].question \in Nat
    BY <1>1, <1>3, <1>4 DEF IInv, Types
  <2>2. \E T : statuses' \in Seq(T)
    BY <1>3
  <2> QED
    BY <2>1, <2>2, Zenon DEF IInv, Types
<1>6. Behind'
  BY <1>1, <1>3, <1>4 DEF IInv, Types, Behind, Asks
<1>7. Sorted'
  <2> SUFFICES ASSUME NEW j \in 1..n + 1, NEW k \in 1..n + 1, j < k,
                      statuses'[j].state = "PLAYING", statuses'[k].state = "PLAYING"
               PROVE  statuses'[j].question <= statuses'[k].question
    BY <1>3 DEF Sorted, Asks
  <2>1. CASE k \in 1..n
    BY <1>1, <1>3, <2>1 DEF IInv, Sorted, Asks
  <2>2. CASE k = n + 1
    <3>1. j \in 1..n
      BY <2>2
    <3> QED
      BY <1>1, <1>3, <2>2, <3>1 DEF IInv, Behind, Asks
  <2> QED
    BY <1>4, <2>1, <2>2
<1>8. Clicked' /\ Ordered'
  BY DEF IInv, Clicked, Ordered
<1> QED
  BY <1>5, <1>6, <1>7, <1>8 DEF IInv

LEMMA Pushed ==
  ASSUME IInv, currQuestion' \in Nat, currQuestion' >= currQuestion,
         NEW s, NEW ps, Push(s, ps), page' = page, clicks' = clicks
  PROVE  IInv'
<1>1. CASE statuses' = statuses
  BY <1>1, Unsent
<1>2. CASE statuses' = Append(statuses, StatusOf(s, ps))
  <2>1. StatusOf(s, ps).question = currQuestion
    BY DEF StatusOf
  <2> QED
    BY <1>2, <2>1, Sent
<1> QED
  BY <1>1, <1>2 DEF Push

LEMMA EnterRoomStep ==
  ASSUME IInv, NEW i \in PlayerIds, EnterRoom(i)
  PROVE  IInv'
<1>1. PICK st : statuses' = <<st>> /\ st.question = currQuestion
  <2>1. StatusOf(state, players').question = currQuestion
    BY DEF StatusOf
  <2> QED
    BY <2>1 DEF EnterRoom
<1>2. page' = page /\ clicks' = clicks /\ currQuestion' = currQuestion
  BY DEF EnterRoom, gameVars
<1>3. Len(statuses') = 1 /\ statuses'[1] = st /\ statuses' \in Seq({st})
  BY <1>1
<1>4. Types'
  <2>1. \A j \in 1..Len(statuses') : statuses'[j].question \in Nat
    BY <1>1, <1>3 DEF IInv, Types
  <2> QED
    BY <1>2, <1>3, <2>1, Zenon DEF IInv, Types
<1>5. Behind'
  BY <1>1, <1>2, <1>3 DEF IInv, Types, Behind, Asks
<1>6. Sorted'
  BY <1>3 DEF Sorted
<1>7. Clicked' /\ Ordered'
  BY <1>2 DEF IInv, Clicked, Ordered
<1> QED
  BY <1>4, <1>5, <1>6, <1>7 DEF IInv

-------------------------------------------------------------------------------
(* The page. *)

\* Reading a status takes the page to a later question or leaves it at its own.
LEMMA HandleStatusStep ==
  ASSUME IInv, HandleStatus
  PROVE  IInv'
<1>2. PICK S : statuses \in Seq(S)
  BY DEF IInv, Types
<1>1. PICK n \in Nat : n = Len(statuses) /\ n > 0
  <2>1. statuses # << >>
    BY DEF HandleStatus
  <2> QED
    BY <1>2, <2>1
<1>3. /\ statuses' \in Seq(S)
      /\ Len(statuses') = n - 1
      /\ \A j \in 1..n - 1 : statuses'[j] = statuses[j + 1]
      /\ Head(statuses) = statuses[1]
  BY <1>1, <1>2 DEF HandleStatus
<1>4. currQuestion' = currQuestion /\ clicks' = clicks
  BY DEF HandleStatus, gameVars
<1>5. PICK st : st = statuses[1]
  OBVIOUS
<1>6. page' = IF Shown(st)
                THEN [question |-> st.question + 1, visible |-> TRUE,
                      answerGiven |-> FALSE, answers |-> st.answers,
                      score |-> NewScore(st)]
                ELSE [page EXCEPT
                        !.score = NewScore(st),
                        !.visible = @ /\ ~(st.state = "PLAYING" /\ page.answerGiven)]
  BY <1>3, <1>5, Zenon DEF HandleStatus
<1>7. page' = [question |-> page'.question, visible |-> page'.visible,
               answerGiven |-> page'.answerGiven, answers |-> page'.answers,
               score |-> page'.score]
  <2>1. CASE Shown(st)
    BY <1>6, <2>1
  <2>2. CASE ~Shown(st)
    BY <1>6, <2>2 DEF IInv, Types
  <2> QED
    BY <2>1, <2>2
<1>8. /\ Shown(st) => page'.question = st.question + 1
      /\ ~Shown(st) => /\ page'.question = page.question
                       /\ page'.visible => page.visible
  <2>1. CASE Shown(st)
    BY <1>6, <2>1
  <2>2. CASE ~Shown(st)
    BY <1>6, <2>2 DEF IInv, Types
  <2> QED
    BY <2>1, <2>2
<1>9. /\ st.question \in Nat
      /\ st.state = "PLAYING" => /\ page.question <= st.question + 1
                                 /\ st.question <= currQuestion
                                 /\ \A j \in 2..n : statuses[j].state = "PLAYING" =>
                                      st.question <= statuses[j].question
  <2>1. 1 \in 1..Len(statuses)
    BY <1>1
  <2>2. st.question \in Nat
    BY <1>5, <2>1 DEF IInv, Types
  <2>3. st.state = "PLAYING" => /\ page.question <= st.question + 1
                                /\ st.question <= currQuestion
    BY <1>5, <2>1 DEF IInv, Behind, Asks
  <2>4. ASSUME NEW j \in 2..n, st.state = "PLAYING", statuses[j].state = "PLAYING"
        PROVE  st.question <= statuses[j].question
    <3>1. j \in 1..Len(statuses) /\ 1 < j
      BY <1>1
    <3> QED
      BY <1>5, <2>1, <2>4, <3>1 DEF IInv, Sorted, Asks
  <2> QED
    BY <2>2, <2>3, <2>4
<1>10. /\ page'.question \in Nat
       /\ page.question <= page'.question
       /\ page'.question <= currQuestion + 1
       /\ Shown(st) => page.question < page'.question
       /\ page'.visible => page.visible \/ page.question < page'.question
  BY <1>8, <1>9 DEF IInv, Types, Behind, Shown
<1>11. Types'
  <2>1. \A j \in 1..Len(statuses') : statuses'[j].question \in Nat
    <3> SUFFICES ASSUME NEW j \in 1..n - 1 PROVE statuses'[j].question \in Nat
      BY <1>3
    <3>1. j + 1 \in 1..n /\ statuses'[j] = statuses[j + 1]
      BY <1>3
    <3> QED
      BY <1>1, <3>1 DEF IInv, Types
  <2> QED
    BY <1>3, <1>4, <1>7, <1>10, <2>1, Zenon DEF IInv, Types
<1>12. Behind'
  <2> SUFFICES ASSUME NEW j \in 1..n - 1, statuses'[j].state = "PLAYING"
               PROVE  /\ page'.question <= statuses'[j].question + 1
                      /\ statuses'[j].question <= currQuestion
    BY <1>3, <1>4, <1>10 DEF Behind, Asks
  <2>1. j + 1 \in 2..n /\ j + 1 \in 1..n /\ statuses'[j] = statuses[j + 1]
    BY <1>3
  <2>2. /\ page.question <= statuses[j + 1].question + 1
        /\ statuses[j + 1].question <= currQuestion
    BY <1>1, <2>1 DEF IInv, Behind, Asks
  <2>3. Shown(st) => st.question <= statuses[j + 1].question
    BY <1>9, <2>1 DEF Shown
  <2>4. statuses[j + 1].question \in Nat
    BY <1>1, <2>1 DEF IInv, Types
  <2> QED
    BY <1>8, <1>9, <2>1, <2>2, <2>3, <2>4
<1>13. Sorted'
  <2> SUFFICES ASSUME NEW j \in 1..n - 1, NEW k \in 1..n - 1, j < k,
                      statuses'[j].state = "PLAYING", statuses'[k].state = "PLAYING"
               PROVE  statuses'[j].question <= statuses'[k].question
    BY <1>3 DEF Sorted, Asks
  <2>1. /\ j + 1 \in 1..n /\ k + 1 \in 1..n /\ j + 1 < k + 1
        /\ statuses'[j] = statuses[j + 1] /\ statuses'[k] = statuses[k + 1]
    BY <1>3
  <2> QED
    BY <1>1, <2>1 DEF IInv, Sorted, Asks
<1>14. Clicked'
  BY <1>4, <1>10 DEF IInv, Types, Clicked
<1>15. Ordered'
  BY <1>4 DEF IInv, Ordered
<1> QED
  BY <1>11, <1>12, <1>13, <1>14, <1>15 DEF IInv

\* The buttons are gone with the first click.
LEMMA GiveAnswerStep ==
  ASSUME IInv, NEW a \in Answers, GiveAnswer(a)
  PROVE  IInv'
<1>1. PICK n \in Nat : n = Len(clicks)
  BY DEF IInv, Types
<1>2. PICK S : clicks \in Seq(S)
  BY DEF IInv, Types
<1>3. PICK c : clicks' = Append(clicks, c) /\ c.question = page.question
  BY DEF GiveAnswer
<1>4. /\ clicks' \in Seq(S \cup {c})
      /\ Len(clicks') = n + 1
      /\ \A j \in 1..n : clicks'[j] = clicks[j]
      /\ clicks'[n + 1] = c
  BY <1>1, <1>2, <1>3
<1>5. currQuestion' = currQuestion /\ statuses' = statuses /\ page.visible
  BY DEF GiveAnswer, gameVars
<1>6. page' = [page EXCEPT !.answerGiven = TRUE, !.visible = FALSE]
  BY DEF GiveAnswer
<1>7. /\ page'.question = page.question /\ ~page'.visible
      /\ page' = [question |-> page'.question, visible |-> page'.visible,
                  answerGiven |-> page'.answerGiven, answers |-> page'.answers,
                  score |-> page'.score]
  BY <1>6 DEF IInv, Types
<1>8. \A j \in 1..n + 1 : j \in 1..n \/ j = n + 1
  OBVIOUS
<1>9. Types'
  <2>1. \A j \in 1..Len(clicks') : clicks'[j].question \in Nat
    BY <1>1, <1>3, <1>4, <1>8 DEF IInv, Types
  <2>2. \E T : clicks' \in Seq(T)
    BY <1>4
  <2> QED
    BY <1>5, <1>7, <2>1, <2>2, Zenon DEF IInv, Types
<1>10. Behind' /\ Sorted'
  BY <1>5, <1>7 DEF IInv, Behind, Sorted, Asks
<1>11. Clicked'
  BY <1>1, <1>3, <1>4, <1>7, <1>8 DEF IInv, Types, Clicked
<1>12. Ordered'
  <2> SUFFICES ASSUME NEW j \in 1..n + 1, NEW k \in 1..n + 1, j < k
               PROVE  clicks'[j].question < clicks'[k].question
    BY <1>4 DEF Ordered
  <2>1. CASE k \in 1..n
    BY <1>1, <1>4, <2>1 DEF IInv, Ordered
  <2>2. CASE k = n + 1
    <3>1. j \in 1..n
      BY <2>2
    <3> QED
      BY <1>1, <1>3, <1>4, <1>5, <2>2, <3>1 DEF IInv, Clicked
  <2> QED
    BY <1>8, <2>1, <2>2
<1> QED
  BY <1>9, <1>10, <1>11, <1>12 DEF IInv

LEMMA DisconnectStep ==
  ASSUME IInv, Disconnect
  PROVE  IInv'
<1>1. /\ statuses' = << >> /\ page' = page /\ clicks' = clicks
      /\ currQuestion' = currQuestion
  BY DEF Disconnect, gameVars
<1>2. Len(statuses') = 0 /\ \E S : statuses' \in Seq(S)
  BY <1>1
<1>3. Types'
  <2>1. \A j \in 1..Len(statuses') : statuses'[j].question \in Nat
    BY <1>2
  <2> QED
    BY <1>1, <1>2, <2>1, Zenon DEF IInv, Types
<1>4. Behind' /\ Sorted'
  BY <1>1, <1>2 DEF IInv, Behind, Sorted
<1>5. Clicked' /\ Ordered'
  BY <1>1 DEF IInv, Clicked, Ordered
<1> QED
  BY <1>3, <1>4, <1>5 DEF IInv

\* A form is sent, or lost: the buttons may go, nothing else of the page does.
LEMMA FormStep ==
  ASSUME IInv, SendForm \/ FormFails
  PROVE  /\ page' = [question |-> page.question, visible |-> page'.visible,
                     answerGiven |-> page'.answerGiven, answers |-> page.answers,
                     score |-> page.score]
         /\ page'.visible => page.visible
         /\ UNCHANGED <<response, state, currQuestion, questions, players, answering,
                        statuses, answers, connected, clicks, recorded>>
<1>1. page = [question |-> page.question, visible |-> page.visible,
              answerGiven |-> page.answerGiven, answers |-> page.answers,
              score |-> page.score]
  BY DEF IInv, Types
<1>2. \/ page' = [page EXCEPT !.answerGiven = TRUE]
      \/ page' = [page EXCEPT !.visible = FALSE]
  BY DEF SendForm, FormFails
<1>3. UNCHANGED <<response, state, currQuestion, questions, players, answering,
                  statuses, answers, connected, clicks, recorded>>
  BY DEF SendForm, FormFails, gameVars
<1> QED
  BY <1>1, <1>2, <1>3

LEMMA FormKeeps ==
  ASSUME IInv, SendForm \/ FormFails
  PROVE  IInv'
<1>1. /\ page'.question = page.question
      /\ page'.visible => page.visible
      /\ page' = [question |-> page'.question, visible |-> page'.visible,
                  answerGiven |-> page'.answerGiven, answers |-> page'.answers,
                  score |-> page'.score]
      /\ UNCHANGED <<currQuestion, statuses, clicks>>
  BY FormStep
<1>2. Types'
  BY <1>1, Zenon DEF IInv, Types
<1>3. Behind' /\ Sorted'
  BY <1>1 DEF IInv, Behind, Sorted, Asks
<1>4. Clicked' /\ Ordered'
  BY <1>1 DEF IInv, Clicked, Ordered
<1> QED
  BY <1>2, <1>3, <1>4 DEF IInv

-------------------------------------------------------------------------------

LEMMA Initially ==
  Init => IInv
<1> SUFFICES ASSUME Init PROVE IInv
  OBVIOUS
<1>1. /\ currQuestion = 0 /\ statuses = << >> /\ clicks = << >>
      /\ page = [question |-> 0, visible |-> TRUE, answerGiven |-> FALSE,
                 answers |-> << >>, score |-> 0]
  BY DEF Init
<1>2. Len(statuses) = 0 /\ Len(clicks) = 0 /\ \E S : statuses \in Seq(S) /\ clicks \in Seq(S)
  BY <1>1
<1>3. Types
  BY <1>1, <1>2 DEF Types
<1>4. Behind /\ Sorted /\ Clicked /\ Ordered
  BY <1>1, <1>2 DEF Behind, Sorted, Clicked, Ordered
<1> QED
  BY <1>3, <1>4 DEF IInv

LEMMA Step ==
  IInv /\ [Next]_vars => IInv'
<1> SUFFICES ASSUME IInv, [Next]_vars PROVE IInv'
  OBVIOUS
<1>0. currQuestion \in Nat /\ currQuestion >= currQuestion
  BY DEF IInv, Types
<1>1. ASSUME NEW s, ChangeState(s), currQuestion' = currQuestion PROVE IInv'
  BY <1>0, <1>1, Pushed DEF ChangeState
<1>2. CASE GetQuestions \/ OpenRound \/ CloseRound \/ FinishGame
  BY <1>1, <1>2 DEF GetQuestions, OpenRound, CloseRound, FinishGame
<1>3. CASE EndPause
  <2>1. currQuestion' \in Nat /\ currQuestion' >= currQuestion
    BY <1>0, <1>3 DEF EndPause
  <2> QED
    BY <1>3, <2>1, Pushed DEF EndPause, ChangeState
<1>4. CASE SomebodyJoins
  BY <1>0, <1>4, Pushed DEF SomebodyJoins, gameVars
<1>5. CASE ReadBeyondTheEnd \/ TakeForm \/ TakeAnswer \/ RecordAnswer \/ UNCHANGED vars
  BY <1>0, <1>5, Unsent
     DEF ReadBeyondTheEnd, TakeForm, TakeAnswer, RecordAnswer, vars, gameVars, linkVars
<1>6. ASSUME NEW i \in PlayerIds, EnterRoom(i) PROVE IInv'
  BY <1>6, EnterRoomStep
<1>7. CASE HandleStatus
  BY <1>7, HandleStatusStep
<1>8. ASSUME NEW a \in Answers, GiveAnswer(a) PROVE IInv'
  BY <1>8, GiveAnswerStep
<1>9. CASE Disconnect
  BY <1>9, DisconnectStep
<1>10. CASE SendForm \/ FormFails
  BY <1>10, FormKeeps
<1> QED
  BY <1>2, <1>3, <1>4, <1>5, <1>6, <1>7, <1>8, <1>9, <1>10 DEF Next

\* A page never sends two answers to one question, nor one to an earlier question
\* than its last: not when the running question is sent again because somebody
\* joins, not when statuses pile up on their way, not before the first question.
THEOREM AnswersAreOnce ==
  Spec => []OneAnswerPerQuestion
<1>1. IInv => OneAnswerPerQuestion
  BY DEF IInv, Types, Ordered, OneAnswerPerQuestion
<1> QED
  BY <1>1, Initially, Step, PTL DEF Spec

-------------------------------------------------------------------------------
(* The score on the page. *)

\* The score of the last status that the page has been sent.
LastScore ==
  IF statuses = << >> THEN page.score ELSE statuses[Len(statuses)].score

\* It is the one that the server keeps, but for the round and its pause, in
\* which answers are recorded without a word to the page.
ScoreOK ==
  /\ connected => players # << >>
  /\ answering # NoAnswer => state \in {"PLAYING", "PAUSED"}
  /\ connected /\ state \notin {"PLAYING", "PAUSED"} => LastScore = players[1].score

ScoreInv == IInv /\ ScoreOK

\* Whatever sends a status brings the page up to date.
LEMMA PushTellsScore ==
  ASSUME ScoreInv, NEW s, Push(s, players), players' = players,
         connected' = connected, connected
  PROVE  LastScore' = players'[1].score
<1>1. PICK S : statuses \in Seq(S)
  BY DEF ScoreInv, IInv, Types
<1>2. PICK st : st = StatusOf(s, players) /\ st.score = players[1].score
  <2>1. StatusOf(s, players).score = players[1].score
    BY DEF StatusOf
  <2> QED
    BY <2>1
<1>3. statuses' = Append(statuses, st)
  BY <1>2 DEF Push, ScoreInv, ScoreOK
<1>4. statuses' # << >> /\ statuses'[Len(statuses')] = st
  BY <1>1, <1>3
<1> QED
  BY <1>2, <1>4 DEF LastScore

LEMMA ScoreSteps ==
  ASSUME ScoreInv, [Next]_vars
  PROVE  ScoreOK'
<1> USE DEF ScoreInv
<1>1. ASSUME NEW s, ChangeState(s), answering = NoAnswer \/ s \in {"PLAYING", "PAUSED"}
      PROVE  ScoreOK'
  <2>1. /\ Push(s, players) /\ state' = s
        /\ UNCHANGED <<players, connected, answering>>
    BY <1>1 DEF ChangeState
  <2> QED
    BY <1>1, <2>1, PushTellsScore DEF ScoreOK
<1>2. CASE GetQuestions \/ FinishGame
  <2>1. answering = NoAnswer
    BY <1>2 DEF GetQuestions, FinishGame, ScoreOK
  <2> QED
    BY <1>1, <1>2, <2>1 DEF GetQuestions, FinishGame
<1>3. CASE OpenRound \/ CloseRound \/ EndPause
  BY <1>1, <1>3 DEF OpenRound, CloseRound, EndPause
<1>4. CASE SomebodyJoins
  <2>1. Push(state, players) /\ UNCHANGED <<state, players, connected, answering>>
    BY <1>4 DEF SomebodyJoins, gameVars
  <2> QED
    BY <2>1, PushTellsScore DEF ScoreOK
<1>5. ASSUME NEW i \in PlayerIds, EnterRoom(i) PROVE ScoreOK'
  <2>1. PICK st : st = StatusOf(state, players') /\ st.score = players'[1].score
    <3>1. StatusOf(state, players').score = players'[1].score
      BY DEF StatusOf
    <3> QED
      BY <3>1
  <2>2. /\ statuses' = <<st>> /\ players' # << >>
        /\ state' = state /\ answering' = answering
    BY <1>5, <2>1 DEF EnterRoom, gameVars
  <2>3. LastScore' = players'[1].score
    BY <2>1, <2>2 DEF LastScore
  <2> QED
    BY <2>2, <2>3 DEF ScoreOK
<1>6. CASE RecordAnswer
  <2>1. /\ state' = state /\ connected' = connected /\ answering' = NoAnswer
        /\ state \in {"PLAYING", "PAUSED"} /\ players' # << >>
    BY <1>6 DEF RecordAnswer, gameVars, linkVars, ScoreOK
  <2> QED
    BY <2>1 DEF ScoreOK
<1>7. CASE HandleStatus
  <2>1. PICK S : statuses \in Seq(S)
    BY DEF IInv, Types
  <2>2. page'.score = statuses[1].score
    <3>1. PICK st : st = Head(statuses) /\ NewScore(st) = st.score
      BY DEF NewScore
    <3>2. st = statuses[1]
      BY <1>7, <2>1, <3>1 DEF HandleStatus
    <3>3. page' = IF Shown(st)
                    THEN [question |-> st.question + 1, visible |-> TRUE,
                          answerGiven |-> FALSE, answers |-> st.answers,
                          score |-> NewScore(st)]
                    ELSE [page EXCEPT
                            !.score = NewScore(st),
                            !.visible = @ /\ ~(st.state = "PLAYING" /\ page.answerGiven)]
      BY <1>7, <3>1, Zenon DEF HandleStatus
    <3>4. CASE Shown(st)
      BY <3>1, <3>2, <3>3, <3>4
    <3>5. CASE ~Shown(st)
      BY <3>1, <3>2, <3>3, <3>5 DEF IInv, Types
    <3> QED
      BY <3>4, <3>5
  <2>3. PICK n \in Nat : n = Len(statuses) /\ n > 0
    BY <1>7, <2>1 DEF HandleStatus
  <2>4. /\ statuses' \in Seq(S) /\ Len(statuses') = n - 1
        /\ \A j \in 1..n - 1 : statuses'[j] = statuses[j + 1]
    BY <1>7, <2>1, <2>3 DEF HandleStatus
  <2>5. LastScore' = LastScore
    <3>1. CASE n = 1
      <4>1. statuses' = << >> /\ statuses # << >>
        BY <1>7, <2>3, <2>4, <3>1, EmptySeq DEF HandleStatus
      <4> QED
        BY <2>2, <2>3, <3>1, <4>1 DEF LastScore
    <3>2. CASE n > 1
      <4>1. statuses'[n - 1] = statuses[n] /\ statuses' # << >>
        BY <2>3, <2>4, <3>2
      <4> QED
        BY <2>1, <2>3, <2>4, <4>1 DEF LastScore
    <3> QED
      BY <2>3, <3>1, <3>2
  <2>6. UNCHANGED <<state, connected, players, answering>>
    BY <1>7 DEF HandleStatus, gameVars
  <2> QED
    BY <2>5, <2>6 DEF ScoreOK
<1>8. ASSUME NEW a \in Answers, GiveAnswer(a) PROVE ScoreOK'
  <2>1. page'.score = page.score /\ statuses' = statuses
    BY <1>8 DEF GiveAnswer, IInv, Types
  <2>2. UNCHANGED <<state, connected, players, answering>>
    BY <1>8 DEF GiveAnswer, gameVars
  <2> QED
    BY <2>1, <2>2 DEF ScoreOK, LastScore
<1>9. CASE Disconnect
  BY <1>9 DEF Disconnect, gameVars, ScoreOK
<1>10. CASE TakeAnswer
  <2>1. /\ answering' = IF state = "PLAYING" THEN Head(answers) ELSE NoAnswer
        /\ UNCHANGED <<state, connected, players, statuses, page>>
    BY <1>10 DEF TakeAnswer, gameVars
  <2>2. LastScore' = LastScore
    BY <2>1 DEF LastScore
  <2> QED
    BY <2>1, <2>2 DEF ScoreOK
<1>11. CASE ReadBeyondTheEnd \/ TakeForm \/ UNCHANGED vars
  <2>1. UNCHANGED <<state, connected, players, statuses, page, answering>>
    BY <1>11 DEF ReadBeyondTheEnd, TakeForm, vars, gameVars, linkVars
  <2> QED
    BY <2>1 DEF ScoreOK, LastScore
<1>12. CASE SendForm \/ FormFails
  <2>1. page'.score = page.score /\ statuses' = statuses
    BY <1>12, FormStep
  <2>2. UNCHANGED <<state, connected, players, answering>>
    BY <1>12, FormStep
  <2> QED
    BY <2>1, <2>2 DEF ScoreOK, LastScore
<1> QED
  BY <1>2, <1>3, <1>4, <1>5, <1>6, <1>7, <1>8, <1>9, <1>10, <1>11, <1>12 DEF Next

\* Between rounds the page shows the score the server keeps once everything sent
\* has arrived (ScoreUpToDate): a status follows every recorded answer, since the
\* pause outlasts its recording and ends with a status.
THEOREM PageKeepsScore ==
  Spec => []ScoreUpToDate
<1>1. Init => ScoreInv
  BY Initially DEF Init, ScoreInv, ScoreOK
<1>2. ScoreInv /\ [Next]_vars => ScoreInv'
  BY Step, ScoreSteps DEF ScoreInv
<1>3. ScoreInv => ScoreUpToDate
  BY DEF ScoreInv, ScoreOK, LastScore, ScoreUpToDate
<1> QED
  BY <1>1, <1>2, <1>3, PTL DEF Spec

-------------------------------------------------------------------------------
(* The questions of the site. *)

\* What collectQuestions returns is empty or as long as what the site has sent.
LEMMA Collected ==
  ASSUME NEW r \in Responses, NEW list \in CollectQuestions(r)
  PROVE  Len(list) \in {0, Len(r.results)}
<1>1. r.results \in Seq(Result)
  BY DEF Responses
<1>2. PICK n \in Nat : n = Len(r.results)
  BY <1>1
<1>3. NumberKept(r.results) \in {0, n}
  BY <1>2 DEF NumberKept
<1>4. PICK k \in {0, n} : \E S : list \in [1..k -> S]
  <2> DEFINE kept == IF r.kind = "results" THEN 1..NumberKept(r.results) ELSE {}
  <2> DEFINE X == UNION {QuestionsOf(r.results[i]) : i \in kept}
  <2>1. list \in [kept -> X]
    BY DEF CollectQuestions
  <2> HIDE DEF X
  <2>2. CASE r.kind = "results"
    BY <1>3, <2>1, <2>2
  <2>3. CASE r.kind # "results"
    <3>1. kept = 1..0
      BY <2>3
    <3> QED
      BY <2>1, <3>1
  <2> QED
    BY <2>2, <2>3
<1>5. Len(list) = k
  BY <1>2, <1>4
<1> QED
  BY <1>2, <1>5

\* A game has all the questions that the site has sent or none, and none is
\* offered without questions.
THEOREM NoShortenedGame ==
  Spec => []AllOrNothing
<1> DEFINE Inv == response \in SiteSends /\ AllOrNothing
<1>1. Init => Inv
  <2> SUFFICES ASSUME Init PROVE Inv
    OBVIOUS
  <2>1. response \in SiteSends /\ questions = << >> /\ state = "NULL" /\ Len(questions) = 0
    BY DEF Init
  <2> QED
    BY <2>1 DEF AllOrNothing
<1>2. Inv /\ [Next]_vars => Inv'
  <2> SUFFICES ASSUME Inv, [Next]_vars PROVE Inv'
    OBVIOUS
  <2>1. ASSUME response' = response, questions' = questions,
               state = "NULL" => questions # << >> \/ state' = "NULL"
        PROVE  Inv'
    BY <2>1 DEF AllOrNothing
  <2>2. CASE GetQuestions
    <3>1. /\ questions' \in CollectQuestions(response) /\ questions' # << >>
          /\ response' = response
      BY <2>2 DEF GetQuestions, ChangeState
    <3>2. response \in Responses
      BY SiteAssumption
    <3>3. Len(questions') \in {0, Len(response'.results)}
      BY <3>1, <3>2, Collected
    <3> QED
      BY <3>1, <3>3 DEF AllOrNothing
  <2>3. CASE OpenRound \/ CloseRound \/ EndPause \/ FinishGame
    BY <2>1, <2>3 DEF OpenRound, CloseRound, EndPause, FinishGame, ChangeState
  <2>4. ASSUME NEW i \in PlayerIds, EnterRoom(i) PROVE Inv'
    BY <2>1, <2>4 DEF EnterRoom, gameVars
  <2>5. ASSUME NEW a \in Answers, GiveAnswer(a) PROVE Inv'
    BY <2>1, <2>5 DEF GiveAnswer, gameVars
  <2>6. CASE ReadBeyondTheEnd \/ TakeForm \/ SomebodyJoins \/ TakeAnswer \/ RecordAnswer
             \/ HandleStatus \/ Disconnect \/ SendForm \/ FormFails \/ UNCHANGED vars
    BY <2>1, <2>6 DEF ReadBeyondTheEnd, TakeForm, SomebodyJoins, TakeAnswer, RecordAnswer,
                      HandleStatus, Disconnect, SendForm, FormFails, vars, gameVars
  <2> QED
    BY <2>2, <2>3, <2>4, <2>5, <2>6 DEF Next
<1>3. Inv => AllOrNothing
  OBVIOUS
<1> QED
  BY <1>1, <1>2, <1>3, PTL DEF Spec

-------------------------------------------------------------------------------
(* Points are for the right text. *)

\* Wherever the shuffle puts them, the index of a question is that of a button
\* with the right text (Question::Question).
LEMMA IndexIsRight ==
  ASSUME NEW a1 \in AnswerTexts, NEW a2 \in AnswerTexts, NEW a3 \in AnswerTexts,
         NEW c \in AnswerTexts, NEW q \in Question(a1, a2, a3, c)
  PROVE  /\ q.answers \in [1..4 -> AnswerTexts]
         /\ q.correctAnswerIndex \in 0..3
         /\ q.answers[q.correctAnswerIndex + 1] = c
<1> DEFINE texts == <<a1, a2, a3, c>>
<1>1. texts \in [1..4 -> AnswerTexts] /\ DOMAIN texts = 1..4 /\ texts[4] = c
  OBVIOUS
<1> HIDE DEF texts
<1>2. PICK a \in Shuffles(texts) :
        q = [answers |-> a, correctAnswerIndex |-> IndexOf(a, c)]
  BY DEF Question, texts
<1>3. PICK f \in Bijection(1..4, 1..4) : a = [i \in 1..4 |-> texts[f[i]]]
  BY <1>1, <1>2 DEF Shuffles
<1>4. f \in [1..4 -> 1..4] /\ \E j \in 1..4 : f[j] = 4
  BY <1>3 DEF Bijection, Injection, Surjection
<1>5. a \in [1..4 -> AnswerTexts] /\ Len(a) = 4
  BY <1>1, <1>3, <1>4
<1>6. \E j \in 1..4 : a[j] = c
  BY <1>1, <1>3, <1>4
<1>7. \E i \in 0..Len(a) - 1 : a[i + 1] = c /\ \A j \in 1..i : a[j] # c
  <2>1. CASE a[1] = c
    BY <1>5, <2>1
  <2>2. CASE a[1] # c /\ a[2] = c
    <3>1. 1 \in 0..Len(a) - 1 /\ a[1 + 1] = c /\ \A j \in 1..1 : a[j] # c
      BY <1>5, <2>2
    <3> QED
      BY <3>1
  <2>3. CASE a[1] # c /\ a[2] # c /\ a[3] = c
    <3>1. 2 \in 0..Len(a) - 1 /\ a[2 + 1] = c /\ \A j \in 1..2 : a[j] # c
      BY <1>5, <2>3
    <3> QED
      BY <3>1
  <2>4. CASE a[1] # c /\ a[2] # c /\ a[3] # c
    <3>1. 3 \in 0..Len(a) - 1 /\ a[3 + 1] = c /\ \A j \in 1..3 : a[j] # c
      BY <1>5, <1>6, <2>4
    <3> QED
      BY <3>1
  <2> QED
    BY <2>1, <2>2, <2>3, <2>4
<1>8. IndexOf(a, c) \in 0..Len(a) - 1 /\ a[IndexOf(a, c) + 1] = c
  BY <1>7 DEF IndexOf
<1>9. q.answers = a /\ q.correctAnswerIndex = IndexOf(a, c)
  BY <1>2
<1> QED
  BY <1>5, <1>8, <1>9

\* What a game knows of its questions, whatever the site has sent.
LEMMA GameQuestions ==
  ASSUME NEW r \in Responses, NEW list \in CollectQuestions(r), NEW i \in 1..Len(list)
  PROVE  /\ list[i].answers \in [1..4 -> AnswerTexts]
         /\ list[i].correctAnswerIndex \in 0..3
         /\ r.results[i].correct \in AnswerTexts =>
              list[i].answers[list[i].correctAnswerIndex + 1] = r.results[i].correct
<1>1. r.results \in Seq(Result)
  BY DEF Responses
<1>2. PICK n \in Nat : n = Len(r.results)
  BY <1>1
<1> DEFINE kept == IF r.kind = "results" THEN 1..NumberKept(r.results) ELSE {}
<1>3. /\ \A j \in kept : list[j] \in QuestionsOf(r.results[j])
      /\ DOMAIN list = kept
  BY DEF CollectQuestions
<1>4. kept \in {1..n, {}} /\ (kept # {} => \A j \in 1..n : r.results[j].incorrect # NoArray)
  <2>1. DOMAIN r.results = 1..n
    BY <1>1, <1>2
  <2>2. CASE \E j \in 1..n : r.results[j].incorrect = NoArray
    <3>1. NumberKept(r.results) = 0
      BY <2>1, <2>2 DEF NumberKept
    <3>2. 1..0 = {}
      OBVIOUS
    <3> QED
      BY <3>1, <3>2
  <2>3. CASE ~\E j \in 1..n : r.results[j].incorrect = NoArray
    <3>1. NumberKept(r.results) = n
      BY <1>2, <2>1, <2>3 DEF NumberKept
    <3> QED
      BY <2>3, <3>1
  <2> QED
    BY <2>2, <2>3
<1> HIDE DEF kept
<1>5. i \in kept
  <2>1. Len(list) \in {0, n}
    BY <1>2, Collected
  <2>2. i \in 1..n /\ Len(list) # 0
    BY <1>2, <2>1
  <2>3. kept # {}
    <3> SUFFICES ASSUME kept = {} PROVE FALSE
      OBVIOUS
    <3>1. list \in [{} -> {}]
      <4>1. \E X : list \in [kept -> X]
        BY DEF CollectQuestions, kept
      <4> QED
        BY <1>3, <4>1
    <3>2. list = << >>
      BY <3>1
    <3> QED
      BY <2>2, <3>2
  <2> QED
    BY <1>4, <2>2, <2>3
<1>6. PICK result \in Result : result = r.results[i] /\ result.incorrect # NoArray
  BY <1>1, <1>2, <1>4, <1>5
<1>7. /\ result.correct \in AnswerTexts \cup {NoText}
      /\ result.incorrect \in Seq(AnswerTexts \cup {NoText})
  BY <1>6 DEF Result
<1>8. /\ ReadText(result.correct) \subseteq AnswerTexts
      /\ result.correct \in AnswerTexts => ReadText(result.correct) = {result.correct}
  BY <1>7, NoTextAssumption DEF ReadText
<1>10. ASSUME NEW j \in 1..3 PROVE ReadAnswer(result.incorrect, j) \subseteq AnswerTexts
  BY <1>7, ElementOfSeq DEF ReadAnswer, ReadText
<1>9. PICK c \in ReadText(result.correct),
           a1 \in AnswerTexts, a2 \in AnswerTexts, a3 \in AnswerTexts :
        list[i] \in Question(a1, a2, a3, c)
  BY <1>3, <1>5, <1>6, <1>10 DEF QuestionsOf
<1>11. c \in AnswerTexts /\ (result.correct \in AnswerTexts => c = result.correct)
  BY <1>8, <1>9
<1>12. PICK q : q = list[i] /\ q \in Question(a1, a2, a3, c)
  BY <1>9
<1>13. /\ q.answers \in [1..4 -> AnswerTexts] /\ q.correctAnswerIndex \in 0..3
       /\ q.answers[q.correctAnswerIndex + 1] = c
  BY <1>11, <1>12, IndexIsRight
<1> QED
  BY <1>6, <1>11, <1>12, <1>13

\* The questions are those of the site, and while one is asked or was just
\* asked there is one; nothing is recorded before they are there, and nothing
\* said or meant before the player is in.
GameOK ==
  /\ response \in SiteSends
  /\ state # "NULL" => questions \in CollectQuestions(response)
  /\ state = "NULL" => questions = << >> /\ recorded = << >> /\ answering = NoAnswer
  /\ state \in {"PLAYING", "PAUSED"} => currQuestion < Len(questions)
  /\ players # << >> => \E p \in PlayerRecord : players = <<p>>
  /\ players = << >> =>
       /\ ~connected /\ statuses = << >> /\ answers = << >>
       /\ answering = NoAnswer /\ recorded = << >> /\ page.question = 0

\* What the page shows, or is about to, is what the game has asked.
OnQuestion(q, texts) == q <= Len(questions) /\ texts = questions[q].answers

ShownOK ==
  /\ page.question > 0 => OnQuestion(page.question, page.answers)
  /\ \A j \in 1..Len(statuses) :
       Asks(j) => OnQuestion(statuses[j].question + 1, statuses[j].answers)

\* The text of an answer is the one that its button had in its question.
Meant(a) ==
  /\ a.answer \in Answers
  /\ a.question \in Nat
  /\ a.question > 0 =>
       /\ a.question <= Len(questions)
       /\ a.text = questions[a.question].answers[a.answer + 1]

MeantOK ==
  /\ \E S : answers \in Seq(S)
  /\ \A j \in 1..Len(answers) : Meant(answers[j])
  /\ answering # NoAnswer => Meant(answering) /\ state \in {"PLAYING", "PAUSED"}
  /\ \E S : recorded \in Seq(S)
  /\ \A j \in 1..Len(recorded) : Meant(recorded[j])

Earned == {k \in DOMAIN players[1].answersGiven : Judged(k)}

PaidOK ==
  players # << >> =>
    /\ Len(recorded) = Len(players[1].answersGiven)
    /\ \A k \in 1..Len(recorded) :
         players[1].answersGiven[k].answer = recorded[k].answer
    /\ players[1].score = POINTS_FOR_CORRECT_ANSWER * Cardinality(Earned)

PayInv == IInv /\ GameOK /\ ShownOK /\ MeantOK /\ PaidOK

\* An answer that counts is added to those given and paid for if it is right
\* (gaveAnswer); any other leaves the player as he is.
LEMMA Counted ==
  ASSUME NEW p \in PlayerRecord, NEW q \in Nat, NEW a \in Answers, NEW right,
         NEW r, r = GaveAnswer(p, q, a, right)
  PROVE  /\ r \in PlayerRecord
         /\ \/ r = p
            \/ /\ r # p
               /\ r.answersGiven = Append(p.answersGiven, [question |-> q, answer |-> a])
               /\ r.score = IF right THEN p.score + POINTS_FOR_CORRECT_ANSWER ELSE p.score
<1>1. CASE Refused(p, q)
  BY <1>1 DEF GaveAnswer
<1>2. CASE ~Refused(p, q)
  <2>1. r = Paid(WithCount(WithEntry(p, q, a), q), right)
    BY <1>2 DEF GaveAnswer
  <2>2. /\ p.id \in PlayerIds /\ p.score \in Nat /\ p.questionsAnswered \in Nat
        /\ p.answersGiven \in Seq(Entry)
        /\ p = [id |-> p.id, score |-> p.score, questionsAnswered |-> p.questionsAnswered,
                answersGiven |-> p.answersGiven]
    BY DEF PlayerRecord
  <2>3. PICK e \in Entry : e = [question |-> q, answer |-> a]
    BY DEF Entry
  <2>4. /\ r.id = p.id /\ r.questionsAnswered = q + 1
        /\ r.answersGiven = Append(p.answersGiven, e)
        /\ r.score = IF right THEN p.score + POINTS_FOR_CORRECT_ANSWER ELSE p.score
        /\ r = [id |-> r.id, score |-> r.score, questionsAnswered |-> r.questionsAnswered,
                answersGiven |-> r.answersGiven]
    <3>1. PICK l : l = Append(p.answersGiven, e)
      OBVIOUS
    <3>2. WithEntry(p, q, a) = [p EXCEPT !.answersGiven = l]
      BY <2>3, <3>1 DEF WithEntry
    <3>3. PICK w : w = WithEntry(p, q, a)
      OBVIOUS
    <3>4. w = [id |-> p.id, score |-> p.score, questionsAnswered |-> p.questionsAnswered,
               answersGiven |-> l]
      BY <2>2, <3>2, <3>3
    <3>5. PICK c : c = WithCount(w, q)
      OBVIOUS
    <3>6. c = [id |-> p.id, score |-> p.score, questionsAnswered |-> q + 1,
               answersGiven |-> l]
      BY <3>4, <3>5 DEF WithCount
    <3>7. r = Paid(c, right)
      BY <2>1, <3>3, <3>5
    <3>8. r = IF right THEN [c EXCEPT !.score = c.score + POINTS_FOR_CORRECT_ANSWER] ELSE c
      BY <3>7 DEF Paid
    <3>9. r = [id |-> p.id,
               score |-> IF right THEN p.score + POINTS_FOR_CORRECT_ANSWER ELSE p.score,
               questionsAnswered |-> q + 1, answersGiven |-> l]
      <4>1. CASE right
        BY <3>6, <3>8, <4>1
      <4>2. CASE ~right
        BY <3>6, <3>8, <4>2
      <4> QED
        BY <4>1, <4>2
    <3> QED
      BY <3>1, <3>9
  <2>5. r.answersGiven \in Seq(Entry) /\ Len(r.answersGiven) = Len(p.answersGiven) + 1
    BY <2>2, <2>4, AppendProperties
  <2>6. r.score \in Nat
    BY <2>2, <2>4 DEF POINTS_FOR_CORRECT_ANSWER
  <2>7. r \in PlayerRecord
    BY <2>2, <2>4, <2>5, <2>6 DEF PlayerRecord
  <2>8. r # p
    <3>1. Len(p.answersGiven) \in Nat
      BY <2>2
    <3> QED
      BY <2>5, <3>1
  <2> QED
    BY <2>3, <2>4, <2>7, <2>8
<1> QED
  BY <1>1, <1>2

LEMMA PayInvInit == Init => PayInv
<1> SUFFICES ASSUME Init PROVE PayInv
  OBVIOUS
<1>1. /\ response \in SiteSends /\ state = "NULL" /\ players = << >> /\ answers = << >>
      /\ statuses = << >> /\ recorded = << >> /\ answering = NoAnswer /\ ~connected
      /\ page.question = 0 /\ questions = << >>
  BY DEF Init
<1>2. Len(answers) = 0 /\ Len(statuses) = 0 /\ Len(recorded) = 0
      /\ \E S : answers \in Seq(S) /\ recorded \in Seq(S)
  BY <1>1
<1>3. GameOK
  BY <1>1 DEF GameOK
<1>4. ShownOK
  BY <1>1, <1>2 DEF ShownOK
<1>5. MeantOK
  BY <1>1, <1>2 DEF MeantOK
<1> QED
  BY <1>1, <1>3, <1>4, <1>5, Initially DEF PayInv, PaidOK

\* From CREATED on there is a finite list of questions.
LEMMA QuestionsCounted ==
  ASSUME PayInv, state # "NULL"
  PROVE  /\ Len(questions) \in Nat
         /\ response \in Responses /\ questions \in CollectQuestions(response)
<1>1. response \in Responses /\ questions \in CollectQuestions(response)
  BY SiteAssumption DEF PayInv, GameOK
<1>2. response.results \in Seq(Result) /\ Len(response.results) \in Nat
  BY <1>1 DEF Responses
<1> QED
  BY <1>1, <1>2, Collected

\* Before that nothing that the page shows, that is on its way to it or that it
\* has sent is about a question.
LEMMA NothingAsked ==
  ASSUME PayInv, state = "NULL"
  PROVE  /\ page.question = 0
         /\ \A j \in 1..Len(statuses) : ~Asks(j)
         /\ \A j \in 1..Len(answers) : answers[j].question = 0
         /\ recorded = << >> /\ answering = NoAnswer
<1>1. questions = << >> /\ Len(questions) = 0 /\ recorded = << >> /\ answering = NoAnswer
  BY DEF PayInv, GameOK
<1>2. page.question = 0
  BY <1>1 DEF PayInv, IInv, Types, ShownOK, OnQuestion
<1>3. \A j \in 1..Len(statuses) : ~Asks(j)
  BY <1>1 DEF PayInv, IInv, Types, ShownOK, OnQuestion
<1>4. \A j \in 1..Len(answers) : answers[j].question = 0
  BY <1>1 DEF PayInv, MeantOK, Meant
<1> QED
  BY <1>1, <1>2, <1>3, <1>4

\* The questions come once, and for good.
LEMMA SameQuestions ==
  ASSUME PayInv, [Next]_vars
  PROVE  response' = response /\ (questions' = questions \/ GetQuestions)
<1>1. CASE GetQuestions
  BY <1>1 DEF GetQuestions, ChangeState
<1>2. CASE OpenRound \/ CloseRound \/ EndPause \/ FinishGame
  BY <1>2 DEF OpenRound, CloseRound, EndPause, FinishGame, ChangeState
<1>3. ASSUME NEW i \in PlayerIds, EnterRoom(i) PROVE response' = response /\ questions' = questions
  BY <1>3 DEF EnterRoom, gameVars
<1>4. ASSUME NEW a \in Answers, GiveAnswer(a) PROVE response' = response /\ questions' = questions
  BY <1>4 DEF GiveAnswer, gameVars
<1>5. CASE ReadBeyondTheEnd \/ TakeForm \/ SomebodyJoins \/ TakeAnswer \/ RecordAnswer
           \/ HandleStatus \/ Disconnect \/ SendForm \/ FormFails \/ UNCHANGED vars
  BY <1>5 DEF ReadBeyondTheEnd, TakeForm, SomebodyJoins, TakeAnswer, RecordAnswer,
              HandleStatus, Disconnect, SendForm, FormFails, vars, gameVars
<1> QED
  BY <1>1, <1>2, <1>3, <1>4, <1>5 DEF Next

LEMMA GameStep ==
  ASSUME PayInv, [Next]_vars
  PROVE  GameOK'
<1> USE DEF PayInv, GameOK
<1>0. answering # NoAnswer => state \in {"PLAYING", "PAUSED"}
  BY DEF MeantOK
<1>1. ASSUME NEW s, ChangeState(s), s # "NULL", questions' \in CollectQuestions(response),
             s \in {"PLAYING", "PAUSED"} => currQuestion' < Len(questions')
      PROVE  GameOK'
  BY <1>1 DEF ChangeState, Push
<1>2. CASE GetQuestions
  BY <1>1, <1>2 DEF GetQuestions
<1>3. CASE OpenRound \/ CloseRound \/ EndPause \/ FinishGame
  <2>1. state # "NULL" /\ questions' = questions
    BY <1>3 DEF OpenRound, CloseRound, EndPause, FinishGame
  <2> QED
    BY <1>1, <1>3, <2>1 DEF OpenRound, CloseRound, EndPause, FinishGame
<1>4. CASE SomebodyJoins
  BY <1>4 DEF SomebodyJoins, Push, gameVars
<1>5. ASSUME NEW i \in PlayerIds, EnterRoom(i) PROVE GameOK'
  <2>1. /\ players' = <<NewPlayer(i)>>
        /\ UNCHANGED <<response, state, questions, currQuestion, recorded, answering>>
    BY <1>5 DEF EnterRoom, gameVars
  <2>2. NewPlayer(i) \in PlayerRecord
    <3>1. << >> \in Seq(Entry)
      BY EmptySeq
    <3> QED
      BY <3>1 DEF NewPlayer, PlayerRecord
  <2>3. players' # << >>
    BY <2>1
  <2> QED
    BY <2>1, <2>2, <2>3
<1>6. CASE TakeAnswer
  <2>1. players # << >> /\ (state = "NULL" => answering' = NoAnswer)
    BY <1>6 DEF TakeAnswer
  <2> QED
    BY <1>6, <2>1 DEF TakeAnswer, gameVars
<1>7. CASE RecordAnswer
  <2>1. /\ players # << >> /\ Meant(answering) /\ currQuestion \in Nat /\ state # "NULL"
        /\ UNCHANGED <<response, state, questions, currQuestion>>
    BY <1>7 DEF RecordAnswer, MeantOK, IInv, Types, gameVars
  <2>2. PICK p \in PlayerRecord : players = <<p>>
    BY <2>1
  <2>3. PICK r : players' = <<r>> /\ \E right : r = GaveAnswer(p, currQuestion, answering.answer, right)
    BY <1>7, <2>2 DEF RecordAnswer
  <2>4. r \in PlayerRecord /\ players' # << >>
    BY <2>1, <2>3, Counted DEF Meant
  <2> QED
    BY <2>1, <2>3, <2>4
<1>8. CASE HandleStatus
  <2>1. players # << >>
    BY <1>8 DEF HandleStatus
  <2> QED
    BY <1>8, <2>1 DEF HandleStatus, gameVars
<1>9. ASSUME NEW a \in Answers, GiveAnswer(a) PROVE GameOK'
  <2>1. players # << >>
    BY <1>9 DEF GiveAnswer
  <2> QED
    BY <1>9, <2>1 DEF GiveAnswer, gameVars
<1>10. CASE ReadBeyondTheEnd \/ TakeForm \/ Disconnect \/ UNCHANGED vars
  BY <1>10 DEF ReadBeyondTheEnd, TakeForm, Disconnect, vars, gameVars, linkVars
<1>11. CASE SendForm \/ FormFails
  <2>1. page'.question = page.question
    BY <1>11, FormStep
  <2>2. UNCHANGED <<response, state, currQuestion, questions, players, answering,
                    statuses, answers, connected, recorded>>
    BY <1>11, FormStep
  <2> QED
    BY <2>1, <2>2
<1> QED
  BY <1>2, <1>3, <1>4, <1>5, <1>6, <1>7, <1>8, <1>9, <1>10, <1>11 DEF Next

LEMMA ShownStep ==
  ASSUME PayInv, [Next]_vars
  PROVE  ShownOK'
<1>0. CASE GetQuestions
  <2>1. /\ state = "NULL" /\ page' = page /\ Push("CREATED", players)
    BY <1>0 DEF GetQuestions, ChangeState
  <2>2. page'.question = 0 /\ \A j \in 1..Len(statuses) : statuses[j].state # "PLAYING"
    BY <2>1, NothingAsked DEF Asks
  <2>5. PICK S : statuses \in Seq(S)
    BY DEF PayInv, IInv, Types
  <2>3. PICK n \in Nat : n = Len(statuses)
    BY <2>5
  <2>4. \A j \in 1..Len(statuses') : statuses'[j].state # "PLAYING"
    <3>1. CASE statuses' = statuses
      BY <2>2, <3>1
    <3>2. CASE statuses' = Append(statuses, StatusOf("CREATED", players))
      <4>1. PICK st : st = StatusOf("CREATED", players) /\ st.state = "CREATED"
        <5>1. StatusOf("CREATED", players).state = "CREATED"
          BY DEF StatusOf
        <5> QED
          BY <5>1
      <4>2. /\ Len(statuses') = n + 1 /\ statuses'[n + 1] = st
            /\ \A j \in 1..n : statuses'[j] = statuses[j]
        BY <2>3, <2>5, <3>2, <4>1
      <4>3. \A j \in 1..n + 1 : j \in 1..n \/ j = n + 1
        OBVIOUS
      <4> QED
        BY <2>2, <2>3, <4>1, <4>2, <4>3
    <3> QED
      BY <2>1, <3>1, <3>2 DEF Push
  <2> QED
    BY <2>2, <2>4 DEF ShownOK, Asks
<1>1. SUFFICES ASSUME questions' = questions PROVE ShownOK'
  BY <1>0, SameQuestions
<1>2. PICK S : statuses \in Seq(S)
  BY DEF PayInv, IInv, Types
<1>3. PICK n \in Nat : n = Len(statuses)
  BY <1>2
<1>4. ASSUME NEW q, NEW texts PROVE OnQuestion(q, texts)' <=> OnQuestion(q, texts)
  BY <1>1 DEF OnQuestion
<1>5. ASSUME statuses' = statuses, page'.question = page.question, page'.answers = page.answers
      PROVE  ShownOK'
  BY <1>1, <1>5 DEF PayInv, ShownOK, OnQuestion, Asks
<1>6. ASSUME NEW s, NEW ps, Push(s, ps), page' = page,
             s = "PLAYING" => state # "NULL" /\ currQuestion < Len(questions)
      PROVE  ShownOK'
  <2>1. CASE statuses' = statuses
    BY <1>5, <1>6, <2>1
  <2>2. CASE statuses' = Append(statuses, StatusOf(s, ps))
    <3>1. PICK st : /\ st = StatusOf(s, ps) /\ st.state = s /\ st.question = currQuestion
                    /\ s = "PLAYING" => st.answers = questions[currQuestion + 1].answers
      <4>1. /\ StatusOf(s, ps).state = s /\ StatusOf(s, ps).question = currQuestion
            /\ s = "PLAYING" =>
                 StatusOf(s, ps).answers = questions[currQuestion + 1].answers
        BY DEF StatusOf
      <4> QED
        BY <4>1
    <3>2. /\ Len(statuses') = n + 1 /\ statuses'[n + 1] = st
          /\ \A j \in 1..n : statuses'[j] = statuses[j]
      BY <1>2, <1>3, <2>2, <3>1
    <3>3. st.state = "PLAYING" => OnQuestion(st.question + 1, st.answers)
      <4>1. s = "PLAYING" => currQuestion \in Nat /\ Len(questions) \in Nat
        BY <1>6, QuestionsCounted DEF PayInv, IInv, Types
      <4> QED
        BY <1>6, <3>1, <4>1 DEF OnQuestion
    <3>4. \A j \in 1..n + 1 : j \in 1..n \/ j = n + 1
      OBVIOUS
    <3>5. \A j \in 1..n : statuses[j].state = "PLAYING" =>
            OnQuestion(statuses[j].question + 1, statuses[j].answers)
      BY <1>3 DEF PayInv, ShownOK, Asks
    <3>6. \A j \in 1..n + 1 : statuses'[j].state = "PLAYING" =>
            OnQuestion(statuses'[j].question + 1, statuses'[j].answers)
      BY <3>2, <3>3, <3>4, <3>5
    <3>7. page'.question > 0 => OnQuestion(page'.question, page'.answers)
      BY <1>6 DEF PayInv, ShownOK
    <3> QED
      BY <1>4, <3>2, <3>6, <3>7 DEF ShownOK, Asks
  <2> QED
    BY <1>6, <2>1, <2>2 DEF Push
<1>7. ASSUME NEW s, ChangeState(s),
             s = "PLAYING" => state # "NULL" /\ currQuestion < Len(questions)
      PROVE  ShownOK'
  BY <1>6, <1>7 DEF ChangeState
<1>8. CASE OpenRound \/ CloseRound \/ EndPause \/ FinishGame
  BY <1>7, <1>8 DEF OpenRound, CloseRound, EndPause, FinishGame
<1>9. CASE SomebodyJoins
  <2>1. state = "PLAYING" => currQuestion < Len(questions)
    BY DEF PayInv, GameOK
  <2> QED
    BY <1>6, <1>9, <2>1 DEF SomebodyJoins
<1>10. ASSUME NEW i \in PlayerIds, EnterRoom(i) PROVE ShownOK'
  <2>1. players = << >> /\ statuses' = <<StatusOf(state, players')>> /\ page' = page
    BY <1>10 DEF EnterRoom
  <2>2. statuses = << >> /\ page.question = 0
    BY <2>1 DEF PayInv, GameOK
  <2>3. PICK st : /\ statuses' = <<st>> /\ st.state = state /\ st.question = currQuestion
                  /\ state = "PLAYING" => st.answers = questions[currQuestion + 1].answers
    <3>1. /\ StatusOf(state, players').state = state
          /\ StatusOf(state, players').question = currQuestion
          /\ state = "PLAYING" =>
               StatusOf(state, players').answers = questions[currQuestion + 1].answers
      BY DEF StatusOf
    <3> QED
      BY <2>1, <3>1
  <2>4. state = "PLAYING" => currQuestion + 1 <= Len(questions)
    <3>1. state = "PLAYING" => currQuestion < Len(questions) /\ currQuestion \in Nat
      BY DEF PayInv, GameOK, IInv, Types
    <3>2. state = "PLAYING" => Len(questions) \in Nat
      BY QuestionsCounted
    <3> QED
      BY <3>1, <3>2
  <2>5. Len(statuses') = 1 /\ statuses'[1] = st
    BY <2>3
  <2> QED
    BY <1>1, <2>1, <2>2, <2>3, <2>4, <2>5 DEF ShownOK, OnQuestion, Asks
<1>11. CASE HandleStatus
  <2>1. PICK st : st = statuses[1] /\ Head(statuses) = st /\ n > 0
    <3>1. Head(statuses) = statuses[1] /\ n > 0
      BY <1>2, <1>3, <1>11 DEF HandleStatus
    <3> QED
      BY <3>1
  <2>2. /\ Len(statuses') = n - 1
        /\ \A j \in 1..n - 1 : statuses'[j] = statuses[j + 1]
    BY <1>2, <1>3, <1>11 DEF HandleStatus
  <2>3. page' = IF Shown(st)
                  THEN [question |-> st.question + 1, visible |-> TRUE,
                        answerGiven |-> FALSE, answers |-> st.answers,
                        score |-> NewScore(st)]
                  ELSE [page EXCEPT
                          !.score = NewScore(st),
                          !.visible = @ /\ ~(st.state = "PLAYING" /\ page.answerGiven)]
    BY <1>11, <2>1, Zenon DEF HandleStatus
  <2>4. \/ /\ Shown(st) /\ page'.question = st.question + 1
           /\ page'.answers = st.answers
        \/ page'.question = page.question /\ page'.answers = page.answers
    <3>1. CASE Shown(st)
      BY <2>3, <3>1
    <3>2. CASE ~Shown(st)
      BY <2>3, <3>2 DEF PayInv, IInv, Types
    <3> QED
      BY <3>1, <3>2
  <2>5. Shown(st) => OnQuestion(st.question + 1, st.answers)
    <3>1. 1 \in 1..Len(statuses)
      BY <1>3, <2>1
    <3> QED
      BY <2>1, <3>1 DEF PayInv, ShownOK, Asks, Shown
  <2>6. page'.question > 0 => OnQuestion(page'.question, page'.answers)
    BY <2>4, <2>5 DEF PayInv, ShownOK
  <2>7. \A j \in 1..n - 1 : statuses'[j].state = "PLAYING" =>
          OnQuestion(statuses'[j].question + 1, statuses'[j].answers)
    <3> SUFFICES ASSUME NEW j \in 1..n - 1, statuses'[j].state = "PLAYING"
                 PROVE  OnQuestion(statuses'[j].question + 1, statuses'[j].answers)
      OBVIOUS
    <3>1. j + 1 \in 1..Len(statuses) /\ statuses'[j] = statuses[j + 1]
      BY <1>3, <2>2
    <3> QED
      BY <3>1 DEF PayInv, ShownOK, Asks
  <2> QED
    BY <1>4, <2>2, <2>6, <2>7 DEF ShownOK, Asks
<1>12. ASSUME NEW a \in Answers, GiveAnswer(a) PROVE ShownOK'
  <2>1. /\ statuses' = statuses
        /\ page'.question = page.question /\ page'.answers = page.answers
    BY <1>12 DEF GiveAnswer, PayInv, IInv, Types
  <2> QED
    BY <1>5, <2>1
<1>13. CASE Disconnect
  <2>1. Len(statuses') = 0 /\ page' = page
    BY <1>13 DEF Disconnect
  <2> QED
    BY <1>1, <2>1 DEF PayInv, ShownOK, OnQuestion
<1>14. CASE ReadBeyondTheEnd \/ TakeForm \/ TakeAnswer \/ RecordAnswer \/ UNCHANGED vars
  BY <1>5, <1>14 DEF ReadBeyondTheEnd, TakeForm, TakeAnswer, RecordAnswer, vars, linkVars
<1>15. CASE SendForm \/ FormFails
  <2>1. page'.question = page.question /\ page'.answers = page.answers
    BY <1>15, FormStep DEF PayInv
  <2>2. statuses' = statuses
    BY <1>15, FormStep DEF PayInv
  <2> QED
    BY <1>5, <2>1, <2>2
<1> QED
  BY <1>0, <1>8, <1>9, <1>10, <1>11, <1>12, <1>13, <1>14, <1>15 DEF Next

LEMMA MeantStep ==
  ASSUME PayInv, [Next]_vars
  PROVE  MeantOK'
<1>0. CASE GetQuestions
  <2>1. /\ state = "NULL" /\ UNCHANGED <<answers, recorded, answering>>
    BY <1>0 DEF GetQuestions, ChangeState
  <2>2. /\ recorded' = << >> /\ Len(recorded') = 0 /\ answering' = NoAnswer
        /\ \A j \in 1..Len(answers') : answers'[j].question = 0
    BY <2>1, NothingAsked
  <2>3. \A j \in 1..Len(answers') : answers'[j].answer \in Answers
    BY <2>1 DEF PayInv, MeantOK, Meant
  <2>4. \A j \in 1..Len(answers') : Meant(answers[j])'
    BY <2>2, <2>3 DEF Meant
  <2>5. (\E S : answers' \in Seq(S)) /\ (\E T : recorded' \in Seq(T))
    BY <2>1 DEF PayInv, MeantOK
  <2> QED
    BY <2>2, <2>4, <2>5 DEF MeantOK
<1>1. SUFFICES ASSUME questions' = questions PROVE MeantOK'
  BY <1>0, SameQuestions
<1>2. ASSUME NEW a PROVE Meant(a)' <=> Meant(a)
  BY <1>1 DEF Meant
<1> DEFINE All(list) == \A j \in 1..Len(list) : Meant(list[j])
<1>3. PICK S, T : answers \in Seq(S) /\ recorded \in Seq(T)
  BY DEF PayInv, MeantOK
<1>4. /\ All(answers) /\ All(recorded)
      /\ answering # NoAnswer => Meant(answering) /\ state \in {"PLAYING", "PAUSED"}
  BY DEF PayInv, MeantOK
<1>5. ASSUME NEW list, NEW X, list \in Seq(X), All(list), NEW a, Meant(a)
      PROVE  (\E Y : Append(list, a) \in Seq(Y)) /\ All(Append(list, a))
  <2>1. PICK n \in Nat : n = Len(list)
    BY <1>5
  <2>2. /\ Append(list, a) \in Seq(X \cup {a}) /\ Len(Append(list, a)) = n + 1
        /\ \A j \in 1..n : Append(list, a)[j] = list[j]
        /\ Append(list, a)[n + 1] = a
    BY <1>5, <2>1
  <2>3. \A j \in 1..n + 1 : j \in 1..n \/ j = n + 1
    OBVIOUS
  <2> QED
    BY <1>5, <2>1, <2>2, <2>3
<1>6. ASSUME \E X : answers' \in Seq(X), All(answers'), \E X : recorded' \in Seq(X), All(recorded'),
             answering' # NoAnswer => Meant(answering') /\ state' \in {"PLAYING", "PAUSED"}
      PROVE  MeantOK'
  BY <1>2, <1>6 DEF MeantOK
<1> HIDE DEF All
<1>7. ASSUME UNCHANGED <<answers, recorded, answering>>,
             answering # NoAnswer => state' \in {"PLAYING", "PAUSED"}
      PROVE  MeantOK'
  BY <1>3, <1>4, <1>6, <1>7
<1>8. CASE OpenRound \/ CloseRound \/ EndPause \/ FinishGame
  BY <1>4, <1>7, <1>8
  DEF OpenRound, CloseRound, EndPause, FinishGame, ChangeState
<1>9. CASE ReadBeyondTheEnd \/ TakeForm \/ SomebodyJoins \/ HandleStatus \/ UNCHANGED vars
  BY <1>4, <1>7, <1>9 DEF ReadBeyondTheEnd, TakeForm, SomebodyJoins, HandleStatus, vars, gameVars, linkVars
<1>10. ASSUME NEW i \in PlayerIds, EnterRoom(i) PROVE MeantOK'
  BY <1>4, <1>7, <1>10 DEF EnterRoom, gameVars
<1>11. CASE TakeAnswer
  <2>1. /\ answers # << >> /\ answers' = Tail(answers) /\ recorded' = recorded /\ state' = state
        /\ answering' = IF state = "PLAYING" THEN Head(answers) ELSE NoAnswer
    BY <1>11 DEF TakeAnswer, gameVars
  <2>2. PICK n \in Nat : n = Len(answers) /\ n > 0
    BY <1>3, <2>1
  <2>3. /\ answers' \in Seq(S) /\ Len(answers') = n - 1
        /\ \A j \in 1..n - 1 : answers'[j] = answers[j + 1]
        /\ Head(answers) = answers[1]
    BY <1>3, <2>1, <2>2
  <2>4. Meant(Head(answers)) /\ All(answers')
    <3>1. Meant(answers[1])
      BY <1>4, <2>2 DEF All
    <3>2. ASSUME NEW j \in 1..n - 1 PROVE Meant(answers'[j])
      <4>1. j + 1 \in 1..Len(answers) /\ answers'[j] = answers[j + 1]
        BY <2>2, <2>3
      <4> QED
        BY <1>4, <4>1 DEF All
    <3> QED
      BY <2>3, <3>1, <3>2 DEF All
  <2> QED
    BY <1>3, <1>4, <1>6, <2>1, <2>3, <2>4
<1>12. CASE RecordAnswer
  <2>1. /\ answers' = answers /\ answering' = NoAnswer /\ Meant(answering)
        /\ recorded' \in {recorded, Append(recorded, answering)}
    BY <1>4, <1>12 DEF RecordAnswer, linkVars
  <2>2. (\E X : recorded' \in Seq(X)) /\ All(recorded')
    <3>1. CASE recorded' = recorded
      BY <1>3, <1>4, <3>1
    <3>2. CASE recorded' = Append(recorded, answering)
      BY <1>3, <1>4, <1>5, <2>1, <3>2
    <3> QED
      BY <2>1, <3>1, <3>2
  <2> QED
    BY <1>3, <1>4, <1>6, <2>1, <2>2
<1>13. ASSUME NEW a \in Answers, GiveAnswer(a) PROVE MeantOK'
  <2>1. PICK answer :
          /\ answers' = Append(answers, answer)
          /\ answer = [answer |-> a, question |-> page.question,
                       text |-> IF page.answers = << >> THEN NoAnswer
                                                        ELSE page.answers[a + 1]]
    BY <1>13, Zenon DEF GiveAnswer
  <2>2. UNCHANGED <<recorded, answering, state>> /\ connected
    BY <1>13 DEF GiveAnswer, gameVars
  <2>3. Meant(answer)
    <3>1. answer.answer = a /\ answer.question = page.question /\ page.question \in Nat
      BY <2>1 DEF PayInv, IInv, Types
    <3>2. ASSUME page.question > 0
          PROVE  /\ page.question <= Len(questions)
                 /\ answer.text = questions[page.question].answers[a + 1]
      <4>1. /\ page.question <= Len(questions)
            /\ page.answers = questions[page.question].answers
        BY <3>2 DEF PayInv, ShownOK, OnQuestion
      <4>2. state # "NULL"
        BY <3>2, NothingAsked
      <4>3. page.question \in 1..Len(questions)
        BY <3>1, <3>2, <4>1, <4>2, QuestionsCounted
      <4>4. page.answers \in [1..4 -> AnswerTexts]
        BY <4>1, <4>2, <4>3, QuestionsCounted, GameQuestions
      <4>5. page.answers # << >>
        <5>1. DOMAIN page.answers = 1..4 /\ 1 \in 1..4 /\ 1 \notin DOMAIN << >>
          BY <4>4
        <5> QED
          BY <5>1
      <4> QED
        BY <2>1, <4>1, <4>5
    <3> QED
      BY <3>1, <3>2 DEF Meant
  <2>4. (\E X : answers' \in Seq(X)) /\ All(answers')
    BY <1>3, <1>4, <1>5, <2>1, <2>3
  <2> QED
    BY <1>3, <1>4, <1>6, <2>2, <2>4
<1>14. CASE Disconnect
  <2>1. /\ answers' = << >> /\ Len(answers') = 0 /\ answers' \in Seq(S)
        /\ UNCHANGED <<recorded, answering, state>>
    BY <1>14, EmptySeq DEF Disconnect, gameVars
  <2>2. All(answers')
    BY <2>1 DEF All
  <2> QED
    BY <1>3, <1>4, <1>6, <2>1, <2>2
<1>15. CASE SendForm \/ FormFails
  <2>1. UNCHANGED <<answers, recorded, answering, state>>
    BY <1>15, FormStep DEF PayInv
  <2> QED
    BY <1>4, <1>7, <2>1
<1> QED
  BY <1>0, <1>8, <1>9, <1>10, <1>11, <1>12, <1>13, <1>14, <1>15 DEF Next

LEMMA PaidStep ==
  ASSUME PayInv, [Next]_vars
  PROVE  PaidOK'
<1>0. CASE GetQuestions
  <2>1. state = "NULL" /\ UNCHANGED <<players, recorded>>
    BY <1>0 DEF GetQuestions, ChangeState
  <2>2. recorded = << >> /\ Len(recorded) = 0
    BY <2>1, NothingAsked
  <2> SUFFICES ASSUME players # << >> PROVE PaidOK'
    BY <2>1 DEF PaidOK
  <2>3. PICK p \in PlayerRecord : players = <<p>> /\ players[1] = p
    BY DEF PayInv, GameOK
  <2>4. p.answersGiven = << >>
    <3>1. p.answersGiven \in Seq(Entry) /\ Len(p.answersGiven) = 0
      BY <2>2, <2>3 DEF PayInv, PaidOK, PlayerRecord
    <3> QED
      BY <3>1, EmptySeq
  <2>5. Earned = {} /\ Earned' = {}
    BY <2>1, <2>3, <2>4 DEF Earned
  <2> QED
    BY <2>1, <2>2, <2>5 DEF PayInv, PaidOK
<1>1. SUFFICES ASSUME questions' = questions PROVE PaidOK'
  BY <1>0, SameQuestions
<1>2. ASSUME UNCHANGED <<players, recorded>> PROVE PaidOK'
  <2>1. Earned' = Earned
    BY <1>1, <1>2 DEF Earned, Judged
  <2> QED
    BY <1>2, <2>1 DEF PayInv, PaidOK
<1>3. CASE OpenRound \/ CloseRound \/ EndPause \/ FinishGame
  BY <1>2, <1>3 DEF OpenRound, CloseRound, EndPause, FinishGame, ChangeState
<1>4. CASE ReadBeyondTheEnd \/ TakeForm \/ SomebodyJoins \/ TakeAnswer \/ HandleStatus \/ Disconnect
           \/ SendForm \/ FormFails \/ UNCHANGED vars
  BY <1>2, <1>4 DEF ReadBeyondTheEnd, TakeForm, SomebodyJoins, TakeAnswer, HandleStatus, Disconnect,
                    SendForm, FormFails, vars
<1>5. ASSUME NEW a \in Answers, GiveAnswer(a) PROVE PaidOK'
  BY <1>2, <1>5 DEF GiveAnswer
<1>6. ASSUME NEW i \in PlayerIds, EnterRoom(i) PROVE PaidOK'
  <2>1. players = << >> /\ players' = <<NewPlayer(i)>> /\ recorded' = recorded
    BY <1>6 DEF EnterRoom
  <2>2. recorded = << >>
    BY <2>1 DEF PayInv, GameOK
  <2>3. /\ players'[1].answersGiven = << >> /\ players'[1].score = 0
        /\ Len(recorded') = 0 /\ Len(<< >>) = 0
    BY <2>1, <2>2 DEF NewPlayer
  <2>4. Earned' = {}
    BY <2>3 DEF Earned
  <2>5. Cardinality(Earned') = 0
    BY <2>4, FS_EmptySet
  <2> QED
    BY <2>3, <2>5 DEF PaidOK, POINTS_FOR_CORRECT_ANSWER
<1>7. CASE RecordAnswer
  <2> DEFINE index == answering.answer
  <2> DEFINE right == questions[currQuestion + 1].correctAnswerIndex = index
  <2>1. /\ answering # NoAnswer
        /\ players' = <<GaveAnswer(players[1], currQuestion, index, right)>>
        /\ recorded' = IF GaveAnswer(players[1], currQuestion, index, right) = players[1]
                         THEN recorded ELSE Append(recorded, answering)
    BY <1>7 DEF RecordAnswer
  <2>2. players # << >> /\ Meant(answering) /\ currQuestion \in Nat
    BY <2>1 DEF PayInv, GameOK, MeantOK, IInv, Types
  <2>3. PICK p \in PlayerRecord : players = <<p>> /\ players[1] = p
    BY <2>2 DEF PayInv, GameOK
  <2>4. PICK r : r = GaveAnswer(p, currQuestion, index, right)
    OBVIOUS
  <2>5. players' = <<r>> /\ players'[1] = r
        /\ recorded' = IF r = p THEN recorded ELSE Append(recorded, answering)
    BY <2>1, <2>3, <2>4
  <2>6. CASE r = p
    BY <1>2, <2>3, <2>5, <2>6
  <2>7. CASE r # p
    <3>1. PICK e : e = [question |-> currQuestion, answer |-> index]
      OBVIOUS
    <3>2. /\ r \in PlayerRecord /\ r.answersGiven = Append(p.answersGiven, e)
          /\ r.score = IF right THEN p.score + POINTS_FOR_CORRECT_ANSWER ELSE p.score
      <4>1. index \in Answers
        BY <2>2 DEF Meant
      <4> HIDE DEF index, right
      <4> QED
        BY <2>2, <2>4, <2>7, <3>1, <4>1, Counted
    <3>3. /\ p.answersGiven \in Seq(Entry) /\ p.score \in Nat /\ e \in Entry
      BY <2>2, <3>1 DEF PlayerRecord, Entry, Meant
    <3>4. PICK n \in Nat : n = Len(p.answersGiven)
      BY <3>3
    <3>5. /\ DOMAIN p.answersGiven = 1..n
          /\ Len(r.answersGiven) = n + 1 /\ DOMAIN r.answersGiven = 1..n + 1
          /\ \A k \in 1..n : r.answersGiven[k] = p.answersGiven[k]
          /\ r.answersGiven[n + 1] = e
      BY <3>2, <3>3, <3>4, AppendProperties
    <3>6. PICK T : recorded \in Seq(T)
      BY DEF PayInv, MeantOK
    <3>7. /\ Len(recorded) = n
          /\ \A k \in 1..n : p.answersGiven[k].answer = recorded[k].answer
          /\ p.score = POINTS_FOR_CORRECT_ANSWER * Cardinality(Earned)
      BY <2>2, <2>3, <3>4 DEF PayInv, PaidOK
    <3>8. /\ Len(recorded') = n + 1 /\ recorded'[n + 1] = answering
          /\ \A k \in 1..n : recorded'[k] = recorded[k]
      BY <2>5, <2>7, <3>6, <3>7
    <3>9. \A k \in 1..n + 1 : k \in 1..n \/ k = n + 1
      OBVIOUS
    <3>10. \A k \in 1..Len(recorded') :
             players'[1].answersGiven[k].answer = recorded'[k].answer
      BY <2>5, <3>1, <3>5, <3>7, <3>8, <3>9
    <3>11. IsFiniteSet(Earned) /\ Earned \subseteq 1..n /\ n + 1 \notin Earned
      <4>1. Earned \subseteq 1..n
        BY <2>3, <3>5 DEF Earned
      <4>2. Earned \in SUBSET (1..n) /\ IsFiniteSet(1..n)
        BY <4>1, FS_Interval
      <4>3. IsFiniteSet(Earned)
        BY <4>2, FS_Subset
      <4> QED
        BY <4>1, <4>3
    <3>12. Earned' = IF right THEN Earned \cup {n + 1} ELSE Earned
      <4>1. \A k \in 1..n : Judged(k)' <=> Judged(k)
        BY <1>1, <2>3, <2>5, <3>5 DEF Judged
      <4>2. Judged(n + 1)' <=> right
        BY <1>1, <2>5, <3>1, <3>5 DEF Judged
      <4>3. Earned' = {k \in 1..n + 1 : Judged(k)'}
        BY <2>5, <3>5 DEF Earned
      <4>4. Earned = {k \in 1..n : Judged(k)}
        BY <2>3, <3>5 DEF Earned
      <4> HIDE DEF right
      <4> QED
        BY <3>9, <4>1, <4>2, <4>3, <4>4
    <3>13. /\ Cardinality(Earned) \in Nat
           /\ Cardinality(Earned') = IF right THEN Cardinality(Earned) + 1 ELSE Cardinality(Earned)
      BY <3>11, <3>12, FS_CardinalityType, FS_AddElement
    <3>14. r.score = POINTS_FOR_CORRECT_ANSWER * Cardinality(Earned')
      <4> HIDE DEF right
      <4> QED
        BY <3>2, <3>7, <3>13 DEF POINTS_FOR_CORRECT_ANSWER
    <3> QED
      BY <2>5, <3>5, <3>8, <3>10, <3>14 DEF PaidOK
  <2> QED
    BY <2>6, <2>7
<1> QED
  BY <1>0, <1>3, <1>4, <1>5, <1>6, <1>7 DEF Next

\* Points are for clicking the right text (RightTextPays): wherever the shuffle has
\* put it, for every response of the site and however many answers come too late,
\* an answer that counts in its own round is paid for just if its button said what
\* the site calls correct.
THEOREM PaidForTheRightText ==
  Spec => []RightTextPays
<1>1. PayInv /\ [Next]_vars => PayInv'
  BY Step, GameStep, ShownStep, MeantStep, PaidStep DEF PayInv
<1>2. ASSUME PayInv, players # << >>
      PROVE  /\ players[1].score = POINTS_FOR_CORRECT_ANSWER * Cardinality(Earned)
             /\ \A k \in DOMAIN players[1].answersGiven :
                  InTime(k) /\ Unambiguous(recorded[k].question) =>
                    (Judged(k) <=> recorded[k].text =
                                     response.results[recorded[k].question].correct)
  <2>1. players[1].score = POINTS_FOR_CORRECT_ANSWER * Cardinality(Earned)
    BY <1>2 DEF PayInv, PaidOK
  <2>2. PICK p \in PlayerRecord : players[1] = p
    BY <1>2 DEF PayInv, GameOK
  <2> SUFFICES ASSUME NEW k \in DOMAIN p.answersGiven,
                      NEW q, q = recorded[k].question, InTime(k), Unambiguous(q)
               PROVE  Judged(k) <=> recorded[k].text = response.results[q].correct
    BY <2>1, <2>2
  <2>3. PICK g : g = p.answersGiven[k]
    OBVIOUS
  <2>4. g \in Entry /\ k \in 1..Len(recorded) /\ g.answer = recorded[k].answer
    <3>1. p.answersGiven \in Seq(Entry)
      BY DEF PlayerRecord
    <3>2. /\ Len(recorded) = Len(p.answersGiven)
          /\ \A j \in 1..Len(recorded) : p.answersGiven[j].answer = recorded[j].answer
      BY <1>2, <2>2 DEF PayInv, PaidOK
    <3> QED
      BY <2>3, <3>1, <3>2
  <2>5. q = g.question + 1 /\ g.question \in Nat /\ g.answer \in 0..3
    BY <2>2, <2>3, <2>4, FourAnswers DEF InTime, Entry
  <2>6. /\ q <= Len(questions)
        /\ recorded[k].text = questions[q].answers[g.answer + 1]
    <3>1. Meant(recorded[k])
      BY <1>2, <2>4 DEF PayInv, MeantOK
    <3>2. q > 0
      BY <2>5
    <3> QED
      BY <2>4, <3>1, <3>2 DEF Meant
  <2>7. state # "NULL"
    <3>1. Len(<< >>) = 0
      OBVIOUS
    <3> QED
      BY <1>2, <2>4, <3>1, NothingAsked
  <2>8. q \in 1..Len(questions)
    BY <1>2, <2>5, <2>6, <2>7, QuestionsCounted
  <2>9. PICK index, texts, correct :
          /\ index = questions[q].correctAnswerIndex /\ texts = questions[q].answers
          /\ correct = response.results[q].correct
    OBVIOUS
  <2>14. correct \in AnswerTexts
    <3>1. texts \in [1..4 -> AnswerTexts]
      BY <1>2, <2>7, <2>8, <2>9, QuestionsCounted, GameQuestions
    <3>2. {j \in 1..4 : texts[j] = correct} # {}
      <4>1. Cardinality({j \in 1..4 : texts[j] = correct}) = 1
        BY <2>9 DEF Unambiguous
      <4> QED
        BY <4>1, FS_EmptySet
    <3> QED
      BY <3>1, <3>2
  <2>10. index \in 0..3 /\ texts[index + 1] = correct
    BY <1>2, <2>7, <2>8, <2>9, <2>14, QuestionsCounted, GameQuestions
  <2>11. PICK i : {j \in 1..4 : texts[j] = correct} = {i}
    <3>1. Cardinality({j \in 1..4 : texts[j] = correct}) = 1
      BY <2>9 DEF Unambiguous
    <3>2. IsFiniteSet({j \in 1..4 : texts[j] = correct})
      <4>1. {j \in 1..4 : texts[j] = correct} \in SUBSET (1..4)
        OBVIOUS
      <4>2. IsFiniteSet(1..4)
        BY 1 \in Int, 4 \in Int, FS_Interval
      <4> QED
        BY <4>1, <4>2, FS_Subset
    <3> QED
      BY <3>1, <3>2, FS_Singleton
  <2>12. texts[g.answer + 1] = correct <=> g.answer = index
    <3>1. index + 1 \in {j \in 1..4 : texts[j] = correct}
      BY <2>10
    <3>2. texts[g.answer + 1] = correct <=> g.answer + 1 \in {j \in 1..4 : texts[j] = correct}
      BY <2>5
    <3> QED
      BY <2>5, <2>10, <2>11, <3>1, <3>2
  <2>13. Judged(k) <=> g.answer = index
    BY <2>2, <2>3, <2>5, <2>9 DEF Judged
  <2> QED
    BY <2>6, <2>9, <2>12, <2>13
<1>3. PayInv => RightTextPays
  BY <1>2 DEF RightTextPays, Earned
<1> QED
  BY <1>1, <1>3, PayInvInit, PTL DEF Spec

===============================================================================
