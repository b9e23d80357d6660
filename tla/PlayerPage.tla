------------------------------- MODULE PlayerPage -------------------------------
(***************************************************************************)
(* A player's page (player.js) in play: the statuses on their way to it    *)
(* and the answers on their way back, each in order (WriteQueue, and the   *)
(* read loop of WebSocketSession), until the connection breaks.  An answer *)
(* does not say to which question it was given.                            *)
(*                                                                         *)
(* The game goes through its states by itself: a round may end because     *)
(* everybody has answered or because time is up, which Game has.  The      *)
(* questions are those that Questions makes of the response of the site.   *)
(* A status is read at once (Broadcast has the races), and NextRound,      *)
(* which no status of a round depends on, is a part of EndPause.  Once the *)
(* connection is gone the page answers with forms (HttpSession).           *)
(***************************************************************************)
EXTENDS Player, Questions

CONSTANTS
  SiteSends,   \* responses of the site
  MaxJoins,    \* bound on the number of other players who join
  MaxForms,    \* bound on the number of forms on their way
  NoAnswer     \* no answer is being handled, or no text to answer

ASSUME SiteAssumption == SiteSends \subseteq Responses
ASSUME MaxJoinsAssumption == MaxJoins \in Nat
ASSUME MaxFormsAssumption == MaxForms \in Nat
ASSUME FourAnswers == Answers = 0..3

VARIABLES
  response,       \* what the site has sent, chosen at the start
  state, currQuestion, questions,
  players,        \* this player, once in the game
  joins,          \* number of other players
  answering,      \* the answer that playerAnswered is about to record
  statuses,       \* on their way to the page
  answers,        \* on their way to the server
  connected,      \* the page's ws
  forms,          \* number of answers on their way as forms
  page,           \* what the page shows
  clicks,         \* history: the answers sent
  recorded,       \* history: those of answersGiven, as they were sent
  fault           \* the program has run into undefined behaviour, or an
                  \* exception that nobody catches has ended it

gameVars == <<state, currQuestion, questions>>
linkVars == <<statuses, answers, connected, forms>>
vars == <<response, gameVars, players, joins, answering, linkVars, page,
          clicks, recorded, fault>>

\* question counts from 1, as on the page; 0 is what the page says before the
\* first question, with four buttons already.
Page == [question : Nat, visible : BOOLEAN, answerGiven : BOOLEAN,
         answers : Seq(AnswerTexts), score : Nat]

Init ==
  /\ response \in SiteSends
  /\ state = "NULL"
  /\ currQuestion = 0
  /\ questions = << >>
  /\ players = << >>
  /\ joins = 0
  /\ answering = NoAnswer
  /\ statuses = << >>
  /\ answers = << >>
  /\ connected = FALSE
  /\ forms = 0
  /\ page = [question |-> 0, visible |-> TRUE, answerGiven |-> FALSE,
             answers |-> << >>, score |-> 0]
  /\ clicks = << >>
  /\ recorded = << >>
  /\ fault = FALSE

(* Faulty variants of definitions below, to check that the properties notice *)
(* them.                                                                     *)

\* every status of a running round shows the question
Shown_Always(status) == status.state = "PLAYING"

\* only the status of a running round is looked at
NewScore_Playing(status) ==
  IF status.state = "PLAYING" THEN status.score ELSE page.score

-------------------------------------------------------------------------------
(* The server's side. *)

\* getPlayerStatusJSONString.
StatusOf(s, ps) ==
  [state |-> s,
   question |-> currQuestion,
   score |-> ps[1].score,
   answers |-> IF s = "PLAYING" THEN questions[currQuestion + 1].answers
                                ELSE << >>]

\* What a state change or a join sends to the page.
Push(s, ps) ==
  statuses' = IF connected /\ ps # << >> THEN Append(statuses, StatusOf(s, ps))
                                         ELSE statuses

ChangeState(new) ==
  /\ state' = new
  /\ Push(new, players)
  /\ UNCHANGED <<response, players, joins, answering, answers,
                 connected, forms, page, clicks, recorded, fault>>

\* Game::getQuestions.
GetQuestions ==
  /\ state = "NULL"
  /\ questions = << >>
  /\ questions' \in CollectQuestions(response)
  /\ questions' # << >>
  /\ UNCHANGED currQuestion
  /\ ChangeState("CREATED")

ReadBeyondTheEnd ==
  /\ state = "NULL"
  /\ MayCrash(response)
  /\ fault' = TRUE
  /\ UNCHANGED <<response, gameVars, players, joins, answering, linkVars, page,
                 clicks, recorded>>

\* Game::playGame.
OpenRound ==
  /\ state \in {"CREATED", "PREPARE"}
  /\ currQuestion < Len(questions)
  /\ UNCHANGED <<currQuestion, questions>>
  /\ ChangeState("PLAYING")

CloseRound ==
  /\ state = "PLAYING"
  /\ UNCHANGED <<currQuestion, questions>>
  /\ ChangeState("PAUSED")

\* The pause of 5 s outlasts playerAnswered.
EndPause ==
  /\ state = "PAUSED"
  /\ answering = NoAnswer
  /\ currQuestion' = currQuestion + 1
  /\ UNCHANGED questions
  /\ ChangeState("PREPARE")

FinishGame ==
  /\ state \in {"CREATED", "PREPARE"}
  /\ currQuestion >= Len(questions)
  /\ UNCHANGED <<currQuestion, questions>>
  /\ ChangeState("FINISHED")

\* The page opens its WebSocket and sends gameInit; the answer is a status.
\* playerEntered asks for nothing but the room, so players may come before the
\* questions.
EnterRoom(i) ==
  /\ players = << >>
  /\ players' = <<NewPlayer(i)>>
  /\ connected' = TRUE
  /\ statuses' = <<StatusOf(state, players')>>
  /\ UNCHANGED <<response, gameVars, joins, answering, answers, forms, page,
                 clicks, recorded, fault>>

\* Game::addPlayer for somebody else: everybody is sent a status, in whatever
\* state the game is.
SomebodyJoins ==
  /\ joins < MaxJoins
  /\ joins' = joins + 1
  /\ Push(state, players)
  /\ UNCHANGED <<response, gameVars, players, answering, answers, connected,
                 forms, page, clicks, recorded, fault>>

\* Game::playerAnswered: the test of the state, then gaveAnswer with the
\* question that is current by then.
TakeAnswer ==
  /\ answers # << >>
  /\ answering = NoAnswer
  /\ answers' = Tail(answers)
  /\ answering' = IF state = "PLAYING" THEN Head(answers) ELSE NoAnswer
  /\ UNCHANGED <<response, gameVars, players, joins, statuses, connected, forms,
                 page, clicks, recorded, fault>>

RecordAnswer ==
  /\ answering # NoAnswer
  /\ LET index == answering.answer
         right == questions[currQuestion + 1].correctAnswerIndex = index
         player == GaveAnswer(players[1], currQuestion, index, right)
     IN /\ players' = <<player>>
        /\ recorded' = IF player = players[1] THEN recorded
                                              ELSE Append(recorded, answering)
  /\ answering' = NoAnswer
  /\ UNCHANGED <<response, gameVars, joins, linkVars, page, clicks, fault>>

-------------------------------------------------------------------------------
(* The page. *)

\* Does handlePlayerStatus put the question of this status on the page?
Shown(status) ==
  /\ status.state = "PLAYING"
  /\ status.question + 1 # page.question

NewScore(status) == status.score

HandleStatus ==
  /\ statuses # << >>
  /\ statuses' = Tail(statuses)
  /\ LET status == Head(statuses) IN
     page' =
       IF Shown(status)
         THEN [question |-> status.question + 1, visible |-> TRUE,
               answerGiven |-> FALSE, answers |-> status.answers,
               score |-> NewScore(status)]
         ELSE [page EXCEPT
                 !.score = NewScore(status),
                 !.visible = @ /\ ~(status.state = "PLAYING" /\ page.answerGiven)]
  /\ UNCHANGED <<response, gameVars, players, joins, answering, answers,
                 connected, forms, clicks, recorded, fault>>

\* A button of the page: the answer goes out with its index only.  question
\* and text are what the player has meant.
GiveAnswer(a) ==
  /\ connected
  /\ page.visible
  /\ LET answer == [answer |-> a, question |-> page.question,
                    text |-> IF page.answers = << >> THEN NoAnswer
                                                     ELSE page.answers[a + 1]]
     IN /\ answers' = Append(answers, answer)
        /\ clicks' = Append(clicks, answer)
  /\ page' = [page EXCEPT !.answerGiven = TRUE, !.visible = FALSE]
  /\ UNCHANGED <<response, gameVars, players, joins, answering, statuses,
                 connected, forms, recorded, fault>>

\* What is on its way is lost.
Disconnect ==
  /\ connected
  /\ connected' = FALSE
  /\ statuses' = << >>
  /\ answers' = << >>
  /\ UNCHANGED <<response, gameVars, players, joins, answering, forms, page,
                 clicks, recorded, fault>>

\* giveAnswer without a WebSocket: the buttons stay until the form is answered,
\* so there may be another click.
SendForm ==
  /\ players # << >>
  /\ ~connected
  /\ page.visible
  /\ forms < MaxForms
  /\ forms' = forms + 1
  /\ page' = [page EXCEPT !.answerGiven = TRUE]
  /\ UNCHANGED <<response, gameVars, players, joins, answering, statuses,
                 answers, connected, clicks, recorded, fault>>

\* HttpSession looks for a player in the cookie that a page with a WebSocket has
\* never set: std::stoi throws.
TakeForm ==
  /\ forms > 0
  /\ forms' = forms - 1
  /\ fault' = TRUE
  /\ UNCHANGED <<response, gameVars, players, joins, answering, statuses,
                 answers, connected, page, clicks, recorded>>

\* The form does not reach the server; the callback hides the buttons.
FormFails ==
  /\ forms > 0
  /\ forms' = forms - 1
  /\ page' = [page EXCEPT !.visible = FALSE]
  /\ UNCHANGED <<response, gameVars, players, joins, answering, statuses,
                 answers, connected, clicks, recorded, fault>>

-------------------------------------------------------------------------------
Next ==
  /\ ~fault
  /\ \/ GetQuestions
     \/ ReadBeyondTheEnd
     \/ OpenRound
     \/ CloseRound
     \/ EndPause
     \/ FinishGame
     \/ \E i \in PlayerIds : EnterRoom(i)
     \/ SomebodyJoins
     \/ TakeAnswer
     \/ RecordAnswer
     \/ HandleStatus
     \/ \E a \in Answers : GiveAnswer(a)
     \/ Disconnect
     \/ SendForm
     \/ TakeForm
     \/ FormFails

Spec == Init /\ [][Next]_vars

-------------------------------------------------------------------------------
(* Properties *)

\* The game is played with all the questions the site has sent or with none:
\* a result that cannot be used never shortens the list, and a game without
\* questions is never offered.
AllOrNothing ==
  /\ Len(questions) \in {0, Len(response.results)}
  /\ state # "NULL" => questions # << >>

\* The page sends at most one answer to a question over its WebSocket, in the
\* order in which they are asked, although it is sent the running question again
\* whenever somebody joins, and may be asked the next one before it has answered.
OneAnswerPerQuestion ==
  \A j, k \in DOMAIN clicks : j < k => clicks[j].question < clicks[k].question

\* Points are for clicking the right text: an answer that arrives in its own
\* round is judged right just if the button clicked showed the text that the
\* site calls correct, wherever the shuffle has put it.  (If a wrong answer
\* reads the same, only the first of the two buttons counts.)
InTime(k) == recorded[k].question = players[1].answersGiven[k].question + 1

Judged(k) ==
  LET given == players[1].answersGiven[k]
  IN given.answer = questions[given.question + 1].correctAnswerIndex

Unambiguous(q) ==
  Cardinality({i \in 1..4 : questions[q].answers[i] = response.results[q].correct}) = 1

RightTextPays ==
  players # << >> =>
    LET given == players[1].answersGiven IN
    /\ players[1].score =
         POINTS_FOR_CORRECT_ANSWER * Cardinality({k \in DOMAIN given : Judged(k)})
    /\ \A k \in DOMAIN given :
         LET q == recorded[k].question IN
         InTime(k) /\ Unambiguous(q) =>
           (Judged(k) <=> recorded[k].text = response.results[q].correct)

\* The page keeps up with the score: as long as the connection lasts, once a
\* round and its pause are over and what is on its way has arrived, the page
\* shows the score the server keeps, whenever the answers were recorded.
ScoreUpToDate ==
  connected /\ statuses = << >> /\ state \notin {"PLAYING", "PAUSED"}
    => page.score = players[1].score

===============================================================================
