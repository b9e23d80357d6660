--------------------------------- MODULE Game ---------------------------------
(***************************************************************************)
(* The quiz itself: the class Game (game.h, game.cpp) as it is driven by   *)
(* the WebSocket sessions of the scoreboard and player pages through the   *)
(* callbacks of Server.                                                    *)
(*                                                                         *)
(* Three kinds of threads work on the one Game object:                     *)
(*   - the io threads, which run the request handlers of the sessions; a   *)
(*     session's handlers never overlap (each connection has its strand),  *)
(*     those of different sessions do, up to the number of io threads;     *)
(*   - questionCacheThread, which fetches the questions (getQuestions);    *)
(*   - gamePlayingThread, which plays the rounds (playGame).               *)
(* Only state and questionFinished are ever accessed under gameMutex, so a *)
(* handler is as many steps as it has accesses other threads can separate. *)
(*                                                                         *)
(* changeState and addPlayer also call Server::stateChanged, which writes  *)
(* to the sessions and to no field of Game; see WriteQueue for where those *)
(* messages go.                                                            *)
(***************************************************************************)
EXTENDS Player, FiniteSets

CONSTANTS
  Boards,      \* sessions of scoreboard pages; each creates a game on opening
  Phones,      \* sessions of player pages
  NThreads,    \* number of io threads
  Rooms,       \* what the random generator can yield for a game's id
  NoId,        \* the 0 that ids are initialised with
  NoAnswer,    \* a phone that is not answering
  Fetches,     \* what collectQuestions can return: the correct answer of each
               \* question, or << >> when the site cannot be reached
  PauseOutlastsAnswers
               \* TRUE: playerAnswered never takes longer than the 5 s pause

ASSUME NoIdAssumption == NoId \notin PlayerIds \cup Rooms
ASSUME NoAnswerAssumption == NoAnswer \notin Answers
ASSUME SessionsAssumption ==
  /\ IsFiniteSet(Boards)
  /\ IsFiniteSet(Phones)
  /\ Boards \cap Phones = {}
ASSUME NThreadsAssumption == NThreads \in Nat \ {0}
ASSUME FetchesAssumption == Fetches \subseteq Seq(Answers)
ASSUME PauseAssumption == PauseOutlastsAnswers \in BOOLEAN

Sessions == Boards \cup Phones

VARIABLES
  id, state, mainPlayerID, currQuestion, questions, players,
  questionFinished,
  questionCacheThread,  \* where that thread is; "none": not joinable
  gamePlayingThread,    \* where that thread is; "none": not joinable
  pc,           \* where the handler of a session is; "idle": between requests
  gameID,       \* WebSocketSession::gameID of a phone: the room it typed
  playerID,     \* WebSocketSession::playerID of a phone
  newID,        \* addPlayer's local id
  vector,       \* the players that emplace_back found on entry
  choice,       \* playerAnswered's argument
  spot,         \* where its iterator points; 0: nowhere
  asked,        \* the question it has read
  correct,      \* its verdict on the choice
  fault         \* how the program has run into undefined behaviour

gameVars == <<id, mainPlayerID, currQuestion, questions, players>>
joinVars == <<gameID, playerID, newID, vector>>
answerVars == <<choice, spot, asked, correct>>
localVars == <<joinVars, answerVars>>
vars == <<gameVars, state, questionFinished, questionCacheThread,
          gamePlayingThread, pc, localVars, fault>>

States == {"NULL", "CREATED", "PLAYING", "PAUSED", "FINISHED", "PREPARE"}

BoardSteps == {"connected", "reset", "fetch", "join", "spawn", "idle"}
PhoneSteps == {"connected", "enter", "emplace", "added", "start", "join",
               "spawn", "find", "guard", "record", "count", "pay", "tally",
               "signal", "notify", "idle"}

\* Where gaveAnswer is on its way, and where the whole of playerAnswered is.
Answering == {"guard", "record", "count", "pay"}
AnswerSteps == Answering \cup {"find", "tally", "signal"}

Faults == {"none",
           "early",    \* a callback before there is a listener
           "refused",  \* an answer of a phone whose room number was wrong
           "lost",     \* an answer of a player the vector has lost
           "index",    \* an answer to a question that does not exist
           "race",     \* the vector used while emplace_back changes it
           "thread"}   \* a thread joined twice, or overwritten

FieldsOK ==
  /\ id \in Rooms \cup {NoId}
  /\ state \in States
  /\ mainPlayerID \in PlayerIds \cup {NoId}
  /\ currQuestion \in Nat
  /\ questions \in Seq(Answers)
  /\ players \in Seq(PlayerRecord)
  /\ questionFinished \in BOOLEAN
  /\ questionCacheThread \in {"none", "collect", "publish", "done"}
  /\ gamePlayingThread \in {"none", "check", "open", "test", "wait", "close",
                            "sleep", "next", "done"}

StepsOK ==
  /\ pc \in [Sessions -> BoardSteps \cup PhoneSteps]
  /\ \A b \in Boards : pc[b] \in BoardSteps
  /\ \A p \in Phones : pc[p] \in PhoneSteps
  /\ fault \in Faults

LocalsOK ==
  /\ gameID \in [Phones -> Rooms \cup {NoId}]
  /\ playerID \in [Phones -> PlayerIds \cup {NoId}]
  /\ newID \in [Phones -> PlayerIds \cup {NoId}]
  /\ vector \in [Phones -> Seq(PlayerRecord)]
  /\ choice \in [Phones -> Answers \cup {NoAnswer}]
  /\ spot \in [Phones -> Nat]
  /\ asked \in [Phones -> Nat]
  /\ correct \in [Phones -> BOOLEAN]
  /\ \A p \in Phones : pc[p] \in {"enter", "emplace", "added"} => newID[p] # NoId
  /\ \A p \in Phones : pc[p] \in {"find", "guard", "record"} => choice[p] # NoAnswer
  /\ \A p \in Phones : pc[p] \notin Answering => spot[p] = 0

TypeOK == FieldsOK /\ StepsOK /\ LocalsOK

Init ==
  /\ id = NoId
  /\ state = "NULL"
  /\ mainPlayerID = NoId
  /\ currQuestion = 0
  /\ questions = << >>
  /\ players = << >>
  /\ questionFinished = FALSE
  /\ questionCacheThread = "none"
  /\ gamePlayingThread = "none"
  /\ pc = [s \in Sessions |-> "connected"]
  /\ gameID = [p \in Phones |-> NoId]
  /\ playerID = [p \in Phones |-> NoId]
  /\ newID = [p \in Phones |-> NoId]
  /\ vector = [p \in Phones |-> << >>]
  /\ choice = [p \in Phones |-> NoAnswer]
  /\ spot = [p \in Phones |-> 0]
  /\ asked = [p \in Phones |-> 0]
  /\ correct = [p \in Phones |-> FALSE]
  /\ fault = "none"

Goto(s, step) == pc' = [pc EXCEPT ![s] = step]

Busy == {s \in Sessions : pc[s] \notin {"connected", "idle"}}

\* A handler needs an io thread for as long as it runs.
ThreadFree == Cardinality(Busy) < NThreads

(* Faulty variants of definitions below, to check that the properties notice *)
(* them.                                                                     *)

\* the latest player becomes the main player
MainPlayer_Latest(i) == i

\* off by one
QuestionsLeft_OneMore == currQuestion <= Len(questions)
AllPlayersAnswered_Previous ==
  \A k \in DOMAIN players : players[k].questionsAnswered >= currQuestion

\* anybody may start the game
StartGame_Anybody(p) ==
  /\ pc[p] = "idle"
  /\ ThreadFree
  /\ state = "CREATED"
  /\ Goto(p, "start")
  /\ UNCHANGED <<gameVars, state, questionFinished, questionCacheThread,
                 gamePlayingThread, localVars, fault>>

\* no join before the thread object is assigned
CheckGameThread_NoJoin(p) ==
  /\ pc[p] = "start"
  /\ Goto(p, "spawn")
  /\ UNCHANGED <<gameVars, state, questionFinished, questionCacheThread,
                 gamePlayingThread, localVars, fault>>

\* answers are taken in any state
GiveAnswer_Anytime(p, a) ==
  /\ pc[p] = "idle"
  /\ ThreadFree
  /\ choice' = [choice EXCEPT ![p] = a]
  /\ Goto(p, "find")
  /\ UNCHANGED <<gameVars, state, questionFinished, questionCacheThread,
                 gamePlayingThread, joinVars, spot, asked, correct, fault>>

\* nobody is notified
Notify_Nobody(p) ==
  /\ pc[p] = "notify"
  /\ Goto(p, "idle")
  /\ UNCHANGED <<gameVars, state, questionFinished, questionCacheThread,
                 gamePlayingThread, localVars, fault>>

\* the next round plays the same question
NextRound_Same ==
  /\ gamePlayingThread = "next"
  /\ gamePlayingThread' = "check"
  /\ UNCHANGED <<gameVars, state, questionFinished, questionCacheThread, pc,
                 localVars, fault>>

CurrentIds == {players[k].id : k \in DOMAIN players}

\* The first player to enter is the one who can start the game.
MainPlayer(i) == IF players = << >> THEN i ELSE mainPlayerID

QuestionsLeft == currQuestion < Len(questions)

AllPlayersAnswered ==
  \A k \in DOMAIN players : players[k].questionsAnswered > currQuestion

-------------------------------------------------------------------------------
(* A scoreboard page opens: WebSocketSession::handleScoreboardRequest calls *)
(* Game::createGame.                                                        *)

\* clearGame, up to its changeState.
CreateGame(b) ==
  /\ pc[b] = "connected"
  /\ ThreadFree
  /\ questions' = << >>
  /\ players' = << >>
  /\ currQuestion' = 0
  /\ id' = NoId
  /\ Goto(b, "reset")
  /\ UNCHANGED <<mainPlayerID, state, questionFinished, questionCacheThread,
                 gamePlayingThread, localVars, fault>>

ResetGame(b) ==
  /\ pc[b] = "reset"
  /\ state' = "NULL"
  /\ id' \in Rooms
  /\ Goto(b, "fetch")
  /\ UNCHANGED <<mainPlayerID, currQuestion, questions, players,
                 questionFinished, questionCacheThread, gamePlayingThread,
                 localVars, fault>>

\* The test of joinable().  Two threads in join() on one std::thread is
\* undefined behaviour.
CheckFetchThread(b) ==
  /\ pc[b] = "fetch"
  /\ \/ /\ questionCacheThread = "none"
        /\ Goto(b, "spawn")
        /\ UNCHANGED fault
     \/ /\ questionCacheThread # "none"
        /\ Goto(b, "join")
        /\ fault' = IF \E c \in Boards : pc[c] = "join" THEN "thread" ELSE fault
  /\ UNCHANGED <<gameVars, state, questionFinished, questionCacheThread,
                 gamePlayingThread, localVars>>

JoinFetchThread(b) ==
  /\ pc[b] = "join"
  /\ questionCacheThread = "done"
  /\ questionCacheThread' = "none"
  /\ Goto(b, "spawn")
  /\ UNCHANGED <<gameVars, state, questionFinished, gamePlayingThread,
                 localVars, fault>>

\* Assigning to a std::thread that is still joinable calls terminate().
SpawnFetchThread(b) ==
  /\ pc[b] = "spawn"
  /\ \/ /\ questionCacheThread = "none"
        /\ questionCacheThread' = "collect"
        /\ UNCHANGED fault
     \/ /\ questionCacheThread # "none"
        /\ fault' = "thread"
        /\ UNCHANGED questionCacheThread
  /\ Goto(b, "idle")
  /\ UNCHANGED <<gameVars, state, questionFinished, gamePlayingThread,
                 localVars>>

(* questionCacheThread: Game::getQuestions *)

CollectQuestions ==
  /\ questionCacheThread = "collect"
  /\ questions' \in Fetches
  /\ questionCacheThread' = IF questions' = << >> THEN "done" ELSE "publish"
  /\ UNCHANGED <<id, mainPlayerID, currQuestion, players, state,
                 questionFinished, gamePlayingThread, pc, localVars, fault>>

GameCreated ==
  /\ questionCacheThread = "publish"
  /\ questionCacheThread' = "done"
  /\ state' = "CREATED"
  /\ UNCHANGED <<gameVars, questionFinished, gamePlayingThread, pc,
                 localVars, fault>>

-------------------------------------------------------------------------------
(* A player page opens: handlePlayerRequest calls Server::playerEntered.    *)

\* Any number can be typed.  A phone with a wrong one keeps playerID 0 and is
\* served like the others.  Game::addPlayer up to players.emplace_back: a fresh
\* id is drawn, and the first player becomes the one who can start the game.
EnterRoom(p, room) ==
  /\ pc[p] = "connected"
  /\ ThreadFree
  /\ gameID' = [gameID EXCEPT ![p] = room]
  /\ \/ /\ room # id
        /\ Goto(p, "idle")
        /\ UNCHANGED <<mainPlayerID, newID>>
     \/ /\ room = id
        /\ \E i \in PlayerIds \ CurrentIds :
             /\ newID' = [newID EXCEPT ![p] = i]
             /\ mainPlayerID' = MainPlayer(i)
        /\ Goto(p, "enter")
  /\ UNCHANGED <<id, currQuestion, questions, players, state, questionFinished,
                 questionCacheThread, gamePlayingThread, playerID, vector,
                 answerVars, fault>>

\* emplace_back begins.
Emplace(p) ==
  /\ pc[p] = "enter"
  /\ vector' = [vector EXCEPT ![p] = players]
  /\ Goto(p, "emplace")
  /\ UNCHANGED <<gameVars, state, questionFinished, questionCacheThread,
                 gamePlayingThread, gameID, playerID, newID, answerVars,
                 fault>>

\* What a move that began when the vector was v makes of its k-th player: of
\* each field the value of then, or the one written meanwhile.
Torn(v, k) ==
  LET now == IF k \in DOMAIN players THEN players[k] ELSE v[k]
  IN [id : {v[k].id},
      score : {v[k].score, now.score},
      questionsAnswered : {v[k].questionsAnswered, now.questionsAnswered},
      answersGiven : {v[k].answersGiven, now.answersGiven}]

Moved(v) ==
  {w \in [DOMAIN v -> UNION {Torn(v, k) : k \in DOMAIN v}] :
     \A k \in DOMAIN v : w[k] \in Torn(v, k)}

\* emplace_back ends: the new player is behind the others, or all have moved to
\* a larger block of memory, where no iterator points, and without what other
\* threads added meanwhile.  The new player must not come to stand where an
\* iterator points already.
AddPlayer(p) ==
  /\ pc[p] = "emplace"
  /\ \/ /\ players' = Append(players, NewPlayer(newID[p]))
        /\ fault' = IF \E q \in Phones : spot[q] > Len(players) THEN "race" ELSE fault
        /\ UNCHANGED spot
     \/ /\ \E w \in Moved(vector[p]) : players' = Append(w, NewPlayer(newID[p]))
        /\ spot' = [q \in Phones |-> 0]
        /\ UNCHANGED fault
  /\ vector' = [vector EXCEPT ![p] = << >>]
  /\ Goto(p, "added")
  /\ UNCHANGED <<id, mainPlayerID, currQuestion, questions, state,
                 questionFinished, questionCacheThread, gamePlayingThread,
                 gameID, playerID, newID, choice, asked, correct>>

\* createGame has set callbackReceiver.
Listening == \E b \in Boards : pc[b] \notin {"connected", "reset"}

\* playerAdded; then addPlayer returns the id.
PlayerAdded(p) ==
  /\ pc[p] = "added"
  /\ fault' = IF Listening THEN fault ELSE "early"
  /\ playerID' = [playerID EXCEPT ![p] = newID[p]]
  /\ newID' = [newID EXCEPT ![p] = NoId]
  /\ Goto(p, "idle")
  /\ UNCHANGED <<gameVars, state, questionFinished, questionCacheThread,
                 gamePlayingThread, gameID, vector, answerVars>>

(* The first player starts the game: Server::startGame, Game::startGame.    *)
(* A request that fails the test changes nothing.                           *)

StartGame(p) ==
  /\ pc[p] = "idle"
  /\ ThreadFree
  /\ state = "CREATED"
  /\ playerID[p] = mainPlayerID
  /\ Goto(p, "start")
  /\ UNCHANGED <<gameVars, state, questionFinished, questionCacheThread,
                 gamePlayingThread, localVars, fault>>

CheckGameThread(p) ==
  /\ pc[p] = "start"
  /\ \/ /\ gamePlayingThread = "none"
        /\ Goto(p, "spawn")
        /\ UNCHANGED fault
     \/ /\ gamePlayingThread # "none"
        /\ Goto(p, "join")
        /\ fault' = IF \E q \in Phones : pc[q] = "join" THEN "thread" ELSE fault
  /\ UNCHANGED <<gameVars, state, questionFinished, questionCacheThread,
                 gamePlayingThread, localVars>>

JoinGameThread(p) ==
  /\ pc[p] = "join"
  /\ gamePlayingThread = "done"
  /\ gamePlayingThread' = "none"
  /\ Goto(p, "spawn")
  /\ UNCHANGED <<gameVars, state, questionFinished, questionCacheThread,
                 localVars, fault>>

SpawnGameThread(p) ==
  /\ pc[p] = "spawn"
  /\ \/ /\ gamePlayingThread = "none"
        /\ gamePlayingThread' = "check"
        /\ UNCHANGED fault
     \/ /\ gamePlayingThread # "none"
        /\ fault' = "thread"
        /\ UNCHANGED gamePlayingThread
  /\ Goto(p, "idle")
  /\ UNCHANGED <<gameVars, state, questionFinished, questionCacheThread,
                 localVars>>

-------------------------------------------------------------------------------
(* A player answers: Game::playerAnswered.                                  *)

\* The test of gameRunning(); an answer outside a round changes nothing.
GiveAnswer(p, a) ==
  /\ pc[p] = "idle"
  /\ ThreadFree
  /\ state = "PLAYING"
  /\ choice' = [choice EXCEPT ![p] = a]
  /\ Goto(p, "find")
  /\ UNCHANGED <<gameVars, state, questionFinished, questionCacheThread,
                 gamePlayingThread, joinVars, spot, asked, correct, fault>>

Position(i) == CHOOSE k \in DOMAIN players :
                 /\ players[k].id = i
                 /\ \A j \in 1..(k - 1) : players[j].id # i

\* giveQuestion().correctAnswerIndex == answerGiven; no index is tested.
Verdict(a) ==
  IF currQuestion + 1 \in DOMAIN questions
    THEN {questions[currQuestion + 1] = a} ELSE BOOLEAN

PastEnd == IF currQuestion + 1 \in DOMAIN questions THEN {} ELSE {"index"}

\* What may happen when the iterator of p is used.
Astray(p) == IF spot[p] \in DOMAIN players THEN {}
             ELSE IF playerID[p] = NoId THEN {"refused"} ELSE {"lost"}

\* find_if, whose result is not compared with end(), and the first of the two
\* arguments of gaveAnswer that depend on currQuestion.
Find(p) ==
  /\ pc[p] = "find"
  /\ spot' = [spot EXCEPT ![p] = IF playerID[p] \in CurrentIds
                                   THEN Position(playerID[p])
                                   ELSE Len(players) + 1]
  /\ asked' = [asked EXCEPT ![p] = currQuestion]
  /\ \E c \in Verdict(choice[p]) : correct' = [correct EXCEPT ![p] = c]
  /\ fault' \in {fault} \cup PastEnd
  /\ Goto(p, "guard")
  /\ UNCHANGED <<gameVars, state, questionFinished, questionCacheThread,
                 gamePlayingThread, joinVars, choice>>

\* On to allPlayersAnswered.
EndAnswer(p) ==
  /\ Goto(p, "tally")
  /\ choice' = [choice EXCEPT ![p] = NoAnswer]
  /\ spot' = [spot EXCEPT ![p] = 0]
  /\ asked' = [asked EXCEPT ![p] = 0]
  /\ correct' = [correct EXCEPT ![p] = FALSE]

\* The second argument (the order of evaluation is the compiler's), and the
\* early returns of gaveAnswer.
Guard(p) ==
  /\ pc[p] = "guard"
  /\ \E q \in {asked[p], currQuestion}, c \in BOOLEAN :
       /\ \/ q = asked[p] /\ c \in Verdict(choice[p])
          \/ q = currQuestion /\ c = correct[p]
       /\ \/ /\ spot[p] \in DOMAIN players => ~Refused(players[spot[p]], q)
             /\ asked' = [asked EXCEPT ![p] = q]
             /\ correct' = [correct EXCEPT ![p] = c]
             /\ Goto(p, "record")
             /\ UNCHANGED <<choice, spot>>
          \/ /\ spot[p] \in DOMAIN players => Refused(players[spot[p]], q)
             /\ EndAnswer(p)
  /\ fault' \in {fault} \cup PastEnd \cup Astray(p)
  /\ UNCHANGED <<gameVars, state, questionFinished, questionCacheThread,
                 gamePlayingThread, joinVars>>

\* A write through the iterator: it changes the player there, if any.
Write(p, player) ==
  /\ players' = IF spot[p] \in DOMAIN players
                  THEN [players EXCEPT ![spot[p]] = player] ELSE players
  /\ fault' \in {fault} \cup Astray(p)
  /\ UNCHANGED <<id, mainPlayerID, currQuestion, questions, state,
                 questionFinished, questionCacheThread, gamePlayingThread,
                 joinVars>>

\* The writes of gaveAnswer, one by one.
Record(p) ==
  /\ pc[p] = "record"
  /\ Write(p, WithEntry(players[spot[p]], asked[p], choice[p]))
  /\ Goto(p, "count")
  /\ UNCHANGED answerVars

Count(p) ==
  /\ pc[p] = "count"
  /\ Write(p, WithCount(players[spot[p]], asked[p]))
  /\ Goto(p, "pay")
  /\ UNCHANGED answerVars

Pay(p) ==
  /\ pc[p] = "pay"
  /\ Write(p, Paid(players[spot[p]], correct[p]))
  /\ EndAnswer(p)

\* allPlayersAnswered; anything may come out while the vector is being moved.
Tally(p) ==
  /\ pc[p] = "tally"
  /\ \E all \in IF \E q \in Phones : pc[q] = "emplace"
                  THEN BOOLEAN ELSE {AllPlayersAnswered} :
       Goto(p, IF all THEN "signal" ELSE "idle")
  /\ UNCHANGED <<gameVars, state, questionFinished, questionCacheThread,
                 gamePlayingThread, localVars, fault>>

Signal(p) ==
  /\ pc[p] = "signal"
  /\ questionFinished' = TRUE
  /\ Goto(p, "notify")
  /\ UNCHANGED <<gameVars, state, questionCacheThread, gamePlayingThread,
                 localVars, fault>>

\* cv.notify_all: wakes the game thread if it is waiting, else is lost.
Notify(p) ==
  /\ pc[p] = "notify"
  /\ gamePlayingThread' =
       IF gamePlayingThread = "wait" THEN "test" ELSE gamePlayingThread
  /\ Goto(p, "idle")
  /\ UNCHANGED <<gameVars, state, questionFinished, questionCacheThread,
                 localVars, fault>>

-------------------------------------------------------------------------------
(* gamePlayingThread: Game::playGame *)

BeginRound ==
  /\ gamePlayingThread = "check"
  /\ QuestionsLeft
  /\ questionFinished' = FALSE
  /\ gamePlayingThread' = "open"
  /\ UNCHANGED <<gameVars, state, questionCacheThread, pc, localVars, fault>>

OpenRound ==
  /\ gamePlayingThread = "open"
  /\ state' = "PLAYING"
  /\ gamePlayingThread' = "test"
  /\ UNCHANGED <<gameVars, questionFinished, questionCacheThread, pc,
                 localVars, fault>>

\* wait_for tests its predicate under the lock before it blocks and whenever
\* it is woken.
TestFinished ==
  /\ gamePlayingThread = "test"
  /\ gamePlayingThread' = IF questionFinished THEN "close" ELSE "wait"
  /\ UNCHANGED <<gameVars, state, questionFinished, questionCacheThread, pc,
                 localVars, fault>>

\* ROUND_TIME is over.
RoundTimeout ==
  /\ gamePlayingThread = "wait"
  /\ gamePlayingThread' = "close"
  /\ UNCHANGED <<gameVars, state, questionFinished, questionCacheThread, pc,
                 localVars, fault>>

CloseRound ==
  /\ gamePlayingThread = "close"
  /\ state' = "PAUSED"
  /\ gamePlayingThread' = "sleep"
  /\ UNCHANGED <<gameVars, questionFinished, questionCacheThread, pc,
                 localVars, fault>>

AnswerInFlight == \E p \in Phones : pc[p] \in AnswerSteps

\* PAUSE_TIME is over.
EndPause ==
  /\ gamePlayingThread = "sleep"
  /\ PauseOutlastsAnswers => ~AnswerInFlight
  /\ state' = "PREPARE"
  /\ gamePlayingThread' = "next"
  /\ UNCHANGED <<gameVars, questionFinished, questionCacheThread, pc,
                 localVars, fault>>

NextRound ==
  /\ gamePlayingThread = "next"
  /\ currQuestion' = currQuestion + 1
  /\ gamePlayingThread' = "check"
  /\ UNCHANGED <<id, mainPlayerID, questions, players, state, questionFinished,
                 questionCacheThread, pc, localVars, fault>>

FinishGame ==
  /\ gamePlayingThread = "check"
  /\ ~QuestionsLeft
  /\ state' = "FINISHED"
  /\ gamePlayingThread' = "done"
  /\ UNCHANGED <<gameVars, questionFinished, questionCacheThread, pc,
                 localVars, fault>>

-------------------------------------------------------------------------------
BoardStep(b) ==
  \/ ResetGame(b)
  \/ CheckFetchThread(b)
  \/ JoinFetchThread(b)
  \/ SpawnFetchThread(b)

PhoneStep(p) ==
  \/ Emplace(p)
  \/ AddPlayer(p)
  \/ PlayerAdded(p)
  \/ CheckGameThread(p)
  \/ JoinGameThread(p)
  \/ SpawnGameThread(p)
  \/ Find(p)
  \/ Guard(p)
  \/ Record(p)
  \/ Count(p)
  \/ Pay(p)
  \/ Tally(p)
  \/ Signal(p)
  \/ Notify(p)

FetchThread == CollectQuestions \/ GameCreated

GameThread ==
  \/ BeginRound
  \/ OpenRound
  \/ TestFinished
  \/ CloseRound
  \/ NextRound
  \/ FinishGame

\* What people do.
Request ==
  \/ \E b \in Boards : CreateGame(b)
  \/ \E p \in Phones, room \in Rooms \cup {NoId} : EnterRoom(p, room)
  \/ \E p \in Phones : StartGame(p)
  \/ \E p \in Phones, a \in Answers : GiveAnswer(p, a)

\* Two handlers are in the vector and one of them is in emplace_back: apart
\* from what the actions above make of it, anything can happen.
DataRace ==
  /\ \E p, q \in Phones :
       /\ p # q
       /\ pc[p] = "emplace"
       /\ pc[q] \in {"emplace", "find", "tally"} \cup Answering
  /\ fault' = "race"
  /\ UNCHANGED <<gameVars, state, questionFinished, questionCacheThread,
                 gamePlayingThread, pc, localVars>>

\* Nothing is said about a program that has run into undefined behaviour.
Next ==
  /\ fault = "none"
  /\ \/ Request
     \/ \E b \in Boards : BoardStep(b)
     \/ \E p \in Phones : PhoneStep(p)
     \/ FetchThread
     \/ GameThread
     \/ RoundTimeout
     \/ EndPause
     \/ DataRace

Spec == Init /\ [][Next]_vars

(***************************************************************************)
(* Runnable threads are scheduled.  Requests are not fair: people need not *)
(* do anything.  Collecting questions ends (curl has timeouts), and so     *)
(* does the pause.                                                         *)
(***************************************************************************)
ThreadFairness ==
  /\ \A b \in Boards : WF_vars(fault = "none" /\ BoardStep(b))
  /\ \A p \in Phones : WF_vars(fault = "none" /\ PhoneStep(p))
  /\ WF_vars(fault = "none" /\ FetchThread)
  /\ WF_vars(fault = "none" /\ GameThread)

\* Without the timers: a round ends only by the players' answers.
UntimedSpec == Spec /\ ThreadFairness

TimersGoOff == WF_vars(fault = "none" /\ (RoundTimeout \/ EndPause))

TimedSpec == UntimedSpec /\ TimersGoOff

-------------------------------------------------------------------------------
(* Properties *)

\* With one io thread nothing but a wrong room number leads to undefined
\* behaviour or terminate(): nobody answers who has joined and is not in the
\* vector, no answer is judged against a question that does not exist, and no
\* std::thread is joined twice or assigned while it runs.  (A phone whose room
\* number was wrong makes playerAnswered use end(), and a phone that enters room
\* 0 before any scoreboard is open makes playerAdded call a null pointer.)
NoFault == fault \in {"none", "refused", "early"}

\* Whatever the threads do - an emplace_back may move a player between the
\* writes of gaveAnswer, or lose some of them, and the game goes on between the
\* reads of the question - a player has at most one answer per question, in the
\* order asked, unless two players drew the same id (Player::gaveAnswer under
\* repeated clicks and late handlers).
IdsDistinct ==
  \A p, q \in Phones : p # q /\ playerID[p] # NoId => playerID[p] # playerID[q]

AnswersInOrder == IdsDistinct => \A k \in DOMAIN players : OnceEach(players[k])

\* Once its handler has written it all, an answer is worth what it should be:
\* the score is ten points for each answer that matches the list of questions,
\* although the verdict is reached before the guards and the question index is
\* read twice.
Right(p) ==
  {k \in DOMAIN p.answersGiven :
     p.answersGiven[k].answer = questions[p.answersGiven[k].question + 1]}

ScoreMatchesAnswers ==
  (\A p \in Phones : pc[p] \notin {"count", "pay"}) =>
    \A k \in DOMAIN players :
      players[k].score = POINTS_FOR_CORRECT_ANSWER * Cardinality(Right(players[k]))

\* Somebody who joined can start the game: mainPlayerID is the first player
\* in the vector.
MainPlayerPresent == players # << >> => mainPlayerID = players[1].id

\* In each state in which a status shows a question, the index is that of a
\* question.  (A thread that sees the state and then reads the index may still
\* read a later one: see Broadcast.)
QuestionInBounds ==
  state \in {"PLAYING", "PAUSED"} => currQuestion < Len(questions)

\* A round is ended early only because everybody has answered its question:
\* when the flag that wakes the game thread goes up, all have answered,
\* although the flag is set two steps after the test.
EverybodyAnswered ==
  \A k \in DOMAIN players : HasAnswered(players[k], currQuestion)

FlagMeansAllAnswered ==
  [][~questionFinished /\ questionFinished' => EverybodyAnswered]_vars

\* The game thread is never left waiting once everybody has answered: with
\* no help from the round's timer the round is closed.
AnsweredRoundCloses ==
  /\ state = "PLAYING"
  /\ players # << >>
  /\ EverybodyAnswered
  ~> state # "PLAYING" \/ fault # "none"

\* No request handler is stuck: the joins in createGame and startGame wait
\* for threads that end, so the io threads they occupy become free again.
HandlersReturn ==
  TimersGoOff => \A s \in Sessions : s \in Busy ~> s \notin Busy \/ fault # "none"

\* A round that has begun leads to the end of the game, whether or not anybody
\* answers and even if a new game is created meanwhile.
StartedGameFinishes ==
  TimersGoOff => (state = "PLAYING" ~> state = "FINISHED" \/ fault # "none")

\* Starting the game never takes the last io thread: however often the start
\* button is pressed, startGame's wait for the previous game thread leaves a
\* thread for the answers.  There are three exceptions: two players who joined
\* at the same time drew the same id; a phone that was refused got through
\* startGame's test before anybody had joined (its playerID and mainPlayerID
\* were both 0); or a phone entered room 0 while createGame cleared the game,
\* and was forgotten.  (With a single io thread the code does not ensure this:
\* a second press while the state is still CREATED blocks the server until the
\* game is over.)
StartersJoined ==
  \A p \in Phones : pc[p] = "join" => playerID[p] # NoId /\ gameID[p] # NoId

ThreadLeftForAnswers ==
  state = "PLAYING" /\ IdsDistinct /\ StartersJoined
    => Cardinality({s \in Sessions : pc[s] = "join"}) < NThreads

\* The game as the players see it: Game implements Quiz.
Phase ==
  CASE state \in {"NULL", "CREATED"} -> "lobby"
    [] state = "PLAYING" -> "open"
    [] state = "PAUSED" -> "closed"
    [] state = "PREPARE" ->
         IF gamePlayingThread = "next" THEN "closed" ELSE "between"
    [] state = "FINISHED" -> "over"

AnswerOf(p, q) ==
  p.answersGiven[CHOOSE k \in DOMAIN p.answersGiven :
                   p.answersGiven[k].question = q].answer

Sheet(p) ==
  [q \in {p.answersGiven[k].question : k \in DOMAIN p.answersGiven} |->
     AnswerOf(p, q)]

Rounds == INSTANCE Quiz WITH
  phase <- Phase,
  question <- currQuestion,
  key <- questions,
  sheets <- [i \in CurrentIds |-> Sheet(players[Position(i)])]

ImplementsQuiz == Rounds!Spec

\* "The game will start as soon as the player number is filled": once
\* everybody is in, a created game starts.
StartsWhenFull ==
  state = "CREATED" /\ Len(players) = Cardinality(Phones) ~> state = "PLAYING"

===============================================================================
