----------------------------- MODULE OneGameProofs -----------------------------
(***************************************************************************)
(* Proofs about Game when one scoreboard page is opened, so that one game  *)
(* is created: for any numbers of phones, questions and answers, and for   *)
(* any number of io threads unless a theorem says otherwise.  People type  *)
(* whatever room number they like, also before the game is there.          *)
(***************************************************************************)
EXTENDS GameProofs

OneBoard == \A a, b \in Boards : a = b

\* createGame has returned; it is not called again.
Created == \E b \in Boards : pc[b] = "idle"

\* Nothing is fetched before createGame is about to return.
LobbyOK ==
  /\ \A b \in Boards : pc[b] # "join"
  /\ ~Created => questionCacheThread = "none"

\* The handlers that work on a game that has started or is being started.
Playing == {"start", "join", "spawn", "notify"} \cup AnswerSteps

\* Nothing starts before the questions are there.
NullOK ==
  /\ questionCacheThread \in {"none", "collect"} => questions = << >>
  /\ questionCacheThread = "publish" => questions # << >>
  /\ questionCacheThread # "done" \/ questions = << >> => state = "NULL"
  /\ state = "NULL" =>
       /\ gamePlayingThread = "none"
       /\ currQuestion = 0
       /\ \A p \in Phones : pc[p] \notin Playing

\* The state the clients are told of is that of the game thread, and a round
\* has a question.
RoundsOK ==
  /\ currQuestion <= Len(questions)
  /\ gamePlayingThread \in {"open", "test", "wait", "close", "sleep", "next"}
       => currQuestion < Len(questions)
  /\ state = "PLAYING" <=> gamePlayingThread \in {"test", "wait", "close"}
  /\ state = "PAUSED" <=> gamePlayingThread = "sleep"
  /\ state = "PREPARE" => gamePlayingThread \in {"next", "check", "open"}
  /\ gamePlayingThread = "next" => state = "PREPARE"
  /\ state = "CREATED" => currQuestion = 0
  /\ state = "FINISHED" => currQuestion = Len(questions)

OneGameInv == TypeOK /\ LobbyOK /\ NullOK /\ RoundsOK

-------------------------------------------------------------------------------
(* One game: the lobby, the state and the game thread go together.           *)

\* The steps of a phone that its user's requests begin.
Asks(p) ==
  \/ \E room \in Rooms \cup {NoId} : EnterRoom(p, room)
  \/ StartGame(p)
  \/ \E a \in Answers : GiveAnswer(p, a)

Timers == RoundTimeout \/ EndPause

\* Every step is one of these.
LEMMA Steps ==
  ASSUME [Next]_vars
  PROVE  \/ \E b \in Boards : CreateGame(b) \/ BoardStep(b)
         \/ \E p \in Phones : PhoneStep(p) \/ Asks(p)
         \/ FetchThread
         \/ GameThread \/ Timers
         \/ DataRace \/ UNCHANGED vars
  BY DEF Next, Request, Asks, Timers

\* What no handler of a phone touches, and what it does to the game thread.
LEMMA PhonesLeave ==
  ASSUME NEW p \in Phones, PhoneStep(p) \/ Asks(p)
  PROVE  /\ UNCHANGED <<id, questions, questionCacheThread, state, currQuestion>>
         /\ \E s \in PhoneSteps : pc' = [pc EXCEPT ![p] = s]
         /\ \/ UNCHANGED gamePlayingThread
            \/ gamePlayingThread = "wait" /\ gamePlayingThread' = "test"
            \/ gamePlayingThread = "done" /\ gamePlayingThread' = "none"
            \/ gamePlayingThread = "none" /\ gamePlayingThread' = "check"
<1> USE DEF Goto, gameVars, PhoneSteps
<1>1. CASE Emplace(p) \/ AddPlayer(p) \/ PlayerAdded(p)
  BY <1>1 DEF Emplace, AddPlayer, PlayerAdded
<1>2. CASE CheckGameThread(p) \/ JoinGameThread(p) \/ SpawnGameThread(p)
  BY <1>2 DEF CheckGameThread, JoinGameThread, SpawnGameThread
<1>3. CASE Find(p) \/ Guard(p)
  BY <1>3 DEF Find, Guard, EndAnswer
<1>4. CASE Record(p) \/ Count(p) \/ Pay(p)
  BY <1>4 DEF Record, Count, Pay, Write, EndAnswer
<1>5. CASE Tally(p) \/ Signal(p) \/ Notify(p)
  BY <1>5 DEF Tally, Signal, Notify
<1>6. CASE Asks(p)
  BY <1>6 DEF Asks, EnterRoom, StartGame, GiveAnswer
<1>7. QED
  BY <1>1, <1>2, <1>3, <1>4, <1>5, <1>6 DEF PhoneStep

\* The boards' handlers stay where they are when a phone's moves.
LEMMA BoardsStay ==
  ASSUME TypeOK, NEW p \in Phones, PhoneStep(p) \/ Asks(p)
  PROVE  \A b \in Boards : pc'[b] = pc[b]
<1>1. \E s : pc' = [pc EXCEPT ![p] = s]
  BY PhonesLeave
<1>2. QED
  BY <1>1, SessionsAssumption DEF TypeOK, StepsOK, Sessions

\* The phones' handlers stay where they are when a board's moves.
LEMMA PhonesStay ==
  ASSUME TypeOK, NEW b \in Boards, CreateGame(b) \/ BoardStep(b)
  PROVE  /\ \A p \in Phones : pc'[p] = pc[p]
         /\ \A c \in Boards : c # b => pc'[c] = pc[c]
         /\ UNCHANGED localVars
<1>1. (\E s : pc' = [pc EXCEPT ![b] = s]) /\ UNCHANGED localVars
  BY DEF CreateGame, BoardStep, ResetGame, CheckFetchThread, JoinFetchThread,
         SpawnFetchThread, Goto
<1>2. QED
  BY <1>1, SessionsAssumption DEF TypeOK, StepsOK, Sessions

\* No scoreboard page opens, nobody is connected: the lobby is in order.
LEMMA LobbyInit == Init => LobbyOK
  BY DEF Init, LobbyOK, Created, Sessions

\* Every step keeps the lobby in order.
LEMMA LobbyNext ==
  ASSUME OneBoard, TypeOK, LobbyOK, [Next]_vars
  PROVE  LobbyOK'
<1> USE SessionsAssumption DEF LobbyOK, Created, Goto, Sessions, gameVars
<1>1. ASSUME NEW b \in Boards, CreateGame(b) \/ BoardStep(b) PROVE LobbyOK'
  <2>1. ~Created
    BY <1>1 DEF OneBoard, CreateGame, BoardStep, ResetGame, CheckFetchThread,
                JoinFetchThread, SpawnFetchThread
  <2>2. questionCacheThread = "none"
    BY <2>1
  <2>3. pc \in [Boards \cup Phones -> BoardSteps \cup PhoneSteps]
    BY DEF TypeOK, StepsOK
  <2>4. ASSUME pc[b] # "spawn"
        PROVE  LobbyOK'
    <3>1. /\ questionCacheThread' = questionCacheThread
          /\ \E s \in {"reset", "fetch", "spawn"} : pc' = [pc EXCEPT ![b] = s]
      BY <1>1, <2>2, <2>4
      DEF CreateGame, BoardStep, ResetGame, CheckFetchThread, JoinFetchThread,
          SpawnFetchThread
    <3>2. QED
      BY <2>2, <2>3, <3>1 DEF OneBoard
  <2>5. CASE pc[b] = "spawn"
    <3>1. SpawnFetchThread(b)
      BY <1>1, <2>5
      DEF CreateGame, BoardStep, ResetGame, CheckFetchThread, JoinFetchThread
    <3>2. QED
      BY <2>2, <2>3, <3>1 DEF SpawnFetchThread, OneBoard
  <2>6. QED
    BY <2>4, <2>5
<1>2. ASSUME NEW p \in Phones, PhoneStep(p) \/ Asks(p) PROVE LobbyOK'
  BY <1>2, PhonesLeave, BoardsStay
<1>3. CASE FetchThread
  BY <1>3 DEF FetchThread, CollectQuestions, GameCreated
<1>4. CASE GameThread \/ Timers
  BY <1>4 DEF GameThread, BeginRound, OpenRound, TestFinished, CloseRound,
              NextRound, FinishGame, Timers, RoundTimeout, EndPause
<1>5. CASE DataRace \/ UNCHANGED vars
  BY <1>5 DEF DataRace, vars
<1>6. QED
  BY <1>1, <1>2, <1>3, <1>4, <1>5, Steps

\* What a scoreboard page does when it opens leaves the state as it was.
LEMMA BoardsOpen ==
  ASSUME OneBoard, TypeOK, LobbyOK, NullOK, NEW b \in Boards,
         CreateGame(b) \/ BoardStep(b)
  PROVE  /\ state = "NULL" /\ currQuestion = 0 /\ questions = << >>
         /\ UNCHANGED <<state, currQuestion, questions, gamePlayingThread,
                        mainPlayerID, questionFinished>>
         /\ CreateGame(b) \/ UNCHANGED players
         /\ questionCacheThread' \in {"none", "collect"}
<1> USE SessionsAssumption DEF LobbyOK, NullOK, Created, Goto, Sessions
<1>1. questionCacheThread = "none"
  BY DEF OneBoard, CreateGame, BoardStep, ResetGame, CheckFetchThread,
         JoinFetchThread, SpawnFetchThread
<1>2. state = "NULL" /\ currQuestion = 0 /\ questions = << >>
  BY <1>1
<1>3. /\ UNCHANGED <<state, currQuestion, questions, gamePlayingThread,
                     mainPlayerID, questionFinished>>
      /\ CreateGame(b) \/ UNCHANGED players
      /\ questionCacheThread' \in {"none", "collect"}
  BY <1>1, <1>2
  DEF CreateGame, BoardStep, ResetGame, CheckFetchThread, JoinFetchThread,
      SpawnFetchThread, gameVars
<1>4. QED
  BY <1>2, <1>3

\* Every step keeps the order in which a game is prepared.
LEMMA NullNext ==
  ASSUME OneBoard, TypeOK, LobbyOK, NullOK, RoundsOK, [Next]_vars
  PROVE  NullOK'
<1> USE DEF NullOK
<1>1. ASSUME NEW b \in Boards, CreateGame(b) \/ BoardStep(b) PROVE NullOK'
  BY <1>1, BoardsOpen, PhonesStay
<1>2. ASSUME NEW p \in Phones, PhoneStep(p) \/ Asks(p) PROVE NullOK'
  <2>1. UNCHANGED <<questions, questionCacheThread, state, currQuestion>>
    BY <1>2, PhonesLeave
  <2>2. CASE state = "NULL"
    <3>1. \/ Emplace(p) \/ AddPlayer(p) \/ PlayerAdded(p)
          \/ \E room \in Rooms \cup {NoId} : EnterRoom(p, room)
      BY <1>2, <2>2
      DEF PhoneStep, CheckGameThread, JoinGameThread, SpawnGameThread, Find,
          Guard, Record, Count, Pay, Tally, Signal, Notify, Asks, StartGame,
          GiveAnswer, Playing, AnswerSteps, Answering
    <3>2. /\ \E s \in {"enter", "emplace", "added", "idle"} :
               pc' = [pc EXCEPT ![p] = s]
          /\ UNCHANGED gamePlayingThread
      BY <3>1 DEF Emplace, AddPlayer, PlayerAdded, EnterRoom, Goto
    <3>3. \A q \in Phones : pc'[q] \notin Playing
      BY <2>2, <3>2
      DEF TypeOK, StepsOK, Sessions, Playing, AnswerSteps, Answering
    <3>4. QED
      BY <2>1, <2>2, <3>2, <3>3
  <2>3. QED
    BY <2>1, <2>2
<1>3. CASE FetchThread
  BY <1>3 DEF FetchThread, CollectQuestions, GameCreated, gameVars
<1>4. CASE GameThread \/ Timers
  <2>1. gamePlayingThread # "none"
    BY <1>4 DEF GameThread, BeginRound, OpenRound, TestFinished, CloseRound,
                NextRound, FinishGame, Timers, RoundTimeout, EndPause
  <2>2. questionCacheThread = "done" /\ questions # << >> /\ state # "NULL"
    BY <2>1 DEF TypeOK, FieldsOK
  <2>3. UNCHANGED <<questions, questionCacheThread>> /\ state' # "NULL"
    BY <1>4, <2>2
    DEF GameThread, BeginRound, OpenRound, TestFinished, CloseRound, NextRound,
        FinishGame, Timers, RoundTimeout, EndPause, gameVars
  <2>4. QED
    BY <2>2, <2>3
<1>5. CASE DataRace \/ UNCHANGED vars
  BY <1>5 DEF DataRace, vars, gameVars
<1>6. QED
  BY <1>1, <1>2, <1>3, <1>4, <1>5, Steps

\* Every step of the game thread, of the handlers and of the thread that
\* fetches the questions keeps state and round together.
LEMMA RoundsNext ==
  ASSUME OneBoard, TypeOK, LobbyOK, NullOK, RoundsOK, [Next]_vars
  PROVE  RoundsOK'
<1> USE DEF RoundsOK, gameVars
<1>1. ASSUME NEW b \in Boards, CreateGame(b) \/ BoardStep(b) PROVE RoundsOK'
  BY <1>1, BoardsOpen
<1>2. ASSUME NEW p \in Phones, PhoneStep(p) \/ Asks(p) PROVE RoundsOK'
  BY <1>2, PhonesLeave
<1>3. CASE FetchThread
  <2>1. state = "NULL" /\ gamePlayingThread = "none" /\ currQuestion = 0
    BY <1>3 DEF FetchThread, CollectQuestions, GameCreated, NullOK
  <2>2. /\ UNCHANGED <<gamePlayingThread, currQuestion>>
        /\ state' \in {"NULL", "CREATED"}
        /\ questions' \in Seq(Answers)
    BY <1>3, <2>1, FetchesAssumption
    DEF FetchThread, CollectQuestions, GameCreated, TypeOK, FieldsOK
  <2>3. Len(questions') \in Nat
    BY <2>2, LenProperties
  <2>4. QED
    BY <2>1, <2>2, <2>3
<1>4. CASE GameThread \/ Timers
  <2>1. currQuestion \in Nat /\ Len(questions) \in Nat /\ questions' = questions
    BY <1>4, LenProperties
    DEF TypeOK, FieldsOK, GameThread, BeginRound, OpenRound, TestFinished,
        CloseRound, NextRound, FinishGame, Timers, RoundTimeout, EndPause
  <2>2. state \in States
    BY DEF TypeOK, FieldsOK
  <2>3. CASE BeginRound
    BY <2>1, <2>3 DEF BeginRound, QuestionsLeft
  <2>4. CASE OpenRound
    BY <2>1, <2>4 DEF OpenRound
  <2>5. CASE TestFinished \/ RoundTimeout
    BY <2>1, <2>5 DEF TestFinished, RoundTimeout
  <2>6. CASE CloseRound \/ EndPause
    BY <2>1, <2>6 DEF CloseRound, EndPause
  <2>7. CASE NextRound
    BY <2>1, <2>7 DEF NextRound
  <2>8. CASE FinishGame
    BY <2>1, <2>8 DEF FinishGame, QuestionsLeft
  <2>9. QED
    BY <1>4, <2>3, <2>4, <2>5, <2>6, <2>7, <2>8 DEF GameThread, Timers
<1>5. CASE DataRace \/ UNCHANGED vars
  BY <1>5 DEF DataRace, vars
<1>6. QED
  BY <1>1, <1>2, <1>3, <1>4, <1>5, Steps

\* The invariant of one game holds at the start.
LEMMA OneGameInit == Init => OneGameInv
<1> SUFFICES ASSUME Init PROVE NullOK /\ RoundsOK
  BY TypeInit, LobbyInit DEF OneGameInv
<1>1. NullOK
  BY DEF Init, NullOK, Playing, AnswerSteps, Answering, Sessions
<1>2. Len(questions) = 0
  BY EmptySeq DEF Init
<1>3. RoundsOK
  BY <1>2 DEF Init, RoundsOK
<1>4. QED
  BY <1>1, <1>3

\* Every step keeps the invariant of one game.
LEMMA OneGameNext ==
  ASSUME OneBoard
  PROVE  OneGameInv /\ [Next]_vars => OneGameInv'
  BY TypeNext, LobbyNext, NullNext, RoundsNext DEF OneGameInv

\* In each state that is a round or its pause the question index is that of a
\* question (QuestionInBounds), for any number of io threads, however often the
\* start button is pressed and however late answers are.  It is a statement
\* about the two fields: what a thread reads in one state and the next is the
\* subject of Broadcast.
THEOREM RoundHasQuestion ==
  ASSUME OneBoard
  PROVE  Spec => []QuestionInBounds
<1>1. OneGameInv => QuestionInBounds
  BY DEF OneGameInv, RoundsOK, QuestionInBounds
<1>2. QED
  BY <1>1, OneGameInit, OneGameNext, PTL DEF Spec

-------------------------------------------------------------------------------
(* Each question is answered at most once by a player, and in order.  That   *)
(* other handlers write to the vector between find_if and the writes of      *)
(* gaveAnswer, or move it, does not matter, because only the handler of a    *)
(* player's own session adds to the player's answers, and a moved player is  *)
(* out of its iterator's reach.                                              *)

\* The answers of p are in order, and to questions up to q.
InTime(p, q) ==
  /\ OnceEach(p)
  /\ \A k \in DOMAIN p.answersGiven : p.answersGiven[k].question <= q

AllInTime(v) == \A k \in DOMAIN v : InTime(v[k], currQuestion)

\* ... in the vector and in what emplace_back may move from.
AnswersInTime ==
  IdsDistinct => AllInTime(players) /\ \A p \in Phones : AllInTime(vector[p])

\* A session has no id before addPlayer returns it.
NoIdYet ==
  \A p \in Phones :
    pc[p] \in {"connected", "enter", "emplace", "added"} => playerID[p] = NoId

AskedInTime == \A p \in Phones : pc[p] \in Answering => asked[p] <= currQuestion

\* An iterator that is good for anything points at the session's player, ...
IteratorsOK ==
  fault = "none" =>
    \A p \in Phones : spot[p] \in DOMAIN players => players[spot[p]].id = playerID[p]

\* ... who has not answered a later question, nor, once the guards are passed,
\* the same.
EntryIsNext ==
  fault = "none" /\ IdsDistinct =>
    \A p \in Phones : spot[p] \in DOMAIN players =>
      \A k \in DOMAIN players[spot[p]].answersGiven :
        /\ pc[p] = "guard" => players[spot[p]].answersGiven[k].question <= asked[p]
        /\ pc[p] = "record" => players[spot[p]].answersGiven[k].question < asked[p]

OrderInv ==
  /\ OneGameInv
  /\ NoIdYet
  /\ AskedInTime
  /\ IteratorsOK
  /\ EntryIsNext
  /\ AnswersInTime

\* In one game the question index only grows.
LEMMA QuestionGrows ==
  ASSUME OneBoard, OneGameInv, [Next]_vars
  PROVE  /\ currQuestion \in Nat /\ currQuestion' \in Nat
         /\ currQuestion <= currQuestion'
<1> USE DEF OneGameInv
<1>1. currQuestion \in Nat
  BY DEF TypeOK, FieldsOK
<1>2. ASSUME NEW b \in Boards, CreateGame(b) PROVE currQuestion' = currQuestion
  BY <1>2, BoardsOpen
<1>3. QED
  BY <1>1, <1>2, WhoChangesQuestion DEF NextRound

\* Each step of a phone's handler takes it elsewhere.
LEMMA HandlersMove ==
  ASSUME TypeOK, NEW p \in Phones, PhoneStep(p) \/ Asks(p)
  PROVE  pc'[p] # pc[p]
<1> USE DEF TypeOK, StepsOK, Sessions, Goto
<1>1. CASE Emplace(p) \/ AddPlayer(p) \/ PlayerAdded(p)
  BY <1>1 DEF Emplace, AddPlayer, PlayerAdded
<1>2. CASE CheckGameThread(p) \/ JoinGameThread(p) \/ SpawnGameThread(p)
  BY <1>2 DEF CheckGameThread, JoinGameThread, SpawnGameThread
<1>3. CASE Find(p) \/ Guard(p)
  BY <1>3 DEF Find, Guard, EndAnswer
<1>4. CASE Record(p) \/ Count(p) \/ Pay(p)
  BY <1>4 DEF Record, Count, Pay, EndAnswer
<1>5. CASE Tally(p) \/ Signal(p) \/ Notify(p)
  BY <1>5 DEF Tally, Signal, Notify
<1>6. CASE Asks(p)
  BY <1>6 DEF Asks, EnterRoom, StartGame, GiveAnswer
<1>7. QED
  BY <1>1, <1>2, <1>3, <1>4, <1>5, <1>6 DEF PhoneStep

\* The local variables of other handlers are left alone, but for the iterators
\* that a move of the vector makes useless.
LEMMA OthersLocals ==
  ASSUME TypeOK, NEW p \in Phones, NEW q \in Phones, p # q, PhoneStep(q) \/ Asks(q)
  PROVE  /\ asked'[p] = asked[p] /\ choice'[p] = choice[p] /\ correct'[p] = correct[p]
         /\ gameID'[p] = gameID[p] /\ playerID'[p] = playerID[p]
         /\ newID'[p] = newID[p] /\ vector'[p] = vector[p]
         /\ spot'[p] = spot[p] \/ spot'[p] = 0
<1> USE DEF TypeOK, LocalsOK, joinVars, answerVars, localVars
<1>1. CASE Emplace(q) \/ AddPlayer(q) \/ PlayerAdded(q)
  BY <1>1 DEF Emplace, AddPlayer, PlayerAdded
<1>2. CASE CheckGameThread(q) \/ JoinGameThread(q) \/ SpawnGameThread(q)
  BY <1>2 DEF CheckGameThread, JoinGameThread, SpawnGameThread
<1>3. CASE Find(q)
  BY <1>3 DEF Find
<1>4. CASE Guard(q)
  BY <1>4 DEF Guard, EndAnswer
<1>5. CASE Record(q) \/ Count(q) \/ Pay(q)
  BY <1>5 DEF Record, Count, Pay, Write, EndAnswer
<1>6. CASE Tally(q) \/ Signal(q) \/ Notify(q)
  BY <1>6 DEF Tally, Signal, Notify
<1>7. CASE Asks(q)
  BY <1>7 DEF Asks, EnterRoom, StartGame, GiveAnswer
<1>8. QED
  BY <1>1, <1>2, <1>3, <1>4, <1>5, <1>6, <1>7 DEF PhoneStep

\* The local variables of a handler change only when it moves.
LEMMA OwnLocals ==
  ASSUME TypeOK, [Next]_vars, NEW p \in Phones, pc'[p] = pc[p]
  PROVE  /\ asked'[p] = asked[p] /\ choice'[p] = choice[p] /\ correct'[p] = correct[p]
         /\ gameID'[p] = gameID[p] /\ playerID'[p] = playerID[p]
         /\ newID'[p] = newID[p] /\ vector'[p] = vector[p]
         /\ spot'[p] = spot[p] \/ spot'[p] = 0
<1>1. ASSUME NEW b \in Boards, CreateGame(b) \/ BoardStep(b) PROVE UNCHANGED localVars
  BY <1>1, PhonesStay
<1>2. ASSUME FetchThread \/ GameThread \/ Timers \/ DataRace \/ UNCHANGED vars
      PROVE  UNCHANGED localVars
  BY <1>2, OtherThreads DEF Timers
<1>3. CASE UNCHANGED localVars
  BY <1>3 DEF localVars, joinVars, answerVars
<1>4. ASSUME NEW q \in Phones, PhoneStep(q) \/ Asks(q) PROVE q # p
  BY <1>4, HandlersMove
<1>5. QED
  BY <1>1, <1>2, <1>3, <1>4, OthersLocals, Steps

\* A program that is in order was so before.
LEMMA FaultStays ==
  ASSUME [Next]_vars, fault' = "none"
  PROVE  fault = "none"
  BY DEF Next, vars

\* Nobody is given an id but by addPlayer's return.
LEMMA NoIdYetNext ==
  ASSUME TypeOK, NoIdYet, [Next]_vars
  PROVE  NoIdYet'
<1> SUFFICES ASSUME NEW p \in Phones,
                    pc'[p] \in {"connected", "enter", "emplace", "added"}
             PROVE  playerID'[p] = NoId
  BY DEF NoIdYet
<1>1. CASE pc'[p] = pc[p]
  BY <1>1, OwnLocals DEF NoIdYet
<1>2. CASE pc'[p] # pc[p]
  <2>1. pc'[p] # "connected"
    BY <1>2, PhonesMoveThemselves
    DEF PhoneStep, Emplace, AddPlayer, PlayerAdded, CheckGameThread,
        JoinGameThread, SpawnGameThread, Find, Guard, Record, Count, Pay, Tally,
        Signal, Notify, EndAnswer, StartGame, EnterRoom, GiveAnswer, Goto,
        TypeOK, StepsOK, Sessions
  <2>2. \/ Emplace(p) \/ AddPlayer(p)
        \/ \E room \in Rooms \cup {NoId} : EnterRoom(p, room)
    BY <1>2, <2>1, Arrivals
  <2>3. pc[p] \in {"connected", "enter", "emplace"} /\ playerID' = playerID
    BY <2>2 DEF Emplace, AddPlayer, EnterRoom
  <2>4. QED
    BY <2>3 DEF NoIdYet
<1>3. QED
  BY <1>1, <1>2

\* Only addPlayer's return changes the id of a session.
LEMMA WhoGetsId ==
  ASSUME TypeOK, [Next]_vars, NEW p \in Phones, playerID'[p] # playerID[p]
  PROVE  PlayerAdded(p)
<1>1. pc'[p] # pc[p]
  BY OwnLocals
<1>2. \/ PhoneStep(p) \/ StartGame(p)
      \/ \E room \in Rooms \cup {NoId} : EnterRoom(p, room)
      \/ \E a \in Answers : GiveAnswer(p, a)
  BY <1>1, PhonesMoveThemselves
<1> USE DEF joinVars, localVars
<1>3. ASSUME Emplace(p) \/ AddPlayer(p) PROVE FALSE
  BY <1>3 DEF Emplace, AddPlayer
<1>4. ASSUME CheckGameThread(p) \/ JoinGameThread(p) \/ SpawnGameThread(p) PROVE FALSE
  BY <1>4 DEF CheckGameThread, JoinGameThread, SpawnGameThread
<1>5. ASSUME Find(p) \/ Guard(p) PROVE FALSE
  BY <1>5 DEF Find, Guard
<1>6. ASSUME Record(p) \/ Count(p) \/ Pay(p) PROVE FALSE
  BY <1>6 DEF Record, Count, Pay, Write
<1>7. ASSUME Tally(p) \/ Signal(p) \/ Notify(p) PROVE FALSE
  BY <1>7 DEF Tally, Signal, Notify
<1>8. ASSUME \/ StartGame(p)
             \/ \E room \in Rooms \cup {NoId} : EnterRoom(p, room)
             \/ \E a \in Answers : GiveAnswer(p, a)
      PROVE  FALSE
  BY <1>8 DEF StartGame, EnterRoom, GiveAnswer
<1>9. QED
  BY <1>2, <1>3, <1>4, <1>5, <1>6, <1>7, <1>8 DEF PhoneStep

\* Two sessions with the same id keep it.
LEMMA IdsWereDistinct ==
  ASSUME TypeOK, NoIdYet, [Next]_vars, IdsDistinct'
  PROVE  IdsDistinct
<1> SUFFICES ASSUME NEW p \in Phones, NEW q \in Phones, p # q, playerID[p] # NoId,
                    playerID[p] = playerID[q]
             PROVE  FALSE
  BY DEF IdsDistinct
<1>1. ASSUME NEW r \in Phones, playerID[r] # NoId PROVE playerID'[r] = playerID[r]
  <2>1. ~PlayerAdded(r)
    BY <1>1 DEF PlayerAdded, NoIdYet
  <2>2. QED
    BY <2>1, WhoGetsId
<1>2. QED
  BY <1>1 DEF IdsDistinct

\* The question an answer is to was asked.
LEMMA AskedInTimeNext ==
  ASSUME OneBoard, OneGameInv, AskedInTime, [Next]_vars
  PROVE  AskedInTime'
<1> SUFFICES ASSUME NEW p \in Phones, pc'[p] \in Answering
             PROVE  asked'[p] <= currQuestion'
  BY DEF AskedInTime
<1> USE DEF OneGameInv
<1>1. /\ currQuestion \in Nat /\ currQuestion' \in Nat
      /\ currQuestion <= currQuestion'
      /\ asked[p] \in Nat
  BY QuestionGrows DEF TypeOK, LocalsOK
<1>2. CASE pc'[p] = pc[p]
  BY <1>1, <1>2, OwnLocals DEF AskedInTime
<1>3. CASE pc'[p] # pc[p] /\ pc'[p] = "guard"
  <2>1. Find(p)
    BY <1>3, Arrivals
  <2>2. QED
    BY <1>1, <2>1 DEF Find, TypeOK, LocalsOK
<1>4. CASE pc'[p] # pc[p] /\ pc'[p] = "record"
  <2>1. Guard(p) /\ asked[p] <= currQuestion
    BY <1>4, Arrivals DEF Guard, AskedInTime, Answering
  <2>2. ~EndAnswer(p)
    BY <1>4 DEF EndAnswer, Goto, TypeOK, StepsOK, Sessions
  <2>3. PICK q \in {asked[p], currQuestion} : asked' = [asked EXCEPT ![p] = q]
    BY <2>1, <2>2 DEF Guard
  <2>4. asked'[p] = q
    BY <2>3 DEF TypeOK, LocalsOK
  <2>5. QED
    BY <1>1, <2>1, <2>3, <2>4
<1>5. CASE pc'[p] # pc[p] /\ pc'[p] \in {"count", "pay"}
  <2>1. Record(p) \/ Count(p)
    BY <1>5, Arrivals
  <2>2. asked' = asked /\ asked[p] <= currQuestion
    BY <2>1 DEF Record, Count, answerVars, AskedInTime, Answering
  <2>3. QED
    BY <1>1, <2>2
<1>6. QED
  BY <1>2, <1>3, <1>4, <1>5 DEF Answering

\* As long as a handler stays where it is, its iterator stays good only for the
\* same player, whose answers are added to by nobody but a handler with an
\* iterator to the same player.
LEMMA IteratorsStay ==
  ASSUME TypeOK, [Next]_vars, fault' = "none", NEW p \in Phones, pc'[p] = pc[p],
         spot'[p] \in DOMAIN players'
  PROVE  /\ spot'[p] = spot[p] /\ spot[p] \in DOMAIN players
         /\ players'[spot[p]].id = players[spot[p]].id
         /\ \/ players'[spot[p]].answersGiven = players[spot[p]].answersGiven
            \/ \E q \in Phones \ {p} : Record(q) /\ spot[q] = spot[p]
<1> DEFINE k == spot[p]
<1>1. spot'[p] = k
  <2>1. players' \in Seq(PlayerRecord)
    BY TypeNext DEF TypeOK, FieldsOK
  <2>2. 0 \notin DOMAIN players'
    BY <2>1, LenProperties
  <2>3. QED
    BY <2>2, OwnLocals
<1> HIDE DEF k
<1>2. ASSUME UNCHANGED players
      PROVE  /\ k \in DOMAIN players
             /\ players'[k].id = players[k].id
             /\ players'[k].answersGiven = players[k].answersGiven
  BY <1>1, <1>2
<1>3. ASSUME NEW b \in Boards, CreateGame(b) PROVE FALSE
  BY <1>3, EmptySeq DEF CreateGame
<1>4. ASSUME NEW q \in Phones, Emplace(q) PROVE UNCHANGED players
  BY <1>4 DEF Emplace, gameVars
<1>5. ASSUME NEW q \in Phones, AddPlayer(q)
      PROVE  /\ k \in DOMAIN players
             /\ players'[k].id = players[k].id
             /\ players'[k].answersGiven = players[k].answersGiven
  <2>1. CASE spot' = [r \in Phones |-> 0]
    <3>1. k = 0
      BY <1>1, <2>1
    <3>2. players' \in Seq(PlayerRecord)
      BY TypeNext DEF TypeOK, FieldsOK
    <3>3. QED
      BY <1>1, <3>1, <3>2, LenProperties
  <2>2. CASE spot' # [r \in Phones |-> 0]
    <3>1. /\ players' = Append(players, NewPlayer(newID[q]))
          /\ fault' = IF \E r \in Phones : spot[r] > Len(players) THEN "race" ELSE fault
      BY <1>5, <2>2 DEF AddPlayer
    <3>2. ~(k > Len(players))
      BY <3>1 DEF k
    <3>3. players \in Seq(PlayerRecord) /\ NewPlayer(newID[q]) \in PlayerRecord
      BY <1>5, AddedPlayers, NewPlayerType DEF TypeOK, FieldsOK
    <3>4. /\ Len(players) \in Nat
          /\ DOMAIN players = 1..Len(players)
          /\ DOMAIN players' = 1..(Len(players) + 1)
          /\ \A j \in 1..Len(players) : players'[j] = players[j]
      BY <3>1, <3>3, AppendProperties, LenProperties
    <3>5. k \in 1..Len(players)
      BY <1>1, <3>2, <3>4
    <3>6. QED
      BY <3>4, <3>5
  <2>3. QED
    BY <2>1, <2>2
<1>6. ASSUME NEW q \in Phones, Record(q) \/ Count(q) \/ Pay(q)
      PROVE  /\ k \in DOMAIN players
             /\ players'[k].id = players[k].id
             /\ \/ players'[k].answersGiven = players[k].answersGiven
                \/ \E r \in Phones \ {p} : Record(r) /\ spot[r] = k
  <2>1. q # p
    BY <1>6, HandlersMove DEF PhoneStep
  <2>2. /\ k \in DOMAIN players
        /\ players[k] \in PlayerRecord
        /\ players'[k].id = players[k].id
        /\ k # spot[q] => players'[k] = players[k]
    BY <1>1, <1>6, AnsweredPlayers
  <2>3. ASSUME k = spot[q], ~Record(q)
        PROVE  players'[k].answersGiven = players[k].answersGiven
    <3>1. players'[k] = IF Count(q) THEN WithCount(players[k], asked[q])
                        ELSE Paid(players[k], correct[q])
      BY <1>6, <2>2, <2>3, AnsweredPlayers
    <3>2. QED
      BY <2>2, <3>1 DEF WithCount, Paid, PlayerRecord
  <2>4. QED
    BY <2>1, <2>2, <2>3
<1>7. QED
  BY <1>1, <1>2, <1>3, <1>4, <1>5, <1>6, WhoChangesPlayers DEF k

\* Iterators point at the sessions' own players.
LEMMA IteratorsNext ==
  ASSUME TypeOK, IteratorsOK, [Next]_vars
  PROVE  IteratorsOK'
<1> SUFFICES ASSUME fault' = "none", NEW p \in Phones, spot'[p] \in DOMAIN players'
             PROVE  players'[spot'[p]].id = playerID'[p]
  BY DEF IteratorsOK
<1>1. fault = "none"
  BY FaultStays
<1>2. CASE pc'[p] = pc[p]
  BY <1>1, <1>2, IteratorsStay, OwnLocals DEF IteratorsOK
<1>3. CASE pc'[p] # pc[p]
  <2>1. players' \in Seq(PlayerRecord) /\ pc'[p] \in Answering
    <3>1. TypeOK'
      BY TypeNext
    <3>2. players' \in Seq(PlayerRecord)
      BY <3>1 DEF TypeOK, FieldsOK
    <3>3. spot'[p] # 0
      BY <3>2, LenProperties
    <3>4. QED
      BY <3>1, <3>2, <3>3 DEF TypeOK, LocalsOK
  <2>2. CASE pc'[p] = "guard"
    <3>1. Find(p)
      BY <1>3, <2>2, Arrivals
    <3>2. /\ players' = players /\ playerID' = playerID
          /\ spot'[p] = IF playerID[p] \in CurrentIds THEN Position(playerID[p])
                        ELSE Len(players) + 1
      BY <3>1 DEF Find, gameVars, joinVars, TypeOK, LocalsOK
    <3>3. Len(players) + 1 \notin DOMAIN players
      BY LenProperties DEF TypeOK, FieldsOK
    <3>4. playerID[p] \in CurrentIds /\ spot'[p] = Position(playerID[p])
      BY <3>2, <3>3
    <3>5. QED
      BY <3>2, <3>4, PositionType
  <2>3. CASE pc'[p] = "record"
    <3>1. Guard(p)
      BY <1>3, <2>3, Arrivals
    <3>2. ~EndAnswer(p)
      BY <2>3 DEF EndAnswer, Goto, TypeOK, StepsOK, Sessions
    <3>3. UNCHANGED <<players, playerID, spot>>
      BY <3>1, <3>2 DEF Guard, gameVars, joinVars
    <3>4. QED
      BY <1>1, <3>3 DEF IteratorsOK
  <2>4. CASE pc'[p] \in {"count", "pay"}
    <3>1. Record(p) \/ Count(p)
      BY <1>3, <2>4, Arrivals
    <3>2. UNCHANGED <<playerID, spot>>
      BY <3>1 DEF Record, Count, Write, answerVars, joinVars
    <3>3. /\ DOMAIN players' = DOMAIN players
          /\ \A k \in DOMAIN players : players'[k].id = players[k].id
      BY <3>1, AnsweredPlayers
    <3>4. QED
      BY <1>1, <3>2, <3>3 DEF IteratorsOK
  <2>5. QED
    BY <2>1, <2>2, <2>3, <2>4 DEF Answering
<1>4. QED
  BY <1>2, <1>3

\* The questions of a player's answers are numbers.
LEMMA QuestionsAreNumbers ==
  ASSUME NEW p \in PlayerRecord
  PROVE  /\ DOMAIN p.answersGiven = 1..Len(p.answersGiven)
         /\ Len(p.answersGiven) \in Nat
         /\ \A k \in DOMAIN p.answersGiven : p.answersGiven[k].question \in Nat
<1>1. p.answersGiven \in Seq(Entry)
  BY DEF PlayerRecord
<1>2. DOMAIN p.answersGiven = 1..Len(p.answersGiven) /\ Len(p.answersGiven) \in Nat
  BY <1>1, LenProperties
<1>3. ASSUME NEW k \in DOMAIN p.answersGiven
      PROVE  p.answersGiven[k].question \in Nat
  <2>1. p.answersGiven[k] \in Entry
    BY <1>1, <1>2, ElementOfSeq
  <2>2. QED
    BY <2>1 DEF Entry
<1>4. QED
  BY <1>2, <1>3

\* The next entry of a player is to a question after those answered.
LEMMA EntryIsNextNext ==
  ASSUME OneBoard, OrderInv, [Next]_vars
  PROVE  EntryIsNext'
<1> USE DEF OrderInv, OneGameInv
<1> SUFFICES ASSUME fault' = "none", IdsDistinct', NEW p \in Phones,
                    spot'[p] \in DOMAIN players',
                    NEW k \in DOMAIN players'[spot'[p]].answersGiven
             PROVE  /\ pc'[p] = "guard" =>
                         players'[spot'[p]].answersGiven[k].question <= asked'[p]
                    /\ pc'[p] = "record" =>
                         players'[spot'[p]].answersGiven[k].question < asked'[p]
  BY DEF EntryIsNext
<1>1. fault = "none" /\ IdsDistinct
  BY FaultStays, IdsWereDistinct
<1>2. \A j \in DOMAIN players : players[j] \in PlayerRecord
  BY LenProperties, ElementOfSeq DEF TypeOK, FieldsOK
<1>3. CASE pc'[p] = pc[p]
  <2>1. ASSUME NEW q \in Phones \ {p}, Record(q), spot[q] = spot[p],
               spot[p] \in DOMAIN players
        PROVE  FALSE
    <3>1. playerID[q] = players[spot[p]].id /\ playerID[p] = players[spot[p]].id
      BY <1>1, <2>1 DEF IteratorsOK
    <3>2. playerID[p] # NoId
      BY <1>2, <2>1, <3>1, NoIdAssumption DEF PlayerRecord
    <3>3. QED
      BY <1>1, <2>1, <3>1, <3>2 DEF IdsDistinct
  <2>2. /\ spot'[p] = spot[p] /\ spot[p] \in DOMAIN players
        /\ players'[spot[p]].answersGiven = players[spot[p]].answersGiven
    BY <1>3, <2>1, IteratorsStay
  <2>3. asked'[p] = asked[p]
    BY <1>3, OwnLocals
  <2>4. QED
    BY <1>1, <1>3, <2>2, <2>3 DEF EntryIsNext
<1>4. CASE pc'[p] # pc[p] /\ pc'[p] = "guard"
  <2>1. Find(p)
    BY <1>4, Arrivals
  <2>2. players' = players /\ asked'[p] = currQuestion
    BY <2>1 DEF Find, gameVars, TypeOK, LocalsOK
  <2>3. InTime(players[spot'[p]], currQuestion)
    BY <1>1, <2>2 DEF AnswersInTime, AllInTime
  <2>4. QED
    BY <1>4, <2>2, <2>3 DEF InTime
<1>5. CASE pc'[p] # pc[p] /\ pc'[p] = "record"
  <2>1. Guard(p)
    BY <1>5, Arrivals
  <2>2. ~EndAnswer(p)
    BY <1>5 DEF EndAnswer, Goto, TypeOK, StepsOK, Sessions
  <2>3. /\ UNCHANGED <<players, spot>> /\ pc[p] = "guard"
        /\ \E q \in {asked[p], currQuestion} :
             /\ spot[p] \in DOMAIN players => ~Refused(players[spot[p]], q)
             /\ asked' = [asked EXCEPT ![p] = q]
    BY <2>1, <2>2 DEF Guard, gameVars
  <2>4. PICK q \in {asked[p], currQuestion} :
          ~Refused(players[spot[p]], q) /\ asked' = [asked EXCEPT ![p] = q]
    BY <2>3
  <2>5. asked'[p] = q /\ asked[p] \in Nat /\ currQuestion \in Nat
    BY <2>4 DEF TypeOK, FieldsOK, LocalsOK
  <2>6. asked[p] <= currQuestion
    BY <2>3 DEF AskedInTime, Answering
  <2>7. /\ players[spot[p]].answersGiven[k].question <= asked[p]
        /\ players[spot[p]].answersGiven[k].question # q
        /\ players[spot[p]].answersGiven[k].question \in Nat
    BY <1>1, <1>2, <2>3, <2>4, QuestionsAreNumbers DEF EntryIsNext, Refused, HasAnswered
  <2> HIDE DEF OrderInv
  <2>8. players[spot[p]].answersGiven[k].question < q
    BY <2>4, <2>5, <2>6, <2>7
  <2>9. QED
    BY <1>5, <2>3, <2>5, <2>8
<1>6. QED
  BY <1>3, <1>4, <1>5

\* What is in time stays so.
LEMMA StaysInTime ==
  ASSUME NEW v \in Seq(PlayerRecord), NEW m \in Nat, NEW n \in Nat, m <= n,
         \A k \in DOMAIN v : InTime(v[k], m)
  PROVE  \A k \in DOMAIN v : InTime(v[k], n)
<1> SUFFICES ASSUME NEW k \in DOMAIN v, NEW j \in DOMAIN v[k].answersGiven
             PROVE  v[k].answersGiven[j].question <= n
  BY DEF InTime
<1>1. v[k] \in PlayerRecord
  BY LenProperties, ElementOfSeq
<1>2. v[k].answersGiven[j].question \in Nat
  BY <1>1, QuestionsAreNumbers
<1>3. v[k].answersGiven[j].question <= m
  BY DEF InTime
<1>4. QED
  BY <1>2, <1>3

\* An entry to a later question keeps the answers in order.
LEMMA EntryInTime ==
  ASSUME NEW p \in PlayerRecord, NEW q \in Nat, NEW a \in Answers, NEW n \in Nat,
         InTime(p, n), q <= n,
         \A k \in DOMAIN p.answersGiven : p.answersGiven[k].question < q
  PROVE  InTime(WithEntry(p, q, a), n)
<1> DEFINE g == p.answersGiven
           e == [question |-> q, answer |-> a]
           h == WithEntry(p, q, a).answersGiven
<1>1. h = Append(g, e)
  BY EntryIsThere
<1>2. g \in Seq(Entry) /\ e \in Entry
  BY DEF PlayerRecord, Entry
<1>3. /\ DOMAIN g = 1..Len(g) /\ Len(g) \in Nat
      /\ DOMAIN h = 1..(Len(g) + 1)
      /\ \A k \in 1..Len(g) : h[k] = g[k]
      /\ h[Len(g) + 1] = e
  BY <1>1, <1>2, AppendProperties, LenProperties
<1>4. /\ \A k \in DOMAIN g : g[k].question < q /\ g[k].question <= n
      /\ \A j, k \in DOMAIN g : j < k => g[j].question < g[k].question
  BY DEF InTime, OnceEach
<1>5. e.question = q
  OBVIOUS
<1> HIDE DEF g, e, h
<1>6. \A k \in DOMAIN h : k \in DOMAIN g \/ k = Len(g) + 1
  BY <1>3
<1>7. ASSUME NEW j \in DOMAIN h, NEW k \in DOMAIN h, j < k
      PROVE  h[j].question < h[k].question
  <2>1. j \in DOMAIN g
    BY <1>3, <1>7
  <2>2. CASE k \in DOMAIN g
    BY <1>3, <1>4, <1>7, <2>1, <2>2
  <2>3. CASE k = Len(g) + 1
    BY <1>3, <1>4, <1>5, <2>1, <2>3
  <2>4. QED
    BY <1>6, <2>2, <2>3
<1>8. ASSUME NEW k \in DOMAIN h PROVE h[k].question <= n
  BY <1>3, <1>4, <1>5, <1>6
<1>9. QED
  BY <1>7, <1>8 DEF InTime, OnceEach, h

\* What counts is the list of answers.
LEMMA SameAnswers ==
  ASSUME NEW p, NEW r, NEW n, p.answersGiven = r.answersGiven, InTime(r, n)
  PROVE  InTime(p, n)
  BY DEF InTime, OnceEach

\* emplace_back leaves answers that are in time, whether it moves the players,
\* loses what was written meanwhile or not.
LEMMA AddedInTime ==
  ASSUME OneBoard, OrderInv, NEW p \in Phones, AddPlayer(p), IdsDistinct
  PROVE  \A k \in DOMAIN players' : InTime(players'[k], currQuestion)
<1> USE DEF OrderInv, OneGameInv
<1> DEFINE new == NewPlayer(newID[p])
<1>1. AllInTime(players) /\ AllInTime(vector[p])
  BY DEF AnswersInTime
<1>2. new \in PlayerRecord
  BY AddedPlayers, NewPlayerType
<1>3. InTime(new, currQuestion)
  BY EmptySeq DEF NewPlayer, InTime, OnceEach
<1> HIDE DEF new
<1>4. ASSUME NEW w \in Moved(vector[p])
      PROVE  w \in Seq(PlayerRecord) /\ \A k \in DOMAIN w : InTime(w[k], currQuestion)
  <2>1. /\ w \in Seq(PlayerRecord)
        /\ DOMAIN w = DOMAIN vector[p]
        /\ \A k \in DOMAIN w :
             \/ w[k].answersGiven = vector[p][k].answersGiven
             \/ k \in DOMAIN players /\ w[k].answersGiven = players[k].answersGiven
    BY MovedType
  <2>2. ASSUME NEW k \in DOMAIN w PROVE InTime(w[k], currQuestion)
    <3>1. CASE w[k].answersGiven = vector[p][k].answersGiven
      <4>1. InTime(vector[p][k], currQuestion)
        BY <1>1, <2>1, <2>2 DEF AllInTime
      <4>2. QED
        BY <3>1, <4>1, SameAnswers
    <3>2. CASE k \in DOMAIN players /\ w[k].answersGiven = players[k].answersGiven
      <4>1. InTime(players[k], currQuestion)
        BY <1>1, <3>2 DEF AllInTime
      <4>2. QED
        BY <3>2, <4>1, SameAnswers
    <3>3. QED
      BY <2>1, <2>2, <3>1, <3>2
  <2>3. QED
    BY <2>1, <2>2
<1>5. PICK w : /\ players' = Append(w, new)
               /\ w \in Seq(PlayerRecord)
               /\ \A k \in DOMAIN w : InTime(w[k], currQuestion)
  <2>1. CASE players' = Append(players, new)
    BY <1>1, <2>1 DEF AllInTime, TypeOK, FieldsOK
  <2>2. CASE \E w \in Moved(vector[p]) : players' = Append(w, new)
    BY <1>4, <2>2
  <2>3. QED
    BY <2>1, <2>2, AddedPlayers DEF new
<1>6. /\ DOMAIN w = 1..Len(w) /\ Len(w) \in Nat
      /\ DOMAIN players' = 1..(Len(w) + 1)
      /\ \A k \in 1..Len(w) : players'[k] = w[k]
      /\ players'[Len(w) + 1] = new
  BY <1>2, <1>5, AppendProperties, LenProperties
<1>7. ASSUME NEW k \in DOMAIN players' PROVE InTime(players'[k], currQuestion)
  <2>1. k \in 1..Len(w) \/ k = Len(w) + 1
    BY <1>6, <1>7
  <2>2. QED
    BY <1>3, <1>5, <1>6, <2>1
<1>8. QED
  BY <1>7

\* Nor do the writes of gaveAnswer put an answer out of order.
LEMMA WrittenInTime ==
  ASSUME OneBoard, OrderInv, NEW p \in Phones, Record(p) \/ Count(p) \/ Pay(p),
         IdsDistinct, fault = "none"
  PROVE  \A k \in DOMAIN players' : InTime(players'[k], currQuestion)
<1> USE DEF OrderInv, OneGameInv
<1> SUFFICES ASSUME NEW k \in DOMAIN players' PROVE InTime(players'[k], currQuestion)
  OBVIOUS
<1>1. /\ k \in DOMAIN players
      /\ players[k] \in PlayerRecord
      /\ k # spot[p] => players'[k] = players[k]
      /\ k = spot[p] =>
           players'[k] =
             IF Record(p) THEN WithEntry(players[k], asked[p], choice[p])
             ELSE IF Count(p) THEN WithCount(players[k], asked[p])
             ELSE Paid(players[k], correct[p])
  BY AnsweredPlayers
<1>2. InTime(players[k], currQuestion)
  BY <1>1 DEF AnswersInTime, AllInTime
<1>3. CASE k = spot[p] /\ Record(p)
  <2>1. asked[p] \in Nat /\ choice[p] \in Answers /\ currQuestion \in Nat
    BY <1>3 DEF Record, TypeOK, FieldsOK, LocalsOK
  <2>2. asked[p] <= currQuestion
    BY <1>3 DEF Record, AskedInTime, Answering
  <2>3. \A j \in DOMAIN players[k].answersGiven :
          players[k].answersGiven[j].question < asked[p]
    BY <1>1, <1>3 DEF Record, EntryIsNext
  <2>4. players'[k] = WithEntry(players[k], asked[p], choice[p])
    BY <1>1, <1>3
  <2>5. QED
    BY <1>1, <1>2, <2>1, <2>2, <2>3, <2>4, EntryInTime
<1>4. CASE k = spot[p] /\ ~Record(p)
  <2>1. players'[k].answersGiven = players[k].answersGiven
    BY <1>1, <1>4 DEF WithCount, Paid, PlayerRecord
  <2>2. QED
    BY <1>2, <2>1, SameAnswers
<1>5. QED
  BY <1>1, <1>2, <1>3, <1>4

\* Every step keeps the answers in time.
LEMMA AnswersInTimeNext ==
  ASSUME OneBoard, OrderInv, [Next]_vars
  PROVE  AnswersInTime'
<1> SUFFICES ASSUME IdsDistinct'
             PROVE  /\ AllInTime(players)'
                    /\ \A p \in Phones : AllInTime(vector[p])'
  BY DEF AnswersInTime
<1> USE DEF OrderInv, OneGameInv
<1>1. IdsDistinct
  BY IdsWereDistinct
<1>2. AllInTime(players) /\ \A p \in Phones : AllInTime(vector[p])
  BY <1>1 DEF AnswersInTime
<1>3. /\ currQuestion \in Nat /\ currQuestion' \in Nat /\ currQuestion <= currQuestion'
      /\ players \in Seq(PlayerRecord)
      /\ \A p \in Phones : vector[p] \in Seq(PlayerRecord)
  BY QuestionGrows DEF TypeOK, FieldsOK, LocalsOK
<1>4. /\ \A k \in DOMAIN players : InTime(players[k], currQuestion')
      /\ \A p \in Phones : \A k \in DOMAIN vector[p] : InTime(vector[p][k], currQuestion')
  BY <1>2, <1>3, StaysInTime DEF AllInTime
<1>5. CASE UNCHANGED <<players, vector>>
  BY <1>4, <1>5 DEF AllInTime
<1>6. ASSUME NEW b \in Boards, CreateGame(b)
      PROVE  players' = << >> /\ vector' = vector
  BY <1>6 DEF CreateGame, localVars, joinVars
<1>7. CASE \E b \in Boards : CreateGame(b)
  BY <1>4, <1>6, <1>7, EmptySeq DEF AllInTime
<1>8. ASSUME NEW p \in Phones, Emplace(p) PROVE UNCHANGED players /\ vector' = [vector EXCEPT ![p] = players]
  BY <1>8 DEF Emplace, gameVars
<1>9. CASE \E p \in Phones : Emplace(p)
  <2>1. PICK p \in Phones : Emplace(p)
    BY <1>9
  <2>2. \A q \in Phones : vector'[q] = players \/ vector'[q] = vector[q]
    BY <1>8, <2>1 DEF TypeOK, LocalsOK
  <2>3. QED
    BY <1>4, <1>8, <2>1, <2>2 DEF AllInTime
<1>10. ASSUME NEW p \in Phones, AddPlayer(p)
       PROVE  AllInTime(players)' /\ \A q \in Phones : AllInTime(vector[q])'
  <2>1. currQuestion' = currQuestion /\ vector' = [vector EXCEPT ![p] = << >>]
    BY <1>10 DEF AddPlayer
  <2>2. \A q \in Phones : vector'[q] = << >> \/ vector'[q] = vector[q]
    BY <2>1 DEF TypeOK, LocalsOK
  <2>3. \A k \in DOMAIN players' : InTime(players'[k], currQuestion)
    BY <1>1, <1>10, AddedInTime
  <2>4. QED
    BY <1>4, <2>1, <2>2, <2>3, EmptySeq DEF AllInTime
<1>11. ASSUME NEW p \in Phones, Record(p) \/ Count(p) \/ Pay(p), fault = "none"
       PROVE  AllInTime(players)' /\ \A q \in Phones : AllInTime(vector[q])'
  <2>1. currQuestion' = currQuestion /\ vector' = vector
    BY <1>11 DEF Record, Count, Pay, Write, joinVars
  <2>2. \A k \in DOMAIN players' : InTime(players'[k], currQuestion)
    BY <1>1, <1>11, WrittenInTime
  <2>3. QED
    BY <1>4, <2>1, <2>2 DEF AllInTime
<1>12. fault = "none" \/ UNCHANGED <<players, vector>>
  BY DEF Next, vars, gameVars, localVars, joinVars
<1>13. QED
  BY <1>5, <1>7, <1>9, <1>10, <1>11, <1>12, WhoChangesPlayers

\* Nobody has answered yet.
LEMMA OrderInit == Init => OrderInv
<1> SUFFICES ASSUME Init
             PROVE  /\ NoIdYet /\ AskedInTime /\ IteratorsOK /\ EntryIsNext
                    /\ AnswersInTime
  BY OneGameInit DEF OrderInv
<1>1. /\ players = << >> /\ DOMAIN << >> = {}
      /\ \A p \in Phones : vector[p] = << >> /\ playerID[p] = NoId
      /\ \A p \in Phones : pc[p] = "connected"
  BY DEF Init, Sessions
<1>2. QED
  BY <1>1 DEF NoIdYet, AskedInTime, Answering, IteratorsOK, EntryIsNext,
              AnswersInTime, AllInTime

\* Every step keeps the invariant.
LEMMA OrderNext ==
  ASSUME OneBoard
  PROVE  OrderInv /\ [Next]_vars => OrderInv'
<1> SUFFICES ASSUME OrderInv, [Next]_vars PROVE OrderInv'
  OBVIOUS
<1>1. OneGameInv /\ OneGameInv' /\ TypeOK
  BY OneGameNext DEF OrderInv, OneGameInv
<1>2. NoIdYet' /\ AskedInTime' /\ IteratorsOK'
  BY <1>1, NoIdYetNext, AskedInTimeNext, IteratorsNext DEF OrderInv
<1>3. EntryIsNext' /\ AnswersInTime'
  BY EntryIsNextNext, AnswersInTimeNext
<1>4. QED
  BY <1>1, <1>2, <1>3 DEF OrderInv

\* Players have at most one answer to each question, in the order asked
\* (AnswersInOrder), for any number of phones, io threads and questions: when
\* answers are late, when a button is clicked twice, when joins move the vector
\* between find_if and the writes of gaveAnswer, and when what was written is
\* lost in the move.  Only two players with the same id may answer twice.
THEOREM PlayersAnswerInOrder ==
  ASSUME OneBoard
  PROVE  Spec => []AnswersInOrder
<1>1. OrderInv => AnswersInOrder
  BY DEF OrderInv, AnswersInTime, AllInTime, InTime, AnswersInOrder
<1>2. QED
  BY <1>1, OrderInit, OrderNext, PTL DEF Spec

-------------------------------------------------------------------------------
(* Scores, with one io thread.  The answers counted are to questions that    *)
(* were asked, so that what is right about them does not change when the     *)
(* list of questions does; and while gaveAnswer is between its first and its *)
(* last write, the points of a right answer are still to come.               *)

\* An answer is under way only between the opening of its round and the end of
\* the pause after it.
AnswersInRound ==
  AnswerInFlight => gamePlayingThread \in {"test", "wait", "close", "sleep"}

\* One game, one handler, answers in their rounds.
HandlerInv == OneGameInv /\ AnswersInRound /\ RoundInv

\* The verdict that playerAnswered has reached is that of the question.
Judged ==
  \A p \in Phones :
    pc[p] \in Answering => correct[p] = (questions[currQuestion + 1] = choice[p])

\* The points for an answer of the k-th player are still to be written.
Pending(k) ==
  \E p \in Phones : pc[p] \in {"count", "pay"} /\ spot[p] = k /\ correct[p]

Scored(p, pending) ==
  /\ p.score + (IF pending THEN POINTS_FOR_CORRECT_ANSWER ELSE 0) =
       POINTS_FOR_CORRECT_ANSWER * Cardinality(Right(p))
  /\ \A k \in DOMAIN p.answersGiven : p.answersGiven[k].question < Len(questions)

ScoresOK == \A k \in DOMAIN players : Scored(players[k], Pending(k))

ScoreInv == HandlerInv /\ Judged /\ ScoresOK

\* The handler of an answer holds up the end of the pause.
LEMMA AnswersInRoundNext ==
  ASSUME PauseOutlastsAnswers, OneGameInv, AnswersInRound, [Next]_vars
  PROVE  AnswersInRound'
<1> DEFINE Round == {"test", "wait", "close", "sleep"}
<1> SUFFICES ASSUME AnswerInFlight' PROVE gamePlayingThread' \in Round
  BY DEF AnswersInRound
<1> USE DEF OneGameInv
<1>1. CASE ~AnswerInFlight
  <2>1. PICK p \in Phones, a \in Answers : GiveAnswer(p, a)
    BY <1>1, WhoAnswers
  <2>2. QED
    BY <2>1 DEF GiveAnswer, RoundsOK
<1>2. CASE AnswerInFlight
  <2>1. gamePlayingThread \in Round
    BY <1>2 DEF AnswersInRound
  <2>2. ASSUME NEW b \in Boards, CreateGame(b) \/ BoardStep(b)
        PROVE  UNCHANGED gamePlayingThread
    BY <2>2 DEF CreateGame, BoardStep, ResetGame, CheckFetchThread,
                JoinFetchThread, SpawnFetchThread
  <2>3. ASSUME NEW p \in Phones, PhoneStep(p) \/ Asks(p)
        PROVE  gamePlayingThread' \in Round
    BY <2>1, <2>3, PhonesLeave
  <2>4. ASSUME FetchThread \/ DataRace \/ UNCHANGED vars
        PROVE  UNCHANGED gamePlayingThread
    BY <2>4 DEF FetchThread, CollectQuestions, GameCreated, DataRace, vars
  <2>5. ASSUME GameThread \/ Timers PROVE gamePlayingThread' \in Round
    BY <1>2, <2>1, <2>5
    DEF GameThread, BeginRound, OpenRound, TestFinished, CloseRound, NextRound,
        FinishGame, Timers, RoundTimeout, EndPause
  <2>6. QED
    BY <2>1, <2>2, <2>3, <2>4, <2>5, Steps
<1>3. QED
  BY <1>1, <1>2

\* Before anything has happened.
LEMMA HandlerInit == Init => HandlerInv
<1> SUFFICES ASSUME Init PROVE AnswersInRound
  BY OneGameInit, RoundInvInit DEF HandlerInv
<1>1. QED
  BY DEF Init, AnswersInRound, AnswerInFlight, AnswerSteps, Answering, Sessions

\* Every step keeps one game, one handler and answers in their rounds.
LEMMA HandlerNext ==
  ASSUME NThreads = 1, OneBoard, PauseOutlastsAnswers
  PROVE  HandlerInv /\ [Next]_vars => HandlerInv'
  BY OneGameNext, AnswersInRoundNext, RoundInvNext DEF HandlerInv

\* The list of questions changes only before the game.
LEMMA QuestionsStay ==
  ASSUME OneBoard, OneGameInv, [Next]_vars, questions' # questions
  PROVE  /\ FetchThread /\ state = "NULL" /\ questions = << >>
         /\ \A p \in Phones : pc[p] \notin Playing
<1> USE DEF OneGameInv
<1>1. ASSUME NEW b \in Boards, CreateGame(b) \/ BoardStep(b) PROVE FALSE
  BY <1>1, BoardsOpen
<1>2. ASSUME NEW p \in Phones, PhoneStep(p) \/ Asks(p) PROVE FALSE
  BY <1>2, PhonesLeave
<1>3. ASSUME GameThread \/ Timers \/ DataRace \/ UNCHANGED vars PROVE FALSE
  BY <1>3
  DEF GameThread, BeginRound, OpenRound, TestFinished, CloseRound, NextRound,
      FinishGame, Timers, RoundTimeout, EndPause, DataRace, vars, gameVars
<1>4. FetchThread
  BY <1>1, <1>2, <1>3, Steps
<1>5. CollectQuestions
  BY <1>4 DEF FetchThread, GameCreated, gameVars
<1>6. QED
  BY <1>4, <1>5 DEF CollectQuestions, NullOK

\* While an answer is under way its question exists.
LEMMA QuestionIsThere ==
  ASSUME OneGameInv, AnswersInRound, AnswerInFlight
  PROVE  /\ currQuestion \in Nat /\ Len(questions) \in Nat
         /\ currQuestion < Len(questions)
         /\ currQuestion + 1 \in DOMAIN questions
<1>1. /\ currQuestion \in Nat /\ Len(questions) \in Nat
      /\ DOMAIN questions = 1..Len(questions)
  BY LenProperties DEF OneGameInv, TypeOK, FieldsOK
<1>2. currQuestion < Len(questions)
  BY DEF AnswersInRound, OneGameInv, RoundsOK
<1>3. QED
  BY <1>1, <1>2

\* An answer is judged by its question.
LEMMA JudgedNext ==
  ASSUME NThreads = 1, OneBoard, HandlerInv, Judged, [Next]_vars
  PROVE  Judged'
<1> SUFFICES ASSUME NEW p \in Phones, pc'[p] \in Answering
             PROVE  correct'[p] = (questions'[currQuestion' + 1] = choice'[p])
  BY DEF Judged
<1> USE DEF HandlerInv, OneGameInv
<1> DEFINE Right1 == questions[currQuestion + 1] = choice[p]
<1>1. pc[p] \in AnswerSteps
  <2>1. CASE pc'[p] = pc[p]
    BY <2>1 DEF AnswerSteps
  <2>2. CASE pc'[p] # pc[p]
    BY <2>2, Arrivals DEF Answering, AnswerSteps, Find, Guard, Record, Count
  <2>3. QED
    BY <2>1, <2>2
<1>2. AnswerInFlight
  BY <1>1 DEF AnswerInFlight
<1>3. currQuestion' = currQuestion
  BY <1>1, QuestionStays DEF RoundInv
<1>4. questions' = questions
  BY <1>1, QuestionsStay DEF Playing
<1>5. currQuestion + 1 \in DOMAIN questions
  BY <1>2, QuestionIsThere
<1>6. Verdict(choice[p]) = {Right1}
  BY <1>5 DEF Verdict
<1>7. CASE pc'[p] = pc[p]
  BY <1>3, <1>4, <1>7, OwnLocals DEF Judged
<1>8. CASE pc'[p] # pc[p] /\ pc'[p] = "guard"
  <2>1. Find(p)
    BY <1>8, Arrivals
  <2>2. correct'[p] = Right1 /\ choice' = choice
    BY <1>6, <2>1 DEF Find, TypeOK, LocalsOK
  <2>3. QED
    BY <1>3, <1>4, <2>2
<1>9. CASE pc'[p] # pc[p] /\ pc'[p] = "record"
  <2>1. Guard(p)
    BY <1>9, Arrivals
  <2>2. ~EndAnswer(p)
    BY <1>9 DEF EndAnswer, Goto, TypeOK, StepsOK, Sessions
  <2>3. correct[p] = Right1
    BY <2>1 DEF Guard, Judged, Answering
  <2>4. PICK c \in BOOLEAN : /\ c \in Verdict(choice[p]) \/ c = correct[p]
                             /\ correct' = [correct EXCEPT ![p] = c]
                             /\ choice' = choice
    BY <2>1, <2>2 DEF Guard
  <2>5. c = Right1
    BY <1>6, <2>3, <2>4
  <2>6. correct'[p] = c
    BY <2>4 DEF TypeOK, LocalsOK
  <2>7. QED
    BY <1>3, <1>4, <2>4, <2>5, <2>6
<1>10. CASE pc'[p] # pc[p] /\ pc'[p] \in {"count", "pay"}
  <2>1. Record(p) \/ Count(p)
    BY <1>10, Arrivals
  <2>2. UNCHANGED <<correct, choice>> /\ pc[p] \in Answering
    BY <2>1 DEF Record, Count, answerVars, Answering
  <2>3. QED
    BY <1>3, <1>4, <2>2 DEF Judged
<1>11. QED
  BY <1>7, <1>8, <1>9, <1>10 DEF Answering

\* The right answers of a player can be counted.
LEMMA RightIsFinite ==
  ASSUME NEW p \in PlayerRecord
  PROVE  IsFiniteSet(Right(p)) /\ Cardinality(Right(p)) \in Nat
<1>1. p.answersGiven \in Seq(Entry)
  BY DEF PlayerRecord
<1>2. DOMAIN p.answersGiven = 1..Len(p.answersGiven) /\ Len(p.answersGiven) \in Nat
  BY <1>1, LenProperties
<1>3. Right(p) \subseteq 1..Len(p.answersGiven)
  BY <1>2 DEF Right
<1>4. IsFiniteSet(Right(p))
  <2>1. IsFiniteSet(1..Len(p.answersGiven))
    BY <1>2, FS_Interval
  <2>2. QED
    BY <1>3, <2>1, FS_Subset
<1>5. QED
  BY <1>4, FS_CardinalityType

\* The entry of an answer that is right makes one more right answer, whose
\* points are pending.
LEMMA EntryScored ==
  ASSUME NEW p \in PlayerRecord, NEW a \in Answers, Scored(p, FALSE),
         currQuestion \in Nat, questions \in Seq(Answers),
         currQuestion < Len(questions)
  PROVE  Scored(WithEntry(p, currQuestion, a), questions[currQuestion + 1] = a)
<1> DEFINE g == p.answersGiven
           e == [question |-> currQuestion, answer |-> a]
           right == questions[currQuestion + 1] = a
           r == WithEntry(p, currQuestion, a)
<1>1. /\ r.score = p.score
      /\ r.answersGiven = Append(g, e)
  BY EntryIsThere
<1>2. g \in Seq(Entry) /\ e \in Entry
  BY DEF PlayerRecord, Entry
<1>3. /\ Len(g) \in Nat
      /\ DOMAIN g = 1..Len(g)
      /\ DOMAIN r.answersGiven = 1..(Len(g) + 1)
      /\ \A k \in 1..Len(g) : r.answersGiven[k] = g[k]
      /\ r.answersGiven[Len(g) + 1] = e
  BY <1>1, <1>2, AppendProperties, LenProperties
<1> HIDE DEF r
<1>4. \A k \in DOMAIN r.answersGiven : r.answersGiven[k].question < Len(questions)
  <2>1. e.question = currQuestion
    OBVIOUS
  <2>2. \A k \in 1..Len(g) : g[k].question < Len(questions)
    BY <1>3 DEF Scored
  <2> HIDE DEF g, e
  <2>3. \A k \in 1..(Len(g) + 1) : k \in 1..Len(g) \/ k = Len(g) + 1
    BY <1>3
  <2>4. QED
    BY <1>3, <2>1, <2>2, <2>3
<1>5. Right(r) = IF right THEN Right(p) \cup {Len(g) + 1} ELSE Right(p)
  <2>1. 1..(Len(g) + 1) = (1..Len(g)) \cup {Len(g) + 1}
    BY <1>3
  <2>2. /\ e.answer = a
        /\ e.question = currQuestion
    OBVIOUS
  <2>3. ASSUME NEW k \in 1..Len(g) PROVE k \in Right(r) <=> k \in Right(p)
    <3>1. k \in DOMAIN g /\ k \in DOMAIN r.answersGiven /\ r.answersGiven[k] = g[k]
      BY <1>3, <2>1
    <3>2. QED
      BY <3>1 DEF Right
  <2>4. Len(g) + 1 \in Right(r) <=> right
    BY <1>3, <2>2 DEF Right
  <2>5. Right(r) \subseteq 1..(Len(g) + 1) /\ Right(p) \subseteq 1..Len(g)
    BY <1>3 DEF Right
  <2> HIDE DEF right, g
  <2>6. ASSUME NEW k
        PROVE  k \in Right(r) <=> k \in Right(p) \/ (right /\ k = Len(g) + 1)
    <3>1. CASE k \in 1..Len(g)
      <4>1. k # Len(g) + 1
        BY <1>3, <3>1
      <4>2. QED
        BY <2>3, <3>1, <4>1
    <3>2. CASE k = Len(g) + 1
      <4>1. k \notin Right(p)
        BY <1>3, <2>5, <3>2
      <4>2. QED
        BY <2>4, <3>2, <4>1
    <3>3. CASE k \notin (1..Len(g)) \cup {Len(g) + 1}
      BY <2>1, <2>5, <3>3
    <3>4. QED
      BY <3>1, <3>2, <3>3
  <2>7. CASE right
    BY <2>6, <2>7
  <2>8. CASE ~right
    BY <2>6, <2>8
  <2>9. QED
    BY <2>7, <2>8
<1>6. Len(g) + 1 \notin Right(p)
  BY <1>3 DEF Right
<1>7. /\ Cardinality(Right(p)) \in Nat
      /\ Cardinality(Right(p) \cup {Len(g) + 1}) = Cardinality(Right(p)) + 1
  BY <1>6, RightIsFinite, FS_AddElement
<1>8. p.score = 10 * Cardinality(Right(p)) /\ p.score \in Nat
  BY DEF Scored, POINTS_FOR_CORRECT_ANSWER, PlayerRecord
<1> HIDE DEF g, right
<1>9. r.score + (IF right THEN 10 ELSE 0) = 10 * Cardinality(Right(r))
  <2>1. CASE right
    BY <1>1, <1>5, <1>7, <1>8, <2>1
  <2>2. CASE ~right
    BY <1>1, <1>5, <1>7, <1>8, <2>2
  <2>3. QED
    BY <2>1, <2>2
<1>10. Scored(r, right)
  BY <1>4, <1>9 DEF Scored, POINTS_FOR_CORRECT_ANSWER
<1>11. QED
  BY <1>10 DEF r, right

\* Counting the answer changes nothing about that, and paying it settles it.
LEMMA PaidScored ==
  ASSUME NEW p \in PlayerRecord, NEW c \in BOOLEAN, NEW q \in Nat, Scored(p, c)
  PROVE  Scored(WithCount(p, q), c) /\ Scored(Paid(p, c), FALSE)
<1>1. /\ WithCount(p, q).score = p.score
      /\ WithCount(p, q).answersGiven = p.answersGiven
      /\ Paid(p, c).answersGiven = p.answersGiven
      /\ Paid(p, c).score = IF c THEN p.score + POINTS_FOR_CORRECT_ANSWER ELSE p.score
  BY DEF WithCount, Paid, PlayerRecord
<1>2. Right(WithCount(p, q)) = Right(p) /\ Right(Paid(p, c)) = Right(p)
  BY <1>1 DEF Right
<1>3. p.score \in Nat
  BY DEF PlayerRecord
<1>4. QED
  BY <1>1, <1>2, <1>3 DEF Scored, POINTS_FOR_CORRECT_ANSWER

\* Who has not answered has no points, whatever the questions are.
LEMMA NothingScored ==
  ASSUME NEW p, p.score = 0, DOMAIN p.answersGiven = {}
  PROVE  Scored(p, FALSE)
<1>1. Right(p) = {}
  BY DEF Right
<1>2. Cardinality({}) = 0
  BY FS_EmptySet
<1>3. QED
  BY <1>1, <1>2 DEF Scored, POINTS_FOR_CORRECT_ANSWER

LEMMA NothingScoredNext ==
  ASSUME NEW p, p.score = 0, DOMAIN p.answersGiven = {}
  PROVE  Scored(p, FALSE)'
<1>1. Right(p)' = {}
  BY DEF Right
<1>2. Cardinality({}) = 0
  BY FS_EmptySet
<1>3. QED
  BY <1>1, <1>2 DEF Scored, POINTS_FOR_CORRECT_ANSWER

\* While a phone's handler runs, only its own answer can be pending.
LEMMA OnlyItsOwn ==
  ASSUME NThreads = 1, TypeOK, OneHandler, NEW p \in Phones, PhoneStep(p)
  PROVE  /\ \A k : Pending(k) <=>
              pc[p] \in {"count", "pay"} /\ spot[p] = k /\ correct[p]
         /\ \A k : Pending(k)' <=>
              pc'[p] \in {"count", "pay"} /\ spot'[p] = k /\ correct'[p]
<1>1. p \in Busy /\ p \in Sessions
  BY DEF PhoneStep, Emplace, AddPlayer, PlayerAdded, CheckGameThread,
         JoinGameThread, SpawnGameThread, Find, Guard, Record, Count, Pay,
         Tally, Signal, Notify, Busy, Sessions
<1>2. \A q \in Phones : q # p => pc[q] \notin {"count", "pay"}
  BY <1>1, NobodyElse DEF Busy, Sessions
<1>3. \E s : pc' = [pc EXCEPT ![p] = s]
  BY PhonesLeave
<1>4. \A q \in Phones : q # p => pc'[q] \notin {"count", "pay"}
  BY <1>2, <1>3 DEF TypeOK, StepsOK, Sessions
<1>5. QED
  BY <1>2, <1>4 DEF Pending

\* The writes of gaveAnswer keep the scores right.
LEMMA WrittenScores ==
  ASSUME NThreads = 1, OneBoard, ScoreInv, [Next]_vars, NEW p \in Phones,
         Record(p) \/ Count(p) \/ Pay(p)
  PROVE  ScoresOK'
<1> USE DEF ScoreInv, HandlerInv, OneGameInv
<1> SUFFICES ASSUME NEW k \in DOMAIN players' PROVE Scored(players[k], Pending(k))'
  BY DEF ScoresOK
<1>1. /\ k \in DOMAIN players
      /\ players[k] \in PlayerRecord
      /\ k # spot[p] => players'[k] = players[k]
      /\ k = spot[p] =>
           players'[k] =
             IF Record(p) THEN WithEntry(players[k], asked[p], choice[p])
             ELSE IF Count(p) THEN WithCount(players[k], asked[p])
             ELSE Paid(players[k], correct[p])
  BY AnsweredPlayers
<1>2. Scored(players[k], Pending(k))
  BY <1>1 DEF ScoresOK
<1>3. /\ pc[p] \in Answering /\ pc[p] \in AnswerSteps /\ pc[p] \in Playing
      /\ AnswerInFlight /\ PhoneStep(p)
  BY DEF Record, Count, Pay, Answering, AnswerSteps, Playing, AnswerInFlight, PhoneStep
<1>4. questions' = questions
  BY <1>3, QuestionsStay
<1>5. Right(players[k])' = Right(players'[k])
  BY <1>4 DEF Right
<1>6. ASSUME NEW y \in BOOLEAN, Scored(players'[k], y), Pending(k)' <=> y
      PROVE  Scored(players[k], Pending(k))'
  BY <1>4, <1>5, <1>6 DEF Scored
<1>7. asked[p] = currQuestion /\ asked[p] \in Nat /\ correct[p] \in BOOLEAN
  BY <1>3 DEF RoundInv, AskedIsCurrent, TypeOK, LocalsOK
<1>8. /\ Pending(k) <=> pc[p] \in {"count", "pay"} /\ spot[p] = k /\ correct[p]
      /\ Pending(k)' <=> pc'[p] \in {"count", "pay"} /\ spot'[p] = k /\ correct'[p]
  BY <1>3, OnlyItsOwn DEF RoundInv
<1>9. CASE k # spot[p]
  <2>1. ~Pending(k)
    BY <1>8, <1>9
  <2>2. ~Pending(k)'
    <3>1. CASE Pay(p)
      BY <1>8, <3>1 DEF Pay, EndAnswer, Goto, TypeOK, StepsOK, Sessions
    <3>2. CASE Record(p) \/ Count(p)
      BY <1>8, <1>9, <3>2 DEF Record, Count, answerVars
    <3>3. QED
      BY <3>1, <3>2
  <2>3. Scored(players[k], FALSE)
    BY <1>2, <2>1 DEF Scored
  <2>4. Scored(players'[k], FALSE)
    BY <1>1, <1>9, <2>3
  <2>5. QED
    BY <1>6, <2>2, <2>4
<1>10. CASE k = spot[p] /\ Record(p)
  <2>1. ~Pending(k)
    BY <1>8, <1>10 DEF Record
  <2>2. choice[p] \in Answers /\ questions \in Seq(Answers)
    BY <1>10 DEF Record, TypeOK, FieldsOK, LocalsOK
  <2>3. Scored(WithEntry(players[k], currQuestion, choice[p]),
               questions[currQuestion + 1] = choice[p])
    <3>1. Scored(players[k], FALSE)
      BY <1>2, <2>1 DEF Scored
    <3>2. currQuestion \in Nat /\ currQuestion < Len(questions)
      BY <1>3, QuestionIsThere
    <3>3. QED
      BY <1>1, <2>2, <3>1, <3>2, EntryScored
  <2>4. correct[p] = (questions[currQuestion + 1] = choice[p])
    BY <1>3 DEF Judged
  <2>5. Pending(k)' <=> correct[p]
    <3>1. pc'[p] = "count" /\ UNCHANGED <<spot, correct>>
      BY <1>10 DEF Record, Goto, answerVars, TypeOK, StepsOK, Sessions
    <3>2. QED
      BY <1>8, <1>10, <3>1
  <2>6. players'[k] = WithEntry(players[k], currQuestion, choice[p])
    BY <1>1, <1>7, <1>10
  <2>7. QED
    BY <1>6, <1>7, <2>3, <2>4, <2>5, <2>6
<1>11. CASE k = spot[p] /\ Count(p) /\ ~Record(p)
  <2>1. Pending(k) <=> correct[p]
    BY <1>8, <1>11 DEF Count
  <2>2. Pending(k)' <=> correct[p]
    <3>1. pc'[p] = "pay" /\ UNCHANGED <<spot, correct>>
      BY <1>11 DEF Count, Goto, answerVars, TypeOK, StepsOK, Sessions
    <3>2. QED
      BY <1>8, <1>11, <3>1
  <2>3. Scored(players[k], correct[p])
    BY <1>2, <2>1 DEF Scored
  <2>4. Scored(WithCount(players[k], asked[p]), correct[p])
    BY <1>1, <1>7, <2>3, PaidScored
  <2>5. QED
    BY <1>1, <1>6, <1>7, <1>11, <2>2, <2>4
<1>12. CASE k = spot[p] /\ Pay(p) /\ ~Count(p) /\ ~Record(p)
  <2>1. Pending(k) <=> correct[p]
    BY <1>8, <1>12 DEF Pay
  <2>2. ~Pending(k)'
    BY <1>8, <1>12 DEF Pay, EndAnswer, Goto, TypeOK, StepsOK, Sessions
  <2>3. Scored(players[k], correct[p])
    BY <1>2, <2>1 DEF Scored
  <2>4. Scored(Paid(players[k], correct[p]), FALSE)
    BY <1>1, <1>7, <2>3, PaidScored
  <2>5. QED
    BY <1>1, <1>6, <1>12, <2>2, <2>4
<1>13. QED
  BY <1>9, <1>10, <1>11, <1>12

\* Every step keeps the scores right.
LEMMA ScoresNext ==
  ASSUME NThreads = 1, OneBoard, ScoreInv, [Next]_vars
  PROVE  ScoresOK'
<1> USE DEF ScoreInv, HandlerInv, OneGameInv
<1>1. ASSUME NEW b \in Boards, CreateGame(b) PROVE ScoresOK'
  BY <1>1, EmptySeq DEF CreateGame, ScoresOK
<1>2. ASSUME NEW p \in Phones, AddPlayer(p) PROVE ScoresOK'
  <2>1. /\ \A k \in DOMAIN players : players'[k] = players[k]
        /\ \A k \in DOMAIN players' :
             k \in DOMAIN players \/ players'[k] = NewPlayer(newID[p])
    <3>1. CopyIsCurrent
      BY DEF RoundInv
    <3>2. QED
      BY <1>2, <3>1, AppendedPlayer
  <2>2. \A k : ~Pending(k) /\ ~Pending(k)'
    <3>1. PhoneStep(p)
      BY <1>2 DEF PhoneStep
    <3>2. pc[p] = "emplace" /\ pc'[p] = "added"
      BY <1>2 DEF AddPlayer, Goto, TypeOK, StepsOK, Sessions
    <3>3. QED
      BY <3>1, <3>2, OnlyItsOwn DEF RoundInv
  <2>3. questions' = questions
    BY <1>2 DEF AddPlayer
  <2>4. Scored(NewPlayer(newID[p]), FALSE)
    <3>1. ASSUME NEW i PROVE Scored(NewPlayer(i), FALSE)
      <4>1. NewPlayer(i).score = 0 /\ NewPlayer(i).answersGiven = << >>
        BY DEF NewPlayer
      <4>2. DOMAIN << >> = {}
        BY EmptySeq
      <4>3. QED
        BY <4>1, <4>2, NothingScored
    <3>2. QED
      BY <3>1
  <2>5. ASSUME NEW k \in DOMAIN players' PROVE Scored(players'[k], FALSE)
    <3>1. CASE k \in DOMAIN players
      BY <2>1, <2>2, <3>1 DEF ScoresOK, Scored
    <3>2. CASE k \notin DOMAIN players
      BY <2>1, <2>4, <3>2
    <3>3. QED
      BY <3>1, <3>2
  <2>6. QED
    BY <2>2, <2>3, <2>5 DEF ScoresOK, Scored, Right
<1>3. ASSUME \A b \in Boards : ~CreateGame(b), \A p \in Phones : ~AddPlayer(p),
             \A p \in Phones : ~(Record(p) \/ Count(p) \/ Pay(p))
      PROVE  ScoresOK'
  <2>1. players' = players
    <3>1. ASSUME NEW p \in Phones, Emplace(p) PROVE players' = players
      BY <3>1 DEF Emplace, gameVars
    <3>2. QED
      BY <1>3, <3>1, WhoChangesPlayers
  <2>2. ASSUME NEW p \in Phones, pc[p] \in {"count", "pay"} \/ pc'[p] \in {"count", "pay"}
        PROVE  /\ pc'[p] = pc[p] /\ spot'[p] = spot[p] /\ correct'[p] = correct[p]
    <3>1. pc'[p] = pc[p]
      <4>1. CASE pc[p] \in {"count", "pay"}
        <5>1. ASSUME PhoneStep(p) \/ Asks(p) PROVE FALSE
          BY <1>3, <4>1, <5>1
          DEF PhoneStep, Emplace, AddPlayer, PlayerAdded, CheckGameThread,
              JoinGameThread, SpawnGameThread, Find, Guard, Tally, Signal,
              Notify, Asks, StartGame, EnterRoom, GiveAnswer
        <5>2. QED
          BY <5>1, PhonesMoveThemselves DEF Asks
      <4>2. CASE pc'[p] \in {"count", "pay"}
        BY <1>3, <4>2, Arrivals
      <4>3. QED
        BY <2>2, <4>1, <4>2
    <3>2. p \in Busy
      BY <2>2, <3>1 DEF Busy, Sessions
    <3>3. UNCHANGED localVars
      BY <3>1, <3>2, StandStill DEF RoundInv
    <3>4. QED
      BY <3>1, <3>3 DEF localVars, answerVars
  <2>3. \A k : Pending(k)' <=> Pending(k)
    BY <2>2 DEF Pending
  <2>4. CASE questions' = questions
    BY <2>1, <2>3, <2>4 DEF ScoresOK, Scored, Right
  <2>5. CASE questions' # questions
    <3>1. questions = << >> /\ \A p \in Phones : pc[p] \notin Playing
      BY <2>5, QuestionsStay
    <3>2. \A k : ~Pending(k) /\ ~Pending(k)'
      BY <2>3, <3>1 DEF Pending, Playing, AnswerSteps, Answering
    <3>3. ASSUME NEW x \in PlayerRecord, Scored(x, FALSE) PROVE Scored(x, FALSE)'
      <4>1. \A j \in DOMAIN x.answersGiven : x.answersGiven[j].question < 0
        BY <3>1, <3>3, EmptySeq DEF Scored
      <4>2. DOMAIN x.answersGiven = {}
        BY <4>1, QuestionsAreNumbers
      <4>3. Right(x) = {} /\ Cardinality({}) = 0
        BY <4>2, FS_EmptySet DEF Right
      <4>4. x.score = 0
        BY <3>3, <4>3 DEF Scored, POINTS_FOR_CORRECT_ANSWER, PlayerRecord
      <4>5. QED
        BY <4>2, <4>4, NothingScoredNext
    <3>4. \A k \in DOMAIN players : players[k] \in PlayerRecord /\ Scored(players[k], FALSE)
      BY <3>2, LenProperties, ElementOfSeq DEF TypeOK, FieldsOK, ScoresOK, Scored
    <3>5. ASSUME NEW k \in DOMAIN players' PROVE Scored(players[k], Pending(k))'
      <4>1. players[k] \in PlayerRecord /\ Scored(players[k], FALSE)
        BY <2>1, <3>4
      <4>2. PICK x \in PlayerRecord : x = players[k] /\ Scored(x, FALSE)
        BY <4>1
      <4>3. Scored(x, FALSE)' /\ players[k]' = x
        BY <2>1, <3>3, <4>2
      <4>4. QED
        BY <3>2, <4>3 DEF Scored
    <3>6. QED
      BY <3>5 DEF ScoresOK
  <2>6. QED
    BY <2>4, <2>5
<1>4. QED
  BY <1>1, <1>2, <1>3, WrittenScores

\* Nothing is scored at first.
LEMMA ScoreInit == Init => ScoreInv
<1> SUFFICES ASSUME Init PROVE Judged /\ ScoresOK
  BY HandlerInit DEF ScoreInv
<1>1. QED
  BY DEF Init, Judged, Answering, ScoresOK, Sessions

\* Every step keeps the invariant.
LEMMA ScoreNext ==
  ASSUME NThreads = 1, OneBoard, PauseOutlastsAnswers
  PROVE  ScoreInv /\ [Next]_vars => ScoreInv'
  BY HandlerNext, JudgedNext, ScoresNext DEF ScoreInv

\* When no handler is between the writes of gaveAnswer the score shown is ten
\* points for each right answer (ScoreMatchesAnswers): the verdict is reached
\* before the guards, and the index is read twice, while the game thread goes
\* on.  One io thread, for with more a move of the vector may lose the points
\* of an answer that stays; and no answer outlasts the pause, for a later one
\* may be judged by the next question.
THEOREM ScoresAddUp ==
  ASSUME NThreads = 1, OneBoard, PauseOutlastsAnswers
  PROVE  Spec => []ScoreMatchesAnswers
<1>1. ScoreInv => ScoreMatchesAnswers
  <2> SUFFICES ASSUME ScoreInv, \A p \in Phones : pc[p] \notin {"count", "pay"},
                      NEW k \in DOMAIN players
               PROVE  players[k].score =
                        POINTS_FOR_CORRECT_ANSWER * Cardinality(Right(players[k]))
    BY DEF ScoreMatchesAnswers
  <2>1. Scored(players[k], Pending(k)) /\ ~Pending(k)
    BY DEF ScoreInv, ScoresOK, Pending
  <2>2. players[k].score \in Nat
    <3>1. players[k] \in PlayerRecord
      BY LenProperties, ElementOfSeq
      DEF ScoreInv, HandlerInv, OneGameInv, TypeOK, FieldsOK
    <3>2. QED
      BY <3>1 DEF PlayerRecord
  <2>3. QED
    BY <2>1, <2>2 DEF Scored
<1>2. QED
  BY <1>1, ScoreInit, ScoreNext, PTL DEF Spec

-------------------------------------------------------------------------------
(* With one io thread nothing goes wrong but for phones whose room number    *)
(* was wrong, and phones that enter room 0 before there is a game.  Such an  *)
(* early phone ends the program when addPlayer calls back, so whoever has an *)
(* id got it after createGame cleared the vector.                            *)

\* Before createGame has set callbackReceiver nobody has joined.
NobodyEarly ==
  fault = "none" /\ ~Listening =>
    /\ \A p \in Phones : playerID[p] = NoId
    /\ players # << >> => \E p \in Phones : pc[p] = "added"

\* Whoever has joined is in the vector.
EveryoneIn ==
  fault = "none" =>
    \A p \in Phones :
      /\ playerID[p] # NoId => playerID[p] \in CurrentIds
      /\ pc[p] = "added" => newID[p] \in CurrentIds

\* The iterator of whoever has joined points at a player.
SpotsLive ==
  fault = "none" =>
    \A p \in Phones :
      pc[p] \in Answering /\ playerID[p] # NoId => spot[p] \in DOMAIN players

\* startGame assigns the thread object only when it is free.
SpawnAlone == \A p \in Phones : pc[p] = "spawn" => gamePlayingThread = "none"

AloneInv ==
  /\ HandlerInv
  /\ NobodyEarly
  /\ EveryoneIn
  /\ SpotsLive
  /\ SpawnAlone

\* Once there is a listener there always is, and the game is not created again.
LEMMA ListeningStays ==
  ASSUME OneBoard, TypeOK, Listening, [Next]_vars
  PROVE  Listening' /\ \A b \in Boards : ~CreateGame(b)
<1> USE SessionsAssumption DEF Listening
<1>1. \A b \in Boards : ~CreateGame(b)
  BY DEF OneBoard, CreateGame
<1>2. ASSUME NEW b \in Boards, BoardStep(b) PROVE Listening'
  <2>1. \E s \in {"fetch", "join", "spawn", "idle"} : pc' = [pc EXCEPT ![b] = s]
    BY <1>2 DEF BoardStep, ResetGame, CheckFetchThread, JoinFetchThread,
                SpawnFetchThread, Goto
  <2>2. QED
    BY <2>1 DEF TypeOK, StepsOK, Sessions
<1>3. ASSUME NEW p \in Phones, PhoneStep(p) \/ Asks(p) PROVE Listening'
  BY <1>3, BoardsStay
<1>4. ASSUME FetchThread \/ GameThread \/ Timers \/ DataRace \/ UNCHANGED vars
      PROVE  Listening'
  BY <1>4, OtherThreads DEF Timers
<1>5. QED
  BY <1>1, <1>2, <1>3, <1>4, Steps

\* While answers are given there is a listener.
LEMMA AnswersAreHeard ==
  ASSUME OneGameInv, AnswersInRound, AnswerInFlight
  PROVE  Listening
<1>1. state # "NULL"
  BY DEF AnswersInRound, OneGameInv, NullOK
<1>2. Created
  BY <1>1 DEF OneGameInv, LobbyOK, NullOK
<1>3. QED
  BY <1>2 DEF Created, Listening

\* Whoever leaves addPlayer before there is a listener ends the program.
LEMMA NobodyEarlyNext ==
  ASSUME NThreads = 1, OneBoard, AloneInv, [Next]_vars
  PROVE  NobodyEarly'
<1> SUFFICES ASSUME fault' = "none", ~Listening'
             PROVE  /\ \A p \in Phones : playerID'[p] = NoId
                    /\ players' # << >> => \E p \in Phones : pc'[p] = "added"
  BY DEF NobodyEarly
<1> USE DEF AloneInv, HandlerInv, OneGameInv
<1>1. fault = "none" /\ ~Listening
  BY FaultStays, ListeningStays
<1>2. ASSUME NEW p \in Phones, PlayerAdded(p) PROVE FALSE
  BY <1>1, <1>2 DEF PlayerAdded
<1>3. \A p \in Phones : playerID'[p] = NoId
  BY <1>1, <1>2, WhoGetsId DEF NobodyEarly
<1>4. ASSUME players' # << >>, UNCHANGED players
      PROVE  \E p \in Phones : pc'[p] = "added"
  <2>1. PICK p \in Phones : pc[p] = "added"
    BY <1>1, <1>4 DEF NobodyEarly
  <2>2. CASE pc'[p] = pc[p]
    BY <2>1, <2>2
  <2>3. CASE pc'[p] # pc[p]
    <3>1. PlayerAdded(p)
      BY <2>1, <2>3, PhonesMoveThemselves
      DEF PhoneStep, Emplace, AddPlayer, CheckGameThread, JoinGameThread,
          SpawnGameThread, Find, Guard, Record, Count, Pay, Tally, Signal,
          Notify, StartGame, EnterRoom, GiveAnswer
    <3>2. QED
      BY <1>2, <3>1
  <2>4. QED
    BY <2>2, <2>3
<1>5. ASSUME NEW b \in Boards, CreateGame(b) PROVE players' = << >>
  BY <1>5 DEF CreateGame
<1>6. ASSUME NEW p \in Phones, Emplace(p) PROVE UNCHANGED players
  BY <1>6 DEF Emplace, gameVars
<1>7. ASSUME NEW p \in Phones, AddPlayer(p) PROVE pc'[p] = "added"
  BY <1>7 DEF AddPlayer, Goto, TypeOK, StepsOK, Sessions
<1>8. ASSUME NEW p \in Phones, Record(p) \/ Count(p) \/ Pay(p) PROVE FALSE
  <2>1. AnswerInFlight
    BY <1>8 DEF Record, Count, Pay, AnswerInFlight, AnswerSteps, Answering
  <2>2. QED
    BY <1>1, <2>1, AnswersAreHeard
<1>9. QED
  BY <1>3, <1>4, <1>5, <1>6, <1>7, <1>8, WhoChangesPlayers

\* Nobody is lost from the vector but by a new game.
LEMMA IdsStay ==
  ASSUME TypeOK, CopyIsCurrent, [Next]_vars, \A b \in Boards : ~CreateGame(b)
  PROVE  /\ CurrentIds \subseteq CurrentIds'
         /\ \A p \in Phones : AddPlayer(p) => newID[p] \in CurrentIds'
<1>1. ASSUME UNCHANGED players PROVE CurrentIds' = CurrentIds
  BY <1>1 DEF CurrentIds
<1>2. ASSUME NEW p \in Phones, AddPlayer(p)
      PROVE  CurrentIds \subseteq CurrentIds' /\ newID[p] \in CurrentIds'
  <2>1. /\ Len(players) \in Nat
        /\ DOMAIN players = 1..Len(players)
        /\ DOMAIN players' = 1..(Len(players) + 1)
        /\ \A k \in DOMAIN players : players'[k] = players[k]
        /\ players'[Len(players) + 1] = NewPlayer(newID[p])
    BY <1>2, AppendedPlayer
  <2>2. DOMAIN players \subseteq DOMAIN players' /\ Len(players) + 1 \in DOMAIN players'
    BY <2>1
  <2>3. NewPlayer(newID[p]).id = newID[p]
    BY DEF NewPlayer
  <2>4. QED
    BY <2>1, <2>2, <2>3 DEF CurrentIds
<1>3. ASSUME NEW p \in Phones, Record(p) \/ Count(p) \/ Pay(p)
      PROVE  CurrentIds' = CurrentIds
  BY <1>3, AnsweredPlayers
<1>4. ASSUME NEW p \in Phones, Emplace(p) PROVE UNCHANGED players
  BY <1>4 DEF Emplace, gameVars
<1>5. QED
  BY <1>1, <1>2, <1>3, <1>4, WhoChangesPlayers

\* A new game is created while nobody is in addPlayer or has an id.
LEMMA EveryoneInNext ==
  ASSUME NThreads = 1, OneBoard, AloneInv, [Next]_vars
  PROVE  EveryoneIn'
<1> SUFFICES ASSUME fault' = "none", NEW p \in Phones
             PROVE  /\ playerID'[p] # NoId => playerID'[p] \in CurrentIds'
                    /\ pc'[p] = "added" => newID'[p] \in CurrentIds'
  BY DEF EveryoneIn
<1> USE DEF AloneInv, HandlerInv, OneGameInv
<1>1. fault = "none"
  BY FaultStays
<1>2. ASSUME NEW b \in Boards, CreateGame(b)
      PROVE  playerID'[p] = NoId /\ pc'[p] # "added"
  <2>1. ~Listening
    BY <1>2 DEF OneBoard, CreateGame, Listening
  <2>2. UNCHANGED playerID
    BY <1>2 DEF CreateGame, localVars, joinVars
  <2>3. p \notin Busy
    BY <1>2, FreeMeansAlone DEF CreateGame
  <2>4. pc'[p] = pc[p] /\ pc[p] # "added"
    BY <1>2, <2>3, PhonesStay DEF Busy, Sessions
  <2>5. QED
    BY <1>1, <2>1, <2>2, <2>4 DEF NobodyEarly
<1>3. ASSUME \A b \in Boards : ~CreateGame(b), playerID'[p] # NoId
      PROVE  playerID'[p] \in CurrentIds'
  <2>1. playerID'[p] \in CurrentIds
    <3>1. CASE playerID'[p] = playerID[p]
      BY <1>1, <1>3, <3>1 DEF EveryoneIn
    <3>2. CASE playerID'[p] # playerID[p]
      <4>1. PlayerAdded(p)
        BY <3>2, WhoGetsId
      <4>2. playerID'[p] = newID[p] /\ pc[p] = "added"
        BY <4>1 DEF PlayerAdded, TypeOK, LocalsOK
      <4>3. QED
        BY <1>1, <4>2 DEF EveryoneIn
    <3>3. QED
      BY <3>1, <3>2
  <2>2. QED
    BY <1>3, <2>1, IdsStay DEF RoundInv
<1>4. ASSUME \A b \in Boards : ~CreateGame(b), pc'[p] = "added"
      PROVE  newID'[p] \in CurrentIds'
  <2>1. CASE pc'[p] = pc[p]
    <3>1. newID'[p] = newID[p] /\ newID[p] \in CurrentIds
      BY <1>1, <1>4, <2>1, OwnLocals DEF EveryoneIn
    <3>2. QED
      BY <1>4, <3>1, IdsStay DEF RoundInv
  <2>2. CASE pc'[p] # pc[p]
    <3>1. AddPlayer(p)
      BY <1>4, <2>2, Arrivals
    <3>2. newID' = newID
      BY <3>1 DEF AddPlayer
    <3>3. QED
      BY <1>4, <3>1, <3>2, IdsStay DEF RoundInv
  <2>3. QED
    BY <2>1, <2>2
<1>5. QED
  BY <1>2, <1>3, <1>4

\* find_if finds whoever has joined, and nothing moves the player away.
LEMMA SpotsLiveNext ==
  ASSUME NThreads = 1, OneBoard, AloneInv, [Next]_vars
  PROVE  SpotsLive'
<1> SUFFICES ASSUME fault' = "none", NEW p \in Phones, pc'[p] \in Answering,
                    playerID'[p] # NoId
             PROVE  spot'[p] \in DOMAIN players'
  BY DEF SpotsLive
<1> USE DEF AloneInv, HandlerInv, OneGameInv
<1>1. fault = "none"
  BY FaultStays
<1>2. CASE pc'[p] = pc[p]
  <2>1. p \in Busy
    BY <1>2 DEF Answering, Busy, Sessions
  <2>2. UNCHANGED <<players, playerID, spot>>
    BY <1>2, <2>1, StandStill DEF RoundInv, localVars, joinVars, answerVars
  <2>3. QED
    BY <1>1, <1>2, <2>2 DEF SpotsLive
<1>3. CASE pc'[p] # pc[p] /\ pc'[p] = "guard"
  <2>1. Find(p)
    BY <1>3, Arrivals
  <2>2. UNCHANGED <<players, playerID>>
    BY <2>1 DEF Find, gameVars, joinVars
  <2>3. playerID[p] \in CurrentIds
    BY <1>1, <2>2 DEF EveryoneIn
  <2>4. spot'[p] = Position(playerID[p])
    BY <2>1, <2>3 DEF Find, TypeOK, LocalsOK
  <2>5. Position(playerID[p]) \in DOMAIN players
    BY <2>3, PositionType
  <2>6. QED
    BY <2>2, <2>4, <2>5
<1>4. CASE pc'[p] # pc[p] /\ pc'[p] = "record"
  <2>1. Guard(p)
    BY <1>4, Arrivals
  <2>2. ~EndAnswer(p)
    BY <1>4 DEF EndAnswer, Goto, TypeOK, StepsOK, Sessions
  <2>3. UNCHANGED <<players, playerID, spot>> /\ pc[p] \in Answering
    BY <2>1, <2>2 DEF Guard, gameVars, joinVars, Answering
  <2>4. QED
    BY <1>1, <2>3 DEF SpotsLive
<1>5. CASE pc'[p] # pc[p] /\ pc'[p] \in {"count", "pay"}
  <2>1. Record(p) \/ Count(p)
    BY <1>5, Arrivals
  <2>2. UNCHANGED <<playerID, spot>> /\ pc[p] \in Answering
    BY <2>1 DEF Record, Count, Write, joinVars, answerVars, Answering
  <2>3. DOMAIN players' = DOMAIN players
    BY <2>1, AnsweredPlayers
  <2>4. QED
    BY <1>1, <2>2, <2>3 DEF SpotsLive
<1>6. QED
  BY <1>2, <1>3, <1>4, <1>5 DEF Answering

\* Only one handler starts the game thread, and waits for the one before.
LEMMA SpawnAloneNext ==
  ASSUME NThreads = 1, OneBoard, AloneInv, [Next]_vars
  PROVE  SpawnAlone'
<1> SUFFICES ASSUME NEW p \in Phones, pc'[p] = "spawn"
             PROVE  gamePlayingThread' = "none"
  BY DEF SpawnAlone
<1> USE DEF AloneInv, HandlerInv, OneGameInv
<1>1. CASE pc'[p] = pc[p]
  <2>1. gamePlayingThread = "none" /\ p \in Busy
    BY <1>1 DEF SpawnAlone, Busy, Sessions
  <2>2. ASSUME NEW q \in Phones, SpawnGameThread(q) PROVE FALSE
    <3>1. q \in Busy /\ q \in Sessions /\ p \in Sessions
      BY <2>2 DEF SpawnGameThread, Busy, Sessions
    <3>2. q = p
      BY <2>1, <3>1, NobodyElse DEF RoundInv
    <3>3. pc'[p] # pc[p]
      BY <2>2, <3>2, HandlersMove DEF PhoneStep
    <3>4. QED
      BY <1>1, <3>3
  <2>3. ASSUME NEW q \in Phones, PhoneStep(q) \/ Asks(q), ~SpawnGameThread(q)
        PROVE  gamePlayingThread' = gamePlayingThread
    BY <2>1, <2>3
    DEF PhoneStep, Emplace, AddPlayer, PlayerAdded, CheckGameThread,
        JoinGameThread, Find, Guard, Record, Count, Pay, Write, Tally, Signal,
        Notify, Asks, EnterRoom, StartGame, GiveAnswer
  <2>4. ASSUME NEW b \in Boards, CreateGame(b) \/ BoardStep(b)
        PROVE  gamePlayingThread' = gamePlayingThread
    BY <2>4, BoardsOpen
  <2>5. ASSUME FetchThread \/ DataRace \/ UNCHANGED vars
        PROVE  gamePlayingThread' = gamePlayingThread
    BY <2>5 DEF FetchThread, CollectQuestions, GameCreated, DataRace, vars
  <2>6. ~GameThread /\ ~Timers
    BY <2>1 DEF GameThread, BeginRound, OpenRound, TestFinished, CloseRound,
                NextRound, FinishGame, Timers, RoundTimeout, EndPause
  <2>7. QED
    BY <2>1, <2>2, <2>3, <2>4, <2>5, <2>6, Steps
<1>2. CASE pc'[p] # pc[p]
  <2>1. CheckGameThread(p) \/ JoinGameThread(p)
    BY <1>2, Arrivals
  <2>2. QED
    BY <1>2, <2>1
    DEF CheckGameThread, JoinGameThread, Goto, TypeOK, StepsOK, Sessions
<1>3. QED
  BY <1>1, <1>2

\* What the iterator of an answer leads to, at worst.
LEMMA AtWorstRefused ==
  ASSUME AloneInv, fault = "none", NEW p \in Phones, pc[p] \in Answering
  PROVE  Astray(p) \subseteq {"refused"}
  BY DEF AloneInv, SpotsLive, Astray

\* No step of a handler leads elsewhere than the invariant says.
LEMMA PhonesFault ==
  ASSUME NThreads = 1, AloneInv, fault = "none", NEW p \in Phones,
         PhoneStep(p) \/ Asks(p)
  PROVE  NoFault'
<1> USE DEF AloneInv, HandlerInv, OneGameInv, NoFault
<1>1. ASSUME PhoneStep(p), NEW q \in Phones, q \in Busy PROVE q = p
  <2>1. p \in Busy /\ p \in Sessions /\ q \in Sessions
    BY <1>1 DEF PhoneStep, Emplace, AddPlayer, PlayerAdded, CheckGameThread,
                JoinGameThread, SpawnGameThread, Find, Guard, Record, Count, Pay,
                Tally, Signal, Notify, Busy, Sessions
  <2>2. QED
    BY <1>1, <2>1, NobodyElse DEF RoundInv
<1>2. CASE AddPlayer(p)
  <2>1. ASSUME NEW q \in Phones, spot[q] > Len(players) PROVE FALSE
    <3>1. Len(players) \in Nat
      BY LenProperties DEF TypeOK, FieldsOK
    <3>2. pc[q] \in Answering
      BY <2>1, <3>1 DEF TypeOK, LocalsOK
    <3>3. q = p
      BY <1>1, <1>2, <3>2 DEF PhoneStep, Busy, Sessions, Answering
    <3>4. QED
      BY <1>2, <3>2, <3>3 DEF AddPlayer, Answering
  <2>2. QED
    BY <1>2, <2>1 DEF AddPlayer
<1>3. CASE PlayerAdded(p)
  BY <1>3 DEF PlayerAdded
<1>4. CASE CheckGameThread(p)
  <2>1. ASSUME NEW q \in Phones, pc[q] = "join" PROVE FALSE
    <3>1. q = p
      BY <1>1, <1>4, <2>1 DEF PhoneStep, Busy, Sessions
    <3>2. QED
      BY <1>4, <2>1, <3>1 DEF CheckGameThread
  <2>2. QED
    BY <1>4, <2>1 DEF CheckGameThread
<1>5. CASE SpawnGameThread(p)
  BY <1>5 DEF SpawnGameThread, SpawnAlone
<1>6. CASE Find(p) \/ Guard(p)
  <2>1. AnswerInFlight
    BY <1>6 DEF Find, Guard, AnswerInFlight, AnswerSteps, Answering
  <2>2. PastEnd = {}
    BY <2>1, QuestionIsThere DEF PastEnd
  <2>3. CASE Find(p)
    BY <2>2, <2>3 DEF Find
  <2>4. CASE Guard(p)
    <3>1. Astray(p) \subseteq {"refused"}
      BY <2>4, AtWorstRefused DEF Guard, Answering
    <3>2. fault' \in {fault} \cup PastEnd \cup Astray(p)
      BY <2>4 DEF Guard
    <3>3. QED
      BY <2>2, <3>1, <3>2
  <2>5. QED
    BY <1>6, <2>3, <2>4
<1>7. CASE Record(p) \/ Count(p) \/ Pay(p)
  <2>1. Astray(p) \subseteq {"refused"}
    BY <1>7, AtWorstRefused DEF Record, Count, Pay, Answering
  <2>2. fault' \in {fault} \cup Astray(p)
    BY <1>7 DEF Record, Count, Pay, Write
  <2>3. QED
    BY <2>1, <2>2
<1>8. CASE Emplace(p) \/ JoinGameThread(p) \/ Tally(p) \/ Signal(p) \/ Notify(p)
  BY <1>8 DEF Emplace, JoinGameThread, Tally, Signal, Notify
<1>9. CASE Asks(p)
  BY <1>9 DEF Asks, EnterRoom, StartGame, GiveAnswer
<1>10. QED
  BY <1>2, <1>3, <1>4, <1>5, <1>6, <1>7, <1>8, <1>9 DEF PhoneStep

\* No step leads to another fault than those of wrong room numbers.
LEMMA NoFaultNext ==
  ASSUME NThreads = 1, OneBoard, AloneInv, NoFault, [Next]_vars
  PROVE  NoFault'
<1> USE DEF NoFault
<1>1. CASE UNCHANGED vars
  BY <1>1 DEF vars
<1>2. CASE fault = "none"
  <2>1. ASSUME NEW b \in Boards, CreateGame(b) \/ BoardStep(b) PROVE NoFault'
    <3>1. \A c \in Boards : pc[c] # "join"
      BY DEF AloneInv, HandlerInv, OneGameInv, LobbyOK
    <3>2. pc[b] # "idle" => questionCacheThread = "none"
      BY DEF AloneInv, HandlerInv, OneGameInv, LobbyOK, Created, OneBoard
    <3>3. QED
      BY <1>2, <2>1, <3>1, <3>2
      DEF CreateGame, BoardStep, ResetGame, CheckFetchThread, JoinFetchThread,
          SpawnFetchThread
  <2>2. ASSUME NEW p \in Phones, PhoneStep(p) \/ Asks(p) PROVE NoFault'
    BY <1>2, <2>2, PhonesFault
  <2>3. ASSUME FetchThread \/ GameThread \/ Timers PROVE NoFault'
    BY <2>3 DEF FetchThread, CollectQuestions, GameCreated, GameThread,
                BeginRound, OpenRound, TestFinished, CloseRound, NextRound,
                FinishGame, Timers, RoundTimeout, EndPause
  <2>4. ASSUME DataRace PROVE FALSE
    <3>1. PICK p \in Phones, q \in Phones :
            /\ p # q /\ pc[p] = "emplace"
            /\ pc[q] \in {"emplace", "find", "tally"} \cup Answering
      BY <2>4 DEF DataRace
    <3>2. p \in Busy /\ q \in Busy
      BY <3>1 DEF Busy, Sessions, Answering
    <3>3. QED
      BY <3>1, <3>2 DEF AloneInv, HandlerInv, RoundInv, OneHandler
  <2>5. QED
    BY <1>1, <2>1, <2>2, <2>3, <2>4, Steps
<1>3. QED
  BY <1>1, <1>2 DEF Next

\* Before anything has happened.
LEMMA AloneInit == Init => AloneInv
<1> SUFFICES ASSUME Init PROVE AloneInv
  OBVIOUS
<1>1. NobodyEarly /\ EveryoneIn
  BY DEF Init, NobodyEarly, EveryoneIn, Sessions
<1>2. SpotsLive /\ SpawnAlone
  BY DEF Init, SpotsLive, SpawnAlone, Answering, Sessions
<1>3. QED
  BY <1>1, <1>2, HandlerInit DEF AloneInv

\* Every step keeps the invariant.
LEMMA AloneNext ==
  ASSUME NThreads = 1, OneBoard, PauseOutlastsAnswers
  PROVE  AloneInv /\ [Next]_vars => AloneInv'
<1> SUFFICES ASSUME AloneInv, [Next]_vars PROVE AloneInv'
  OBVIOUS
<1>1. HandlerInv'
  BY HandlerNext DEF AloneInv
<1>2. NobodyEarly' /\ EveryoneIn' /\ SpotsLive' /\ SpawnAlone'
  BY NobodyEarlyNext, EveryoneInNext, SpotsLiveNext, SpawnAloneNext
<1>3. QED
  BY <1>1, <1>2 DEF AloneInv

\* With one scoreboard, one io thread and answers that do not outlast a pause,
\* nothing but a wrong room number leads to undefined behaviour or terminate()
\* (NoFault), however many phones join, start and answer, and whatever rooms
\* they type: whoever answers and has joined is in the vector, the question
\* judged exists, no std::thread is joined twice or assigned while it runs.
THEOREM NothingFaults ==
  ASSUME NThreads = 1, OneBoard, PauseOutlastsAnswers
  PROVE  Spec => []NoFault
<1> DEFINE Inv == AloneInv /\ NoFault
<1>1. Init => Inv
  BY AloneInit DEF Init, NoFault
<1>2. Inv /\ [Next]_vars => Inv'
  BY AloneNext, NoFaultNext
<1>3. Inv => NoFault
  OBVIOUS
<1>4. QED
  BY <1>1, <1>2, <1>3, PTL DEF Spec

-------------------------------------------------------------------------------
(* With two or more io threads the start button never takes the last, unless *)
(* it is pressed by phones that did not properly join.                       *)

\* A game that has an id is heard of.
RoomIsHeard == id # NoId => Listening

\* A phone that is joining a game or has joined it; not one that came by
\* entering room 0 while there was none.
Member(p) ==
  /\ gameID[p] # NoId
  /\ pc[p] \in {"enter", "emplace", "added"} \/ playerID[p] # NoId

MembersHear == \A p \in Phones : Member(p) => Listening

\* Its player is in the vector.
Present(p) == gameID[p] # NoId /\ (pc[p] = "added" \/ playerID[p] # NoId)

SomebodyIn == \A p \in Phones : Present(p) => players # << >>

\* startGame is for the main player, also after its test.
StarterIsMain ==
  \A p \in Phones :
    pc[p] \in {"start", "join", "spawn"} /\ Present(p) => playerID[p] = mainPlayerID

StartInv ==
  /\ OneGameInv
  /\ NoIdYet
  /\ RoomIsHeard
  /\ MembersHear
  /\ SomebodyIn
  /\ StarterIsMain

\* Only the room number typed at first is kept in a session.
LEMMA WhoSetsRoom ==
  ASSUME TypeOK, [Next]_vars, NEW p \in Phones, gameID'[p] # gameID[p]
  PROVE  \E room \in Rooms \cup {NoId} : EnterRoom(p, room)
<1>1. pc'[p] # pc[p]
  BY OwnLocals
<1>2. \/ PhoneStep(p) \/ StartGame(p)
      \/ \E room \in Rooms \cup {NoId} : EnterRoom(p, room)
      \/ \E a \in Answers : GiveAnswer(p, a)
  BY <1>1, PhonesMoveThemselves
<1> USE DEF joinVars, localVars
<1>3. ASSUME Emplace(p) \/ AddPlayer(p) \/ PlayerAdded(p) PROVE FALSE
  BY <1>3 DEF Emplace, AddPlayer, PlayerAdded
<1>4. ASSUME CheckGameThread(p) \/ JoinGameThread(p) \/ SpawnGameThread(p) PROVE FALSE
  BY <1>4 DEF CheckGameThread, JoinGameThread, SpawnGameThread
<1>5. ASSUME Find(p) \/ Guard(p) PROVE FALSE
  BY <1>5 DEF Find, Guard
<1>6. ASSUME Record(p) \/ Count(p) \/ Pay(p) PROVE FALSE
  BY <1>6 DEF Record, Count, Pay, Write
<1>7. ASSUME Tally(p) \/ Signal(p) \/ Notify(p) PROVE FALSE
  BY <1>7 DEF Tally, Signal, Notify
<1>8. ASSUME StartGame(p) \/ \E a \in Answers : GiveAnswer(p, a) PROVE FALSE
  BY <1>8 DEF StartGame, GiveAnswer
<1>9. QED
  BY <1>2, <1>3, <1>4, <1>5, <1>6, <1>7, <1>8 DEF PhoneStep

\* A phone becomes a member by typing the number of the game.
LEMMA WhoBecomesMember ==
  ASSUME TypeOK, NoIdYet, [Next]_vars, NEW p \in Phones, Member(p)', ~Member(p)
  PROVE  id # NoId
<1>1. ~PlayerAdded(p)
  <2>1. ASSUME PlayerAdded(p) PROVE FALSE
    <3>1. pc[p] = "added" /\ gameID' = gameID
      BY <2>1 DEF PlayerAdded
    <3>2. QED
      BY <3>1 DEF Member
  <2>2. QED
    BY <2>1
<1>2. playerID'[p] = playerID[p]
  BY <1>1, WhoGetsId
<1>3. ASSUME NEW room \in Rooms \cup {NoId}, EnterRoom(p, room)
      PROVE  id # NoId
  <2>1. pc[p] = "connected" /\ playerID'[p] = NoId
    BY <1>2, <1>3 DEF EnterRoom, NoIdYet
  <2>2. pc'[p] \in {"enter", "emplace", "added"}
    BY <2>1 DEF Member
  <2>3. room = id
    BY <1>3, <2>2 DEF EnterRoom, Goto, TypeOK, StepsOK, Sessions
  <2>4. gameID'[p] = room
    BY <1>3 DEF EnterRoom, TypeOK, LocalsOK
  <2>5. QED
    BY <2>3, <2>4 DEF Member
<1>4. CASE gameID'[p] # gameID[p]
  BY <1>3, <1>4, WhoSetsRoom
<1>5. CASE gameID'[p] = gameID[p]
  <2>1. pc'[p] # pc[p] /\ pc'[p] \in {"enter", "emplace", "added"}
    BY <1>2, <1>5 DEF Member
  <2>2. ~Emplace(p) /\ ~AddPlayer(p)
    BY <1>2, <1>5, <2>1 DEF Emplace, AddPlayer, Member
  <2>3. QED
    BY <1>3, <2>1, <2>2, Arrivals
<1>6. QED
  BY <1>4, <1>5

\* A member's player comes into the vector by addPlayer.
LEMMA WhoBecomesPresent ==
  ASSUME TypeOK, NoIdYet, [Next]_vars, NEW p \in Phones, Present(p)', ~Present(p)
  PROVE  AddPlayer(p)
<1>1. ~PlayerAdded(p)
  <2>1. ASSUME PlayerAdded(p) PROVE FALSE
    <3>1. pc[p] = "added" /\ gameID' = gameID
      BY <2>1 DEF PlayerAdded
    <3>2. QED
      BY <3>1 DEF Present
  <2>2. QED
    BY <2>1
<1>2. playerID'[p] = playerID[p]
  BY <1>1, WhoGetsId
<1>3. ASSUME NEW room \in Rooms \cup {NoId}, EnterRoom(p, room)
      PROVE  FALSE
  <2>1. playerID'[p] = NoId
    BY <1>2, <1>3 DEF EnterRoom, NoIdYet
  <2>2. pc'[p] # "added"
    BY <1>3 DEF EnterRoom, Goto, TypeOK, StepsOK, Sessions
  <2>3. QED
    BY <2>1, <2>2 DEF Present
<1>4. gameID'[p] = gameID[p]
  BY <1>3, WhoSetsRoom
<1>5. pc'[p] # pc[p] /\ pc'[p] = "added"
  BY <1>2, <1>4 DEF Present
<1>6. QED
  BY <1>5, Arrivals

\* Without a new game the vector does not become empty.
LEMMA SomebodyStays ==
  ASSUME TypeOK, [Next]_vars, \A b \in Boards : ~CreateGame(b),
         players # << >> \/ \E p \in Phones : AddPlayer(p)
  PROVE  players' # << >>
<1>1. ASSUME NEW p \in Phones, AddPlayer(p) PROVE players' # << >>
  <2>1. NewPlayer(newID[p]) \in PlayerRecord
    BY <1>1, AddedPlayers, NewPlayerType
  <2>2. players \in Seq(PlayerRecord) /\ \A w \in Moved(vector[p]) : w \in Seq(PlayerRecord)
    BY MovedType DEF TypeOK, FieldsOK
  <2>3. PICK w \in Seq(PlayerRecord) : players' = Append(w, NewPlayer(newID[p]))
    BY <1>1, <2>2, AddedPlayers
  <2>4. Len(players') = Len(w) + 1 /\ Len(w) \in Nat
    BY <2>1, <2>3, AppendProperties, LenProperties
  <2>5. Len(players') # 0
    BY <2>4
  <2>6. QED
    BY <2>5, EmptySeq
<1>2. ASSUME players # << >>, NEW p \in Phones, Record(p) \/ Count(p) \/ Pay(p)
      PROVE  players' # << >>
  <2>1. DOMAIN players' = DOMAIN players /\ players \in Seq(PlayerRecord)
    BY <1>2, AnsweredPlayers DEF TypeOK, FieldsOK
  <2>2. 1 \in DOMAIN players
    BY <1>2, <2>1, LenProperties, EmptySeq
  <2>3. QED
    BY <2>1, <2>2, EmptySeq
<1>3. ASSUME NEW p \in Phones, Emplace(p) PROVE players' = players
  BY <1>3 DEF Emplace, gameVars
<1>4. QED
  BY <1>1, <1>2, <1>3, WhoChangesPlayers

\* An id is given to the game when there is a listener already.
LEMMA RoomIsHeardNext ==
  ASSUME OneBoard, TypeOK, RoomIsHeard, [Next]_vars
  PROVE  RoomIsHeard'
<1> USE DEF RoomIsHeard
<1>1. ASSUME NEW b \in Boards, CreateGame(b) PROVE id' = NoId
  BY <1>1 DEF CreateGame
<1>2. ASSUME NEW b \in Boards, ResetGame(b) PROVE Listening'
  <2>1. pc'[b] = "fetch"
    BY <1>2 DEF ResetGame, Goto, TypeOK, StepsOK, Sessions
  <2>2. QED
    BY <2>1 DEF Listening
<1>3. ASSUME NEW b \in Boards, BoardStep(b), ~ResetGame(b) PROVE id' = id
  BY <1>3 DEF BoardStep, CheckFetchThread, JoinFetchThread, SpawnFetchThread,
              gameVars
<1>4. ASSUME NEW p \in Phones, PhoneStep(p) \/ Asks(p) PROVE id' = id
  BY <1>4, PhonesLeave
<1>5. ASSUME FetchThread \/ GameThread \/ Timers \/ DataRace \/ UNCHANGED vars
      PROVE  id' = id
  BY <1>5, OtherThreads DEF Timers
<1>6. id' = id => RoomIsHeard'
  BY ListeningStays
<1>7. QED
  BY <1>1, <1>2, <1>3, <1>4, <1>5, <1>6, Steps

\* The main player is not replaced while somebody is in the vector.
LEMMA StarterIsMainNext ==
  ASSUME TypeOK, NoIdYet, SomebodyIn, StarterIsMain, [Next]_vars
  PROVE  StarterIsMain'
<1> SUFFICES ASSUME NEW p \in Phones, pc'[p] \in {"start", "join", "spawn"},
                    Present(p)'
             PROVE  playerID'[p] = mainPlayerID'
  BY DEF StarterIsMain
<1>1. ~AddPlayer(p)
  BY DEF AddPlayer, Goto, TypeOK, StepsOK, Sessions
<1>2. Present(p) /\ players # << >>
  BY <1>1, WhoBecomesPresent DEF SomebodyIn
<1>3. mainPlayerID' = mainPlayerID
  <2>1. ASSUME NEW q \in Phones, NEW room \in Rooms \cup {NoId}, EnterRoom(q, room)
        PROVE  mainPlayerID' = mainPlayerID
    BY <1>2, <2>1 DEF EnterRoom, MainPlayer
  <2>2. QED
    BY <2>1, WhoChangesMain
<1>4. CASE pc'[p] = pc[p]
  BY <1>2, <1>3, <1>4, OwnLocals DEF StarterIsMain
<1>5. CASE pc'[p] # pc[p]
  <2>1. StartGame(p) \/ CheckGameThread(p) \/ JoinGameThread(p)
    BY <1>5, Arrivals
  <2>2. playerID' = playerID
    BY <2>1 DEF StartGame, CheckGameThread, JoinGameThread, localVars, joinVars
  <2>3. CASE StartGame(p)
    BY <1>3, <2>2, <2>3 DEF StartGame
  <2>4. CASE CheckGameThread(p) \/ JoinGameThread(p)
    <3>1. pc[p] \in {"start", "join"}
      BY <2>4 DEF CheckGameThread, JoinGameThread
    <3>2. QED
      BY <1>2, <1>3, <2>2, <3>1 DEF StarterIsMain
  <2>5. QED
    BY <2>1, <2>3, <2>4
<1>6. QED
  BY <1>4, <1>5

\* Every step keeps the invariant.
LEMMA StartNext ==
  ASSUME OneBoard
  PROVE  StartInv /\ [Next]_vars => StartInv'
<1> SUFFICES ASSUME StartInv, [Next]_vars PROVE StartInv'
  OBVIOUS
<1> USE DEF StartInv, OneGameInv
<1>1. OneGameInv'
  BY OneGameNext
<1>2. NoIdYet' /\ RoomIsHeard' /\ StarterIsMain'
  BY NoIdYetNext, RoomIsHeardNext, StarterIsMainNext
<1>3. MembersHear'
  <2> SUFFICES ASSUME NEW p \in Phones, Member(p)' PROVE Listening'
    BY DEF MembersHear
  <2>1. Listening
    BY WhoBecomesMember DEF MembersHear, RoomIsHeard
  <2>2. QED
    BY <2>1, ListeningStays
<1>4. SomebodyIn'
  <2> SUFFICES ASSUME NEW p \in Phones, Present(p)' PROVE players' # << >>
    BY DEF SomebodyIn
  <2>1. Present(p) \/ AddPlayer(p)
    BY WhoBecomesPresent
  <2>2. Listening
    <3>1. CASE Present(p)
      BY <3>1 DEF Present, Member, MembersHear
    <3>2. CASE AddPlayer(p) /\ ~Present(p)
      <4>1. pc[p] = "emplace" /\ gameID' = gameID
        BY <3>2 DEF AddPlayer
      <4>2. Member(p)
        BY <4>1 DEF Present, Member
      <4>3. QED
        BY <4>2 DEF MembersHear
    <3>3. QED
      BY <2>1, <3>1, <3>2
  <2>3. players # << >> \/ AddPlayer(p)
    BY <2>1 DEF SomebodyIn
  <2>4. QED
    BY <2>2, <2>3, ListeningStays, SomebodyStays
<1>5. QED
  BY <1>1, <1>2, <1>3, <1>4

\* However often the start button is pressed while the game is created or
\* played, and whatever rooms other phones have typed, startGame's wait for the
\* previous game thread leaves an io thread for the answers
\* (ThreadLeftForAnswers) when there are two or more and everybody in it joined
\* the game by its number.
THEOREM AThreadIsLeft ==
  ASSUME OneBoard, NThreads # 1
  PROVE  Spec => []ThreadLeftForAnswers
<1>1. Init => StartInv
  <2> SUFFICES ASSUME Init
               PROVE  /\ NoIdYet /\ RoomIsHeard
                      /\ MembersHear /\ SomebodyIn /\ StarterIsMain
    BY OneGameInit DEF StartInv
  <2>1. QED
    BY DEF Init, NoIdYet, RoomIsHeard, MembersHear, Member, SomebodyIn, Present,
           StarterIsMain, Sessions
<1>2. StartInv /\ [Next]_vars => StartInv'
  BY StartNext
<1>3. StartInv => ThreadLeftForAnswers
  <2> SUFFICES ASSUME StartInv, IdsDistinct, StartersJoined
               PROVE  Cardinality({s \in Sessions : pc[s] = "join"}) < NThreads
    BY DEF ThreadLeftForAnswers
  <2> DEFINE J == {s \in Sessions : pc[s] = "join"}
  <2>1. J \subseteq Phones
    BY DEF StartInv, OneGameInv, LobbyOK, Sessions
  <2>2. \A p \in J : playerID[p] = mainPlayerID /\ playerID[p] # NoId
    BY <2>1 DEF StartInv, StarterIsMain, Present, StartersJoined
  <2>3. \A p, q \in J : p = q
    BY <2>1, <2>2 DEF IdsDistinct
  <2>4. J = {} \/ \E p : J = {p}
    BY <2>3
  <2> HIDE DEF J
  <2>5. Cardinality(J) = 0 \/ Cardinality(J) = 1
    BY <2>4, FS_EmptySet, FS_Singleton
  <2>6. Cardinality(J) < NThreads
    BY <2>5, NThreadsAssumption
  <2>7. QED
    BY <2>6 DEF J
<1>4. QED
  BY <1>1, <1>2, <1>3, PTL DEF Spec

-------------------------------------------------------------------------------
(* With one io thread the game is the quiz its players were promised.        *)

\* A handler in addPlayer has an id that nobody has.
NewIdFresh ==
  \A p \in Phones : pc[p] \in {"enter", "emplace"} => newID[p] \notin CurrentIds

\* Ids are drawn apart.
Apart(v) == \A j, k \in DOMAIN v : v[j].id = v[k].id => j = k

\* What the guards of gaveAnswer have made sure of holds until the entry is
\* added.
NotYet ==
  \A p \in Phones :
    pc[p] = "record" /\ spot[p] \in DOMAIN players =>
      ~HasAnswered(players[spot[p]], asked[p])

\* No question is twice on a sheet.
OneSheet(p) ==
  \A j, k \in DOMAIN p.answersGiven :
    p.answersGiven[j].question = p.answersGiven[k].question => j = k

OneSheets == \A k \in DOMAIN players : OneSheet(players[k])

QuizInv ==
  /\ AloneInv
  /\ IteratorsOK
  /\ NewIdFresh
  /\ Apart(players)
  /\ NotYet
  /\ OneSheets

\* The sheets of Quiz, for a vector of players.
PositionIn(v, i) ==
  CHOOSE k \in DOMAIN v : v[k].id = i /\ \A j \in 1..(k - 1) : v[j].id # i

SheetsOf(v) == [i \in {v[k].id : k \in DOMAIN v} |-> Sheet(v[PositionIn(v, i)])]

\* find_if finds a player by an id that is in the vector once.
LEMMA Found ==
  ASSUME NEW v, v \in Seq(PlayerRecord), Apart(v), NEW k \in DOMAIN v
  PROVE  PositionIn(v, v[k].id) = k
<1>1. DOMAIN v = 1..Len(v) /\ Len(v) \in Nat
  BY LenProperties
<1>2. \A j \in 1..(k - 1) : v[j].id # v[k].id
  BY <1>1 DEF Apart
<1>3. \A m \in DOMAIN v : v[m].id = v[k].id => m = k
  BY DEF Apart
<1>4. \E m \in DOMAIN v : v[m].id = v[k].id /\ \A j \in 1..(m - 1) : v[j].id # v[k].id
  BY <1>2
<1>5. /\ PositionIn(v, v[k].id) \in DOMAIN v
      /\ v[PositionIn(v, v[k].id)].id = v[k].id
  BY <1>4 DEF PositionIn
<1>6. QED
  BY <1>3, <1>5

\* Each player has a sheet.
LEMMA SheetsOfIs ==
  ASSUME NEW v, v \in Seq(PlayerRecord), Apart(v)
  PROVE  /\ DOMAIN SheetsOf(v) = {v[k].id : k \in DOMAIN v}
         /\ \A k \in DOMAIN v : SheetsOf(v)[v[k].id] = Sheet(v[k])
  BY Found DEF SheetsOf


\* The answer on the sheet is the one in the list of answers.
LEMMA SheetShows ==
  ASSUME NEW p \in PlayerRecord, OneSheet(p), NEW k \in DOMAIN p.answersGiven
  PROVE  /\ p.answersGiven[k].question \in DOMAIN Sheet(p)
         /\ Sheet(p)[p.answersGiven[k].question] = p.answersGiven[k].answer
<1> DEFINE g == p.answersGiven
<1>1. (CHOOSE j \in DOMAIN g : g[j].question = g[k].question) = k
  BY DEF OneSheet
<1>2. AnswerOf(p, g[k].question) = g[k].answer
  BY <1>1 DEF AnswerOf
<1>3. QED
  BY <1>2 DEF Sheet

\* An entry is one more on the sheet.
LEMMA EntryOnSheet ==
  ASSUME NEW p \in PlayerRecord, OneSheet(p), NEW q \in Nat, NEW a \in Answers,
         ~HasAnswered(p, q)
  PROVE  /\ OneSheet(WithEntry(p, q, a))
         /\ q \notin DOMAIN Sheet(p)
         /\ Sheet(WithEntry(p, q, a)) = Rounds!With(Sheet(p), q, a)
<1> DEFINE g == p.answersGiven
           e == [question |-> q, answer |-> a]
           r == WithEntry(p, q, a)
           h == r.answersGiven
<1>1. h = Append(g, e) /\ r \in PlayerRecord
  BY EntryIsThere, EntryType
<1>2. g \in Seq(Entry) /\ e \in Entry
  BY DEF PlayerRecord, Entry
<1>3. /\ Len(g) \in Nat
      /\ DOMAIN g = 1..Len(g)
      /\ DOMAIN h = 1..(Len(g) + 1)
      /\ \A k \in 1..Len(g) : h[k] = g[k]
      /\ h[Len(g) + 1] = e
  BY <1>1, <1>2, AppendProperties, LenProperties
<1>4. q \notin DOMAIN Sheet(p) /\ \A k \in DOMAIN g : g[k].question # q
  BY DEF Sheet, HasAnswered
<1>5. e.question = q /\ e.answer = a
  OBVIOUS
<1> HIDE DEF h, r, e
<1>6. OneSheet(r)
  <2> SUFFICES ASSUME NEW j \in DOMAIN h, NEW k \in DOMAIN h,
                      h[j].question = h[k].question
               PROVE  j = k
    BY DEF OneSheet, h
  <2>1. \A m \in DOMAIN h : m \in DOMAIN g \/ m = Len(g) + 1
    BY <1>3
  <2>2. CASE j \in DOMAIN g /\ k \in DOMAIN g
    BY <1>3, <2>2 DEF OneSheet
  <2>3. CASE j \in DOMAIN g /\ k = Len(g) + 1
    BY <1>3, <1>4, <1>5, <2>3
  <2>4. CASE j = Len(g) + 1 /\ k \in DOMAIN g
    BY <1>3, <1>4, <1>5, <2>4
  <2>5. QED
    BY <2>1, <2>2, <2>3, <2>4
<1> HIDE DEF g
<1>7. \A k \in DOMAIN g : /\ g[k].question \in DOMAIN Sheet(p)
                         /\ Sheet(p)[g[k].question] = g[k].answer
  BY SheetShows DEF g
<1>8. \A k \in DOMAIN h : /\ h[k].question \in DOMAIN Sheet(r)
                         /\ Sheet(r)[h[k].question] = h[k].answer
  BY <1>1, <1>6, SheetShows DEF h
<1>9. /\ DOMAIN Sheet(p) = {g[k].question : k \in DOMAIN g}
      /\ DOMAIN Sheet(r) = {h[k].question : k \in DOMAIN h}
  BY DEF Sheet, g, h
<1>10. DOMAIN h = DOMAIN g \cup {Len(g) + 1} /\ DOMAIN g \subseteq DOMAIN h
  BY <1>3
<1>11. DOMAIN Sheet(r) = DOMAIN Sheet(p) \cup {q}
  BY <1>3, <1>5, <1>9, <1>10
<1>12. Sheet(r)[q] = a
  BY <1>3, <1>5, <1>8, <1>10
<1>13. ASSUME NEW y \in DOMAIN Sheet(p) PROVE Sheet(r)[y] = Sheet(p)[y]
  <2>1. PICK k \in DOMAIN g : y = g[k].question
    BY <1>9
  <2>2. h[k] = g[k] /\ k \in DOMAIN h
    BY <1>3, <1>10
  <2>3. QED
    BY <1>7, <1>8, <2>1, <2>2
<1>14. Sheet(r) = [y \in DOMAIN Sheet(r) |-> Sheet(r)[y]]
  BY DEF Sheet
<1>15. Sheet(r) = [y \in DOMAIN Sheet(p) \cup {q} |-> IF y = q THEN a ELSE Sheet(p)[y]]
  BY <1>11, <1>12, <1>13, <1>14
<1>16. QED
  BY <1>4, <1>6, <1>15 DEF Rounds!With, r

\* Counting and paying leave the sheet alone.
LEMMA OthersOnSheet ==
  ASSUME NEW p \in PlayerRecord, NEW q, NEW c \in BOOLEAN
  PROVE  /\ Sheet(WithCount(p, q)) = Sheet(p) /\ Sheet(Paid(p, c)) = Sheet(p)
         /\ OneSheet(p) => OneSheet(WithCount(p, q)) /\ OneSheet(Paid(p, c))
<1>1. /\ WithCount(p, q).answersGiven = p.answersGiven
      /\ Paid(p, c).answersGiven = p.answersGiven
  BY DEF WithCount, Paid, PlayerRecord
<1>2. QED
  BY <1>1 DEF Sheet, AnswerOf, OneSheet

\* Whoever is in addPlayer keeps an id of its own.
LEMMA NewIdFreshNext ==
  ASSUME NThreads = 1, TypeOK, OneHandler, NewIdFresh, [Next]_vars
  PROVE  NewIdFresh'
<1> SUFFICES ASSUME NEW p \in Phones, pc'[p] \in {"enter", "emplace"}
             PROVE  newID'[p] \notin CurrentIds'
  BY DEF NewIdFresh
<1>1. CASE pc'[p] = pc[p]
  <2>1. p \in Busy
    BY <1>1 DEF Busy, Sessions
  <2>2. UNCHANGED <<players, newID>>
    BY <1>1, <2>1, StandStill DEF localVars, joinVars
  <2>3. QED
    BY <1>1, <2>2 DEF NewIdFresh, CurrentIds
<1>2. CASE pc'[p] # pc[p] /\ pc'[p] = "emplace"
  <2>1. Emplace(p)
    BY <1>2, Arrivals
  <2>2. UNCHANGED <<players, newID>> /\ pc[p] = "enter"
    BY <2>1 DEF Emplace, gameVars
  <2>3. QED
    BY <2>2 DEF NewIdFresh, CurrentIds
<1>3. CASE pc'[p] # pc[p] /\ pc'[p] = "enter"
  <2>1. PICK room \in Rooms \cup {NoId} : EnterRoom(p, room)
    BY <1>3, Arrivals
  <2>2. room = id
    BY <1>3, <2>1 DEF EnterRoom, Goto, TypeOK, StepsOK, Sessions
  <2>3. PICK i \in PlayerIds \ CurrentIds : newID' = [newID EXCEPT ![p] = i]
    BY <2>1, <2>2 DEF EnterRoom
  <2>4. newID'[p] = i /\ players' = players
    BY <2>1, <2>3 DEF EnterRoom, TypeOK, LocalsOK
  <2>5. QED
    BY <2>3, <2>4 DEF CurrentIds
<1>4. QED
  BY <1>1, <1>2, <1>3

\* Ids stay apart.
LEMMA ApartNext ==
  ASSUME TypeOK, CopyIsCurrent, NewIdFresh, Apart(players), [Next]_vars
  PROVE  Apart(players')
<1>1. ASSUME NEW b \in Boards, CreateGame(b) PROVE Apart(players')
  BY <1>1, EmptySeq DEF CreateGame, Apart
<1>2. ASSUME NEW p \in Phones, AddPlayer(p) PROVE Apart(players')
  <2>1. /\ Len(players) \in Nat
        /\ DOMAIN players = 1..Len(players)
        /\ DOMAIN players' = 1..(Len(players) + 1)
        /\ \A k \in DOMAIN players : players'[k] = players[k]
        /\ players'[Len(players) + 1] = NewPlayer(newID[p])
    BY <1>2, AppendedPlayer
  <2>2. newID[p] \notin CurrentIds /\ NewPlayer(newID[p]).id = newID[p]
    BY <1>2 DEF AddPlayer, NewIdFresh, NewPlayer
  <2>3. \A k \in DOMAIN players' : k \in DOMAIN players \/ k = Len(players) + 1
    BY <2>1
  <2>4. \A k \in DOMAIN players : players'[k].id # newID[p]
    BY <2>1, <2>2 DEF CurrentIds
  <2>5. players'[Len(players) + 1].id = newID[p]
    BY <2>1, <2>2
  <2> SUFFICES ASSUME NEW j \in DOMAIN players', NEW k \in DOMAIN players',
                      players'[j].id = players'[k].id
               PROVE  j = k
    BY DEF Apart
  <2>6. CASE j \in DOMAIN players /\ k \in DOMAIN players
    BY <2>1, <2>6 DEF Apart
  <2>7. CASE ~(j \in DOMAIN players /\ k \in DOMAIN players)
    BY <2>3, <2>4, <2>5, <2>7
  <2>8. QED
    BY <2>6, <2>7
<1>3. ASSUME NEW p \in Phones, Record(p) \/ Count(p) \/ Pay(p) PROVE Apart(players')
  BY <1>3, AnsweredPlayers DEF Apart
<1>4. ASSUME NEW p \in Phones, Emplace(p) PROVE UNCHANGED players
  BY <1>4 DEF Emplace, gameVars
<1>5. QED
  BY <1>1, <1>2, <1>3, <1>4, WhoChangesPlayers

\* Nothing comes between the guards and the entry.
LEMMA NotYetNext ==
  ASSUME NThreads = 1, TypeOK, OneHandler, NotYet, [Next]_vars
  PROVE  NotYet'
<1> SUFFICES ASSUME NEW p \in Phones, pc'[p] = "record", spot'[p] \in DOMAIN players'
             PROVE  ~HasAnswered(players'[spot'[p]], asked'[p])
  BY DEF NotYet
<1>1. CASE pc'[p] = pc[p]
  <2>1. p \in Busy
    BY <1>1 DEF Busy, Sessions
  <2>2. UNCHANGED <<players, spot, asked>>
    BY <1>1, <2>1, StandStill DEF localVars, answerVars
  <2>3. QED
    BY <1>1, <2>2 DEF NotYet
<1>2. CASE pc'[p] # pc[p]
  <2>1. Guard(p)
    BY <1>2, Arrivals
  <2>2. ~EndAnswer(p)
    BY <1>2 DEF EndAnswer, Goto, TypeOK, StepsOK, Sessions
  <2>3. PICK q : /\ spot[p] \in DOMAIN players => ~Refused(players[spot[p]], q)
                 /\ asked' = [asked EXCEPT ![p] = q]
                 /\ UNCHANGED <<players, spot>>
    BY <2>1, <2>2 DEF Guard, gameVars
  <2>4. asked'[p] = q
    BY <2>3 DEF TypeOK, LocalsOK
  <2>5. QED
    BY <2>3, <2>4 DEF Refused
<1>3. QED
  BY <1>1, <1>2

\* No question comes twice on a sheet.
LEMMA OneSheetsNext ==
  ASSUME TypeOK, CopyIsCurrent, NotYet, OneSheets, [Next]_vars
  PROVE  OneSheets'
<1>1. ASSUME NEW b \in Boards, CreateGame(b) PROVE OneSheets'
  BY <1>1, EmptySeq DEF CreateGame, OneSheets
<1>2. ASSUME NEW p \in Phones, AddPlayer(p) PROVE OneSheets'
  <2>1. \A k \in DOMAIN players' :
          \/ k \in DOMAIN players /\ players'[k] = players[k]
          \/ players'[k] = NewPlayer(newID[p])
    BY <1>2, AppendedPlayer
  <2>2. OneSheet(NewPlayer(newID[p]))
    BY EmptySeq DEF OneSheet, NewPlayer
  <2>3. QED
    BY <2>1, <2>2 DEF OneSheets
<1>3. ASSUME NEW p \in Phones, Record(p) \/ Count(p) \/ Pay(p) PROVE OneSheets'
  <2> SUFFICES ASSUME NEW k \in DOMAIN players' PROVE OneSheet(players'[k])
    BY DEF OneSheets
  <2>1. /\ k \in DOMAIN players
        /\ players[k] \in PlayerRecord
        /\ k # spot[p] => players'[k] = players[k]
        /\ k = spot[p] =>
             players'[k] =
               IF Record(p) THEN WithEntry(players[k], asked[p], choice[p])
               ELSE IF Count(p) THEN WithCount(players[k], asked[p])
               ELSE Paid(players[k], correct[p])
    BY <1>3, AnsweredPlayers
  <2>2. OneSheet(players[k])
    BY <2>1 DEF OneSheets
  <2>3. asked[p] \in Nat /\ correct[p] \in BOOLEAN
    BY DEF TypeOK, LocalsOK
  <2>4. CASE k = spot[p] /\ Record(p)
    <3>1. choice[p] \in Answers /\ ~HasAnswered(players[k], asked[p])
      BY <2>1, <2>4 DEF Record, NotYet, TypeOK, LocalsOK
    <3>2. OneSheet(WithEntry(players[k], asked[p], choice[p]))
      BY <2>1, <2>2, <2>3, <3>1, EntryOnSheet
    <3>3. QED
      BY <2>1, <2>4, <3>2
  <2>5. CASE k = spot[p] /\ ~Record(p)
    <3>1. /\ OneSheet(WithCount(players[k], asked[p]))
          /\ OneSheet(Paid(players[k], correct[p]))
      BY <2>1, <2>2, <2>3, OthersOnSheet
    <3>2. QED
      BY <2>1, <2>5, <3>1
  <2>6. QED
    BY <2>1, <2>2, <2>4, <2>5
<1>4. ASSUME NEW p \in Phones, Emplace(p) PROVE UNCHANGED players
  BY <1>4 DEF Emplace, gameVars
<1>5. QED
  BY <1>1, <1>2, <1>3, <1>4, WhoChangesPlayers DEF OneSheets

\* Every step keeps the invariant.
LEMMA QuizNext ==
  ASSUME NThreads = 1, OneBoard, PauseOutlastsAnswers
  PROVE  QuizInv /\ [Next]_vars => QuizInv'
<1> SUFFICES ASSUME QuizInv, [Next]_vars PROVE QuizInv'
  OBVIOUS
<1> USE DEF QuizInv
<1>1. TypeOK /\ OneHandler /\ CopyIsCurrent
  BY DEF AloneInv, HandlerInv, RoundInv
<1>2. AloneInv'
  BY AloneNext
<1>3. IteratorsOK' /\ NewIdFresh' /\ NotYet'
  BY <1>1, IteratorsNext, NewIdFreshNext, NotYetNext
<1>4. Apart(players)' /\ OneSheets'
  BY <1>1, ApartNext, OneSheetsNext DEF Apart
<1>5. QED
  BY <1>2, <1>3, <1>4

\* The abstract sheets of a state are those of its vector.
LEMMA SheetsAre ==
  /\ [i \in CurrentIds |-> Sheet(players[Position(i)])] = SheetsOf(players)
  /\ [i \in CurrentIds |-> Sheet(players[Position(i)])]' = SheetsOf(players')
  BY DEF CurrentIds, Position, SheetsOf, PositionIn

\* Steps that leave the phase, the questions and the vector alone are not seen.
LEMMA Unseen ==
  ASSUME UNCHANGED <<Phase, currQuestion, questions, players>>
  PROVE  UNCHANGED Rounds!vars
<1>1. [i \in CurrentIds |-> Sheet(players[Position(i)])]' =
        [i \in CurrentIds |-> Sheet(players[Position(i)])]
  BY SheetsAre
<1>2. QED
  BY <1>1 DEF Rounds!vars

\* addPlayer is Quiz's Join.
LEMMA AddPlayerJoins ==
  ASSUME QuizInv, NEW p \in Phones, AddPlayer(p), [Next]_vars
  PROVE  Rounds!Join(newID[p])
<1> USE DEF QuizInv, AloneInv, HandlerInv, OneGameInv, RoundInv
<1> DEFINE n == Len(players) + 1
           i == newID[p]
<1>1. /\ Len(players) \in Nat
      /\ DOMAIN players = 1..Len(players)
      /\ DOMAIN players' = 1..n
      /\ \A k \in DOMAIN players : players'[k] = players[k]
      /\ players'[n] = NewPlayer(i)
  BY AppendedPlayer
<1>2. i \notin CurrentIds
  BY DEF AddPlayer, NewIdFresh
<1>3. /\ players \in Seq(PlayerRecord) /\ Apart(players)
      /\ players' \in Seq(PlayerRecord) /\ Apart(players')
  <2>1. TypeOK' /\ Apart(players')
    BY TypeNext, ApartNext
  <2>2. QED
    BY <2>1 DEF TypeOK, FieldsOK
<1>4. /\ DOMAIN SheetsOf(players) = CurrentIds
      /\ \A k \in DOMAIN players : SheetsOf(players)[players[k].id] = Sheet(players[k])
      /\ DOMAIN SheetsOf(players') = CurrentIds'
      /\ \A k \in DOMAIN players' : SheetsOf(players')[players'[k].id] = Sheet(players'[k])
  BY <1>3, SheetsOfIs DEF CurrentIds
<1>5. Sheet(NewPlayer(i)) = << >> /\ NewPlayer(i).id = i
  BY DEF Sheet, NewPlayer
<1>6. n \in DOMAIN players' /\ DOMAIN players' = DOMAIN players \cup {n}
  BY <1>1
<1>7. CurrentIds' = CurrentIds \cup {i}
  BY <1>1, <1>5, <1>6 DEF CurrentIds
<1>8. SheetsOf(players')[i] = << >>
  BY <1>1, <1>4, <1>5, <1>6
<1>9. ASSUME NEW j \in CurrentIds PROVE SheetsOf(players')[j] = SheetsOf(players)[j]
  <2>1. PICK k \in DOMAIN players : j = players[k].id
    BY DEF CurrentIds
  <2>2. QED
    BY <1>1, <1>4, <1>6, <2>1
<1>10. SheetsOf(players') = [j \in CurrentIds' |-> SheetsOf(players')[j]]
  BY <1>4 DEF SheetsOf
<1>11. SheetsOf(players') = Rounds!With(SheetsOf(players), i, << >>)
  <2>1. Rounds!With(SheetsOf(players), i, << >>) =
          [j \in CurrentIds \cup {i} |->
             IF j = i THEN << >> ELSE SheetsOf(players)[j]]
    BY <1>4 DEF Rounds!With
  <2>2. QED
    BY <1>7, <1>8, <1>9, <1>10, <2>1
<1>12. UNCHANGED <<Phase, currQuestion, questions>>
  BY DEF AddPlayer, Phase
<1>13. QED
  BY <1>2, <1>4, <1>11, <1>12, SheetsAre DEF Rounds!Join

\* The entry is Quiz's Answer, unless the iterator points nowhere.
LEMMA RecordAnswers ==
  ASSUME QuizInv, fault = "none", NEW p \in Phones, Record(p), [Next]_vars
  PROVE  Rounds!Answer(playerID[p], choice[p]) \/ UNCHANGED Rounds!vars
<1> USE DEF QuizInv, AloneInv, HandlerInv, OneGameInv, RoundInv
<1> DEFINE i == playerID[p]
           a == choice[p]
           k == spot[p]
<1>1. UNCHANGED <<Phase, currQuestion, questions>>
  BY DEF Record, Write, Phase
<1>2. CASE k \notin DOMAIN players
  <2>1. players' = players
    BY <1>2 DEF Record, Write
  <2>2. QED
    BY <1>1, <2>1, Unseen
<1>3. CASE k \in DOMAIN players
  <2>1. players[k].id = i
    BY <1>3 DEF IteratorsOK
  <2>2. i \in CurrentIds
    BY <1>3, <2>1 DEF CurrentIds
  <2>3. /\ players \in Seq(PlayerRecord) /\ Apart(players)
        /\ players' \in Seq(PlayerRecord) /\ Apart(players')
    <3>1. TypeOK' /\ Apart(players')
      BY TypeNext, ApartNext
    <3>2. QED
      BY <3>1 DEF TypeOK, FieldsOK
  <2>4. asked[p] = currQuestion /\ currQuestion \in Nat /\ a \in Answers
    BY DEF Record, AskedIsCurrent, Answering, TypeOK, FieldsOK, LocalsOK
  <2> DEFINE r == WithEntry(players[k], currQuestion, a)
  <2>5. /\ DOMAIN players' = DOMAIN players
        /\ players[k] \in PlayerRecord
        /\ \A j \in DOMAIN players : players'[j].id = players[j].id
        /\ \A j \in DOMAIN players : j # k => players'[j] = players[j]
        /\ players'[k] = r
        /\ CurrentIds' = CurrentIds
    BY <1>3, <2>4, AnsweredPlayers
  <2>6. OneSheet(players[k]) /\ ~HasAnswered(players[k], currQuestion)
    BY <1>3, <2>4 DEF OneSheets, NotYet, Record
  <2> HIDE DEF r
  <2>7. /\ currQuestion \notin DOMAIN Sheet(players[k])
        /\ Sheet(r) = Rounds!With(Sheet(players[k]), currQuestion, a)
    BY <2>4, <2>5, <2>6, EntryOnSheet DEF r
  <2>8. /\ DOMAIN SheetsOf(players) = CurrentIds
        /\ \A j \in DOMAIN players : SheetsOf(players)[players[j].id] = Sheet(players[j])
        /\ DOMAIN SheetsOf(players') = CurrentIds
        /\ \A j \in DOMAIN players' : SheetsOf(players')[players'[j].id] = Sheet(players'[j])
    BY <2>3, <2>5, SheetsOfIs DEF CurrentIds
  <2>9. SheetsOf(players')[i] = Rounds!With(SheetsOf(players)[i], currQuestion, a)
    BY <1>3, <2>1, <2>5, <2>7, <2>8
  <2>10. ASSUME NEW j \in CurrentIds, j # i
         PROVE  SheetsOf(players')[j] = SheetsOf(players)[j]
    <3>1. PICK m \in DOMAIN players : j = players[m].id
      BY DEF CurrentIds
    <3>2. players'[m] = players[m]
      BY <2>1, <2>5, <2>10, <3>1
    <3>3. QED
      BY <2>5, <2>8, <3>1, <3>2
  <2>11. /\ SheetsOf(players') = [j \in CurrentIds |-> SheetsOf(players')[j]]
         /\ SheetsOf(players) = [j \in CurrentIds |-> SheetsOf(players)[j]]
    BY <2>8 DEF SheetsOf
  <2>12. SheetsOf(players') =
           [SheetsOf(players) EXCEPT ![i] = Rounds!With(@, currQuestion, a)]
    BY <2>2, <2>9, <2>10, <2>11
  <2>13. currQuestion \notin DOMAIN (SheetsOf(players)[i])
    BY <1>3, <2>1, <2>7, <2>8
  <2>14. Phase \in {"open", "closed"}
    <3>1. AnswerInFlight
      BY DEF Record, AnswerInFlight, AnswerSteps, Answering
    <3>2. gamePlayingThread \in {"test", "wait", "close", "sleep"}
      BY <3>1 DEF AnswersInRound
    <3>3. state \in {"PLAYING", "PAUSED"}
      BY <3>2 DEF RoundsOK
    <3>4. QED
      BY <3>3 DEF Phase
  <2>15. QED
    BY <1>1, <2>2, <2>8, <2>12, <2>13, <2>14, SheetsAre DEF Rounds!Answer
<1>4. QED
  BY <1>2, <1>3

\* The other writes are not seen.
LEMMA CountsUnseen ==
  ASSUME QuizInv, NEW p \in Phones, Count(p) \/ Pay(p), ~Record(p), [Next]_vars
  PROVE  UNCHANGED Rounds!vars
<1> USE DEF QuizInv, AloneInv, HandlerInv, OneGameInv, RoundInv
<1>1. UNCHANGED <<Phase, currQuestion, questions>>
  BY DEF Count, Pay, Write, Phase
<1>2. /\ DOMAIN players' = DOMAIN players
      /\ \A j \in DOMAIN players : players[j] \in PlayerRecord
      /\ \A j \in DOMAIN players : players'[j].id = players[j].id
      /\ \A j \in DOMAIN players : j # spot[p] => players'[j] = players[j]
      /\ spot[p] \in DOMAIN players =>
           \/ players'[spot[p]] = WithCount(players[spot[p]], asked[p])
           \/ players'[spot[p]] = Paid(players[spot[p]], correct[p])
      /\ CurrentIds' = CurrentIds
  BY AnsweredPlayers
<1>3. correct[p] \in BOOLEAN
  BY DEF TypeOK, LocalsOK
<1>4. ASSUME NEW j \in DOMAIN players PROVE Sheet(players'[j]) = Sheet(players[j])
  <2>1. /\ Sheet(WithCount(players[j], asked[p])) = Sheet(players[j])
        /\ Sheet(Paid(players[j], correct[p])) = Sheet(players[j])
    BY <1>2, <1>3, OthersOnSheet
  <2>2. QED
    BY <1>2, <2>1
<1>5. /\ players \in Seq(PlayerRecord) /\ Apart(players)
      /\ players' \in Seq(PlayerRecord) /\ Apart(players')
  <2>1. TypeOK' /\ Apart(players')
    BY TypeNext, ApartNext
  <2>2. QED
    BY <2>1 DEF TypeOK, FieldsOK
<1>6. /\ DOMAIN SheetsOf(players) = CurrentIds
      /\ \A j \in DOMAIN players : SheetsOf(players)[players[j].id] = Sheet(players[j])
      /\ DOMAIN SheetsOf(players') = CurrentIds
      /\ \A j \in DOMAIN players' : SheetsOf(players')[players'[j].id] = Sheet(players'[j])
  BY <1>2, <1>5, SheetsOfIs DEF CurrentIds
<1>7. ASSUME NEW i \in CurrentIds PROVE SheetsOf(players')[i] = SheetsOf(players)[i]
  <2>1. PICK m \in DOMAIN players : i = players[m].id
    BY DEF CurrentIds
  <2>2. QED
    BY <1>2, <1>4, <1>6, <2>1
<1>8. /\ SheetsOf(players') = [j \in CurrentIds |-> SheetsOf(players')[j]]
      /\ SheetsOf(players) = [j \in CurrentIds |-> SheetsOf(players)[j]]
  BY <1>6 DEF SheetsOf
<1>9. SheetsOf(players') = SheetsOf(players)
  BY <1>7, <1>8
<1>10. QED
  BY <1>1, <1>9, SheetsAre DEF Rounds!vars

\* Fetching the questions is LoadQuestions; the rest of preparing the game is
\* not seen.
LEMMA FetchLoads ==
  ASSUME QuizInv, FetchThread
  PROVE  Rounds!LoadQuestions \/ UNCHANGED Rounds!vars
<1> USE DEF QuizInv, AloneInv, HandlerInv, OneGameInv
<1>1. /\ state = "NULL" /\ state' \in {"NULL", "CREATED"}
      /\ UNCHANGED <<currQuestion, players>>
  BY DEF FetchThread, CollectQuestions, GameCreated, NullOK, gameVars
<1>2. Phase = "lobby" /\ Phase' = "lobby"
  BY <1>1 DEF Phase
<1>3. CASE questions' = questions
  BY <1>1, <1>2, <1>3, Unseen
<1>4. CASE questions' # questions
  <2>1. questions = << >> /\ questions' \in Seq(Answers) \ {<< >>}
    BY <1>4, FetchesAssumption
    DEF FetchThread, CollectQuestions, GameCreated, NullOK, gameVars
  <2>2. [i \in CurrentIds |-> Sheet(players[Position(i)])]' =
          [i \in CurrentIds |-> Sheet(players[Position(i)])]
    BY <1>1, SheetsAre
  <2>3. QED
    BY <1>1, <1>2, <2>1, <2>2 DEF Rounds!LoadQuestions
<1>5. QED
  BY <1>3, <1>4

\* The rounds of playGame are those of Quiz; what the game thread does with its
\* flag and its timers in between is not seen.
LEMMA RoundsAreQuiz ==
  ASSUME QuizInv, GameThread \/ Timers
  PROVE  \/ Rounds!Ask \/ Rounds!Close \/ Rounds!PrepareNext \/ Rounds!Finish
         \/ UNCHANGED Rounds!vars
<1> USE DEF QuizInv, AloneInv, HandlerInv, OneGameInv, gameVars
<1> DEFINE S == [i \in CurrentIds |-> Sheet(players[Position(i)])]
<1>1. /\ state \in States /\ currQuestion \in Nat /\ Len(questions) \in Nat
      /\ gamePlayingThread # "none" => state # "NULL" /\ questions # << >>
  BY LenProperties DEF TypeOK, FieldsOK, NullOK
<1>2. UNCHANGED <<questions, players>>
  BY DEF GameThread, BeginRound, OpenRound, TestFinished, CloseRound, NextRound,
         FinishGame, Timers, RoundTimeout, EndPause
<1>3. S' = S
  BY <1>2, SheetsAre
<1> HIDE DEF S
<1>4. CASE BeginRound \/ TestFinished \/ RoundTimeout
  <2>1. UNCHANGED <<state, currQuestion>>
    BY <1>4 DEF BeginRound, TestFinished, RoundTimeout
  <2>2. gamePlayingThread # "next" /\ gamePlayingThread' # "next"
    BY <1>4 DEF BeginRound, TestFinished, RoundTimeout
  <2>3. UNCHANGED Phase
    BY <2>1, <2>2 DEF Phase
  <2>4. QED
    BY <1>2, <2>1, <2>3, Unseen
<1>5. CASE OpenRound
  <2>1. state \in {"CREATED", "PREPARE"} /\ currQuestion < Len(questions)
    BY <1>1, <1>5 DEF OpenRound, RoundsOK, States
  <2>2. Phase \in {"lobby", "between"} /\ Phase' = "open"
    BY <1>5, <2>1 DEF OpenRound, Phase
  <2>3. QED
    BY <1>2, <1>3, <1>5, <2>1, <2>2 DEF OpenRound, Rounds!Ask, S
<1>6. CASE CloseRound
  <2>1. Phase = "open" /\ Phase' = "closed"
    BY <1>6 DEF CloseRound, RoundsOK, Phase
  <2>2. QED
    BY <1>2, <1>3, <1>6, <2>1 DEF CloseRound, Rounds!Close, S
<1>7. CASE EndPause
  <2>1. Phase = "closed" /\ Phase' = "closed"
    BY <1>7 DEF EndPause, RoundsOK, Phase
  <2>2. QED
    BY <1>2, <1>7, <2>1, Unseen DEF EndPause
<1>8. CASE NextRound
  <2>1. Phase = "closed" /\ Phase' = "between"
    BY <1>8 DEF NextRound, RoundsOK, Phase
  <2>2. QED
    BY <1>2, <1>3, <1>8, <2>1 DEF NextRound, Rounds!PrepareNext, S
<1>9. CASE FinishGame
  <2>1. /\ currQuestion = Len(questions) /\ Phase' = "over"
        /\ UNCHANGED currQuestion
    BY <1>1, <1>9 DEF FinishGame, QuestionsLeft, RoundsOK, Phase
  <2>2. state \in {"CREATED", "PREPARE", "FINISHED"}
    BY <1>1, <1>9 DEF FinishGame, RoundsOK, States
  <2>3. state # "CREATED"
    <3>1. Len(questions) # 0
      BY <1>1, <1>9, EmptySeq DEF FinishGame, TypeOK, FieldsOK
    <3>2. QED
      BY <2>1, <3>1 DEF RoundsOK
  <2>4. CASE state = "PREPARE"
    <3>1. Phase = "between"
      BY <1>9, <2>4 DEF FinishGame, Phase
    <3>2. QED
      BY <1>2, <1>3, <2>1, <3>1 DEF Rounds!Finish, S
  <2>5. CASE state = "FINISHED"
    <3>1. Phase = "over"
      BY <2>5 DEF Phase
    <3>2. QED
      BY <1>2, <2>1, <3>1, Unseen
  <2>6. QED
    BY <2>2, <2>3, <2>4, <2>5
<1>10. QED
  BY <1>4, <1>5, <1>6, <1>7, <1>8, <1>9 DEF GameThread, Timers

\* Every step of Game is a step of Quiz or not seen.
LEMMA StepsAreQuiz ==
  ASSUME NThreads = 1, OneBoard, QuizInv, [Next]_vars
  PROVE  [Rounds!Next]_(Rounds!vars)
<1> USE DEF QuizInv, AloneInv, HandlerInv, OneGameInv, gameVars
<1>1. CASE UNCHANGED vars
  <2>1. UNCHANGED <<Phase, currQuestion, questions, players>>
    BY <1>1 DEF vars, Phase
  <2>2. QED
    BY <2>1, Unseen
<1>2. CASE fault = "none"
  <2>1. ASSUME NEW b \in Boards, CreateGame(b) \/ BoardStep(b)
        PROVE  UNCHANGED Rounds!vars
    <3>1. UNCHANGED <<state, currQuestion, questions, gamePlayingThread>>
      BY <2>1, BoardsOpen
    <3>2. UNCHANGED Phase
      BY <3>1 DEF Phase
    <3>3. CASE CreateGame(b)
      <4>1. ~Listening /\ Busy = {} /\ players' = << >>
        BY <3>3, FreeMeansAlone DEF CreateGame, Listening, OneBoard
      <4>2. \A p \in Phones : pc[p] # "added"
        BY <4>1 DEF Busy, Sessions
      <4>3. players = << >>
        BY <1>2, <4>1, <4>2 DEF NobodyEarly
      <4>4. QED
        BY <3>1, <3>2, <4>1, <4>3, Unseen
    <3>4. CASE ~CreateGame(b)
      BY <2>1, <3>1, <3>2, <3>4, BoardsOpen, Unseen
    <3>5. QED
      BY <3>3, <3>4
  <2>2. ASSUME NEW p \in Phones, PhoneStep(p) \/ Asks(p)
        PROVE  [Rounds!Next]_(Rounds!vars)
    <3>1. CASE AddPlayer(p)
      <4>1. newID[p] \in PlayerIds
        BY <3>1, AddedPlayers
      <4>2. QED
        BY <3>1, <4>1, AddPlayerJoins DEF Rounds!Next
    <3>2. CASE Record(p)
      <4>1. choice[p] \in Answers
        BY <3>2 DEF Record, TypeOK, LocalsOK
      <4>2. Rounds!Answer(playerID[p], choice[p]) => playerID[p] \in PlayerIds
        <5> SUFFICES ASSUME Rounds!Answer(playerID[p], choice[p])
                     PROVE  playerID[p] \in PlayerIds
          OBVIOUS
        <5>1. playerID[p] \in CurrentIds
          BY DEF Rounds!Answer
        <5>2. PICK k \in DOMAIN players : playerID[p] = players[k].id
          BY <5>1 DEF CurrentIds
        <5>3. players[k] \in PlayerRecord
          BY LenProperties, ElementOfSeq DEF TypeOK, FieldsOK
        <5>4. QED
          BY <5>2, <5>3 DEF PlayerRecord
      <4>3. QED
        BY <1>2, <3>2, <4>1, <4>2, RecordAnswers DEF Rounds!Next
    <3>3. CASE (Count(p) \/ Pay(p)) /\ ~Record(p)
      BY <3>3, CountsUnseen
    <3>4. CASE ~AddPlayer(p) /\ ~Record(p) /\ ~Count(p) /\ ~Pay(p)
      <4>1. /\ UNCHANGED <<state, currQuestion, questions, players>>
            /\ gamePlayingThread' = "next" <=> gamePlayingThread = "next"
        BY <2>2, <3>4
        DEF PhoneStep, Emplace, PlayerAdded, CheckGameThread, JoinGameThread,
            SpawnGameThread, Find, Guard, Tally, Signal, Notify, Asks, EnterRoom,
            StartGame, GiveAnswer
      <4>2. UNCHANGED Phase
        BY <4>1 DEF Phase
      <4>3. QED
        BY <4>1, <4>2, Unseen
    <3>5. QED
      BY <3>1, <3>2, <3>3, <3>4
  <2>3. CASE FetchThread
    BY <2>3, FetchLoads DEF Rounds!Next
  <2>4. CASE GameThread \/ Timers
    BY <2>4, RoundsAreQuiz DEF Rounds!Next
  <2>5. CASE DataRace
    <3>1. UNCHANGED <<Phase, currQuestion, questions, players>>
      BY <2>5 DEF DataRace, Phase
    <3>2. QED
      BY <3>1, Unseen
  <2>6. QED
    BY <1>1, <2>1, <2>2, <2>3, <2>4, <2>5, Steps
<1>3. QED
  BY <1>1, <1>2 DEF Next

\* Nobody plays at first.
LEMMA QuizInit == Init => QuizInv /\ Rounds!Init
<1> SUFFICES ASSUME Init PROVE QuizInv /\ Rounds!Init
  OBVIOUS
<1>1. DOMAIN players = {}
  BY EmptySeq DEF Init
<1>2. Apart(players) /\ OneSheets /\ IteratorsOK
  BY <1>1 DEF Apart, OneSheets, IteratorsOK
<1>3. NewIdFresh /\ NotYet
  BY DEF Init, NewIdFresh, NotYet, Sessions
<1>4. CurrentIds = {}
  BY <1>1 DEF CurrentIds
<1>5. Phase = "lobby"
  BY DEF Init, Phase
<1>6. Rounds!Init
  BY <1>4, <1>5 DEF Init, Rounds!Init
<1>7. QED
  BY <1>2, <1>3, <1>6, AloneInit DEF QuizInv

\* With one scoreboard, one io thread and answers that do not outlast a pause,
\* what the threads do together is the quiz the players were promised
\* (ImplementsQuiz): each question is asked once and in order, everyone who has
\* joined may answer it once until the next one is prepared, and no answer
\* given is ever changed.
THEOREM GameIsQuiz ==
  ASSUME NThreads = 1, OneBoard, PauseOutlastsAnswers
  PROVE  Spec => ImplementsQuiz
<1>1. QuizInv /\ [Next]_vars => [Rounds!Next]_(Rounds!vars)
  BY StepsAreQuiz
<1>2. QED
  BY <1>1, QuizInit, QuizNext, PTL DEF Spec, ImplementsQuiz, Rounds!Spec
===============================================================================
