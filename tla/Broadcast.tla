------------------------------- MODULE Broadcast -------------------------------
(***************************************************************************)
(* How the pages learn what the game is doing: Server::stateChanged, the   *)
(* status messages built by Server and WebSocketSession::gameStateChanged, *)
(* and the sessions that webSocketConnected registers.                     *)
(*                                                                         *)
(* The statuses are built without a lock by several threads: the game      *)
(* thread and the thread that fetched the questions (changeState), and the *)
(* io threads (addPlayer, and the answers to gameInit).  While one is put  *)
(* together the game goes on, so every read of the game is a step: the     *)
(* state, the number of the question, the state again to decide whether    *)
(* the question is added, the question itself.                             *)
(*                                                                         *)
(* The game is reduced to the sequence of its states (Game has the rest),  *)
(* and one game is played.  A page shows the messages in the order in      *)
(* which they are posted: WriteQueue implements a first-in first-out line. *)
(* Scores messages follow the scoreboard's statuses and are left out.      *)
(***************************************************************************)
EXTENDS Naturals, Sequences, FiniteSets

CONSTANTS
  Boards,        \* sessions of scoreboard pages (the first to init plays)
  Phones,        \* sessions of player pages
  Settings,      \* what the program and its guests may be like, see Setting
  NoQuestion     \* no question text in a status

ASSUME SessionsAssumption ==
  /\ IsFiniteSet(Boards)
  /\ IsFiniteSet(Phones)
  /\ Boards \cap Phones = {}
  /\ {"game", "fetch"} \cap (Boards \cup Phones) = {}
ASSUME NoQuestionAssumption == NoQuestion \notin Nat

\* threads: number of io threads; questions: number of questions the site
\* sends, if it is up; phones: how many phones connect; lateJoins: whether
\* players may join while or after the first presses start; earlyStart: whether
\* start may be pressed while the pages are still being told that there is a
\* game.
Setting == [threads : Nat \ {0}, questions : Nat \ {0}, phones : Nat,
            lateJoins : BOOLEAN, earlyStart : BOOLEAN]
ASSUME SettingsAssumption == Settings \subseteq Setting

Sessions == Boards \cup Phones
Threads == Sessions \cup {"game", "fetch"}

States == {"NULL", "CREATED", "PLAYING", "PAUSED", "FINISHED", "PREPARE"}

\* What a page takes from a status message, and for which kind of page it is
\* meant.
Status == [kind : {"none", "game", "player"}, state : States, question : Nat,
           text : Nat \cup {NoQuestion}]

Blank == [kind |-> "none", state |-> "NULL", question |-> 0, text |-> NoQuestion]

\* Where a session is that has nothing to do: its socket is not open, the page
\* has not sent gameInit yet, or that has been answered.
Resting == {"off", "open", "idle"}

\* Where a thread is that puts a status together.
Building == {"count", "test", "ask", "past", "post"}

VARIABLES
  setting,      \* chosen at the start, does not change
  state, currQuestion,
  webSessions,  \* Server::webSessions
  gameID,       \* the session's gameID: "game" if it is set to the id of the
                \* game, "chance" if it is not set and happens to equal it,
                \* "other" if it is some other number
  isPlayer,     \* the session's playerID is not 0
  pc,           \* where a thread is
  rest,         \* the sessions a broadcasting thread has still to visit
  header,       \* the part of a status that a thread has put together
  page,         \* the status the browser of a session shows
  fault         \* the program has run into undefined behaviour: "registry" if
                \* the list of sessions changed under a broadcast, "index" if
                \* a question was asked for that does not exist

gameVars == <<state, currQuestion>>
sessionVars == <<webSessions, gameID, isPlayer>>
vars == <<setting, gameVars, sessionVars, pc, rest, header, page, fault>>

TypeOK ==
  /\ setting \in Settings
  /\ state \in States
  /\ currQuestion \in 0..setting.questions
  /\ webSessions \in Seq(Sessions)
  /\ gameID \in [Sessions -> {"game", "chance", "other"}]
  /\ isPlayer \in [Sessions -> BOOLEAN]
  /\ pc \in [Threads -> {"off", "open", "idle", "change", "assign", "visit", "answer",
                         "done"} \cup Building]
  /\ rest \in [Threads -> Seq(Sessions)]
  /\ header \in [Threads -> Status]
  /\ page \in [Sessions -> Status]
  /\ fault \in {"none", "registry", "index"}

\* gameID is not initialised.
Init ==
  /\ setting \in Settings
  /\ state = "NULL"
  /\ currQuestion = 0
  /\ webSessions = << >>
  /\ gameID \in [Sessions -> {"chance", "other"}]
  /\ isPlayer = [s \in Sessions |-> FALSE]
  /\ pc = [t \in Threads |-> "off"]
  /\ rest = [t \in Threads |-> << >>]
  /\ header = [t \in Threads |-> Blank]
  /\ page = [s \in Sessions |-> Blank]
  /\ fault = "none"

Goto(t, step) == pc' = [pc EXCEPT ![t] = step]

ThreadFree == Cardinality({s \in Sessions : pc[s] \notin Resting}) < setting.threads

Iterating == {t \in Threads : rest[t] # << >>}

(* Faulty variants of definitions below, to check that the properties notice *)
(* them.                                                                     *)

\* the last session is left out
Registered_AllButLast(sessions) == SubSeq(sessions, 1, Len(sessions) - 1)

\* the question is added without a look at the state
Test_Always(t) ==
  /\ pc[t] = "test"
  /\ Goto(t, "ask")
  /\ UNCHANGED <<gameVars, sessionVars, rest, header, page, fault>>

\* the status that answers the scoreboard is begun before the session is given
\* the number of the game
AssignGameID_StatusFirst(b) ==
  /\ pc[b] = "assign"
  /\ gameID' = [gameID EXCEPT ![b] = "game"]
  /\ header' = [header EXCEPT ![b] = [Blank EXCEPT !.kind = "game"]]
  /\ Goto(b, "count")
  /\ UNCHANGED <<gameVars, webSessions, isPlayer, rest, page, fault>>

\* the next round plays the same question
GameGoesOn_Same ==
  /\ pc["game"] = "visit"
  /\ rest["game"] = << >>
  /\ Goto("game", IF state = "FINISHED" THEN "done" ELSE "change")
  /\ UNCHANGED <<gameVars, sessionVars, rest, header, page, fault>>

\* the question is counted in every state
GameGoesOn_Always ==
  /\ pc["game"] = "visit"
  /\ rest["game"] = << >>
  /\ currQuestion' = currQuestion + 1
  /\ Goto("game", IF state = "FINISHED" THEN "done" ELSE "change")
  /\ UNCHANGED <<state, sessionVars, rest, header, page, fault>>

\* The sessions a broadcast goes through.
Registered(sessions) == sessions

(***************************************************************************)
(* A browser opens a WebSocket: HttpSession::on_read registers the new     *)
(* session.  push_back while another thread iterates over the vector is    *)
(* undefined behaviour.                                                    *)
(***************************************************************************)
Connect(s) ==
  /\ pc[s] = "off"
  /\ ThreadFree
  /\ s \in Phones => Cardinality({p \in Phones : pc[p] # "off"}) < setting.phones
  /\ webSessions' = Append(webSessions, s)
  /\ Goto(s, "open")
  /\ fault' = IF Iterating # {} THEN "registry" ELSE fault
  /\ UNCHANGED <<gameVars, gameID, isPlayer, rest, header, page>>

(* The scoreboard's gameInit: handleScoreboardRequest.                      *)

\* createGame; one game is played.
CreateGame(b) ==
  /\ pc[b] = "open"
  /\ ThreadFree
  /\ pc["fetch"] = "off"
  /\ pc' = [pc EXCEPT ![b] = "assign", !["fetch"] = "change"]
  /\ UNCHANGED <<gameVars, sessionVars, rest, header, page, fault>>

AssignGameID(b) ==
  /\ pc[b] = "assign"
  /\ gameID' = [gameID EXCEPT ![b] = "game"]
  /\ Goto(b, "answer")
  /\ UNCHANGED <<gameVars, webSessions, isPlayer, rest, header, page, fault>>

(* A player's gameInit: handlePlayerRequest.  The session's gameID is set   *)
(* first, then addPlayer broadcasts, then playerID is set.  People read the *)
(* number of the game off a scoreboard page.                                *)

EnterRoom(p) ==
  /\ pc[p] = "open"
  /\ ThreadFree
  /\ \E b \in Boards : page[b].state # "NULL"
  /\ setting.lateJoins \/ pc["game"] = "off"
  /\ gameID' = [gameID EXCEPT ![p] = "game"]
  /\ rest' = [rest EXCEPT ![p] = Registered(webSessions)]
  /\ Goto(p, "visit")
  /\ UNCHANGED <<gameVars, webSessions, isPlayer, header, page, fault>>

\* The number is not the game's: "Invalid ID", which the page drops, and a
\* status.
EnterWrongRoom(p) ==
  /\ pc[p] = "open"
  /\ ThreadFree
  /\ gameID' = [gameID EXCEPT ![p] = "other"]
  /\ Goto(p, "answer")
  /\ UNCHANGED <<gameVars, webSessions, isPlayer, rest, header, page, fault>>

\* A player presses start, or, while nobody has entered, a phone that was
\* refused.  Game has the details.
StartGame(p) ==
  /\ pc[p] = "idle"
  /\ ThreadFree
  /\ isPlayer[p] \/ \A q \in Phones : gameID[q] # "game"
  /\ state = "CREATED"
  /\ pc["game"] = "off"
  /\ setting.lateJoins \/ \A s \in Sessions : pc[s] \in Resting
  /\ setting.earlyStart \/ pc["fetch"] = "done"
  /\ Goto("game", "change")
  /\ UNCHANGED <<gameVars, sessionVars, rest, header, page, fault>>

-------------------------------------------------------------------------------
(* Game::changeState *)

NextState ==
  CASE state \in {"CREATED", "PREPARE"} ->
         IF currQuestion < setting.questions THEN "PLAYING" ELSE "FINISHED"
    [] state = "PLAYING" -> "PAUSED"
    [] state = "PAUSED" -> "PREPARE"

ChangeState(t, new) ==
  /\ pc[t] = "change"
  /\ state' = new
  /\ rest' = [rest EXCEPT ![t] = Registered(webSessions)]
  /\ Goto(t, "visit")
  /\ UNCHANGED <<currQuestion, sessionVars, header, page, fault>>

(* Server::stateChanged: the loop over the sessions.                        *)

Skip(t) ==
  /\ pc[t] = "visit"
  /\ rest[t] # << >>
  /\ gameID[Head(rest[t])] = "other"
  /\ rest' = [rest EXCEPT ![t] = Tail(@)]
  /\ UNCHANGED <<gameVars, sessionVars, pc, header, page, fault>>

\* WebSocketSession::gameStateChanged begins with a status of a kind.
Begin(t, kind) ==
  /\ header' = [header EXCEPT ![t] = [Blank EXCEPT !.kind = kind, !.state = state]]
  /\ Goto(t, "count")
  /\ UNCHANGED <<gameVars, sessionVars, rest, page, fault>>

Visit(t) ==
  /\ pc[t] = "visit"
  /\ rest[t] # << >>
  /\ gameID[Head(rest[t])] # "other"
  /\ Begin(t, IF isPlayer[Head(rest[t])] THEN "player" ELSE "game")

(* getGameStatusJSONString and getPlayerStatusJSONString. *)

Count(t) ==
  /\ pc[t] = "count"
  /\ header' = [header EXCEPT ![t].question = currQuestion]
  /\ Goto(t, "test")
  /\ UNCHANGED <<gameVars, sessionVars, rest, page, fault>>

\* The states with whose statuses the question is sent.
ShownIn(kind) == IF kind = "player" THEN {"PLAYING"} ELSE {"PLAYING", "PAUSED"}

Test(t) ==
  /\ pc[t] = "test"
  /\ Goto(t, IF state \in ShownIn(header[t].kind) THEN "ask" ELSE "post")
  /\ UNCHANGED <<gameVars, sessionVars, rest, header, page, fault>>

\* giveQuestion: the index is not checked.
Ask(t) ==
  /\ pc[t] = "ask"
  /\ \/ /\ currQuestion < setting.questions
        /\ header' = [header EXCEPT ![t].text = currQuestion]
        /\ Goto(t, "post")
        /\ UNCHANGED fault
     \/ /\ currQuestion = setting.questions
        /\ Goto(t, "past")
        /\ fault' = "index"
        /\ UNCHANGED header
  /\ UNCHANGED <<gameVars, sessionVars, rest, page>>

\* A scoreboard page takes a status with state 0 for scores, a player page
\* drops what is not for players.
Shows(s, status) ==
  IF s \in Boards THEN status.kind = "game" /\ status.state # "NULL"
                  ELSE status.kind = "player"

\* The status is queued for the session visited, or for that of the handler.
Post(t) ==
  /\ pc[t] = "post"
  /\ LET s == IF rest[t] # << >> THEN Head(rest[t]) ELSE t IN
       page' = IF Shows(s, header[t]) THEN [page EXCEPT ![s] = header[t]] ELSE page
  /\ rest' = IF rest[t] # << >> THEN [rest EXCEPT ![t] = Tail(@)] ELSE rest
  /\ header' = [header EXCEPT ![t] = Blank]
  /\ Goto(t, IF rest[t] # << >> THEN "visit" ELSE "idle")
  /\ UNCHANGED <<gameVars, sessionVars, fault>>

\* getQuestions without any questions: nobody is told.
FetchFails ==
  /\ pc["fetch"] = "change"
  /\ Goto("fetch", "done")
  /\ UNCHANGED <<gameVars, sessionVars, rest, header, page, fault>>

(* After the loop. *)

FetchDone ==
  /\ pc["fetch"] = "visit"
  /\ rest["fetch"] = << >>
  /\ Goto("fetch", "done")
  /\ UNCHANGED <<gameVars, sessionVars, rest, header, page, fault>>

GameGoesOn ==
  /\ pc["game"] = "visit"
  /\ rest["game"] = << >>
  /\ currQuestion' = IF state = "PREPARE" THEN currQuestion + 1 ELSE currQuestion
  /\ Goto("game", IF state = "FINISHED" THEN "done" ELSE "change")
  /\ UNCHANGED <<state, sessionVars, rest, header, page, fault>>

PlayerAdded(p) ==
  /\ pc[p] = "visit"
  /\ rest[p] = << >>
  /\ isPlayer' = [isPlayer EXCEPT ![p] = TRUE]
  /\ Goto(p, "answer")
  /\ UNCHANGED <<gameVars, webSessions, gameID, rest, header, page, fault>>

(* The status that answers gameInit. *)

Answer(s) ==
  /\ pc[s] = "answer"
  /\ Begin(s, IF s \in Phones THEN "player" ELSE "game")

-------------------------------------------------------------------------------
Request ==
  \/ \E s \in Sessions : Connect(s)
  \/ \E b \in Boards : CreateGame(b)
  \/ \E p \in Phones : EnterRoom(p) \/ EnterWrongRoom(p) \/ StartGame(p)

Next ==
  /\ fault = "none"
  /\ UNCHANGED setting
  /\ \/ Request
     \/ ChangeState("fetch", "CREATED")
     \/ ChangeState("game", NextState)
     \/ \E b \in Boards : AssignGameID(b)
     \/ \E p \in Phones : PlayerAdded(p)
     \/ \E t \in Threads : Skip(t) \/ Visit(t)
     \/ \E t \in Threads : Count(t) \/ Test(t) \/ Ask(t) \/ Post(t)
     \/ \E s \in Sessions : Answer(s)
     \/ FetchFails
     \/ FetchDone
     \/ GameGoesOn

Spec == Init /\ [][Next]_vars

-------------------------------------------------------------------------------
(* Properties *)

Members == {b \in Boards : gameID[b] = "game"} \cup {p \in Phones : isPlayer[p]}

\* Everybody has joined when the game starts, and has been told of it.
InTime == ~setting.lateJoins /\ ~setting.earlyStart

\* Nothing is being pushed: the game thread waits for answers or for the end
\* of the pause or has finished, and no handler is running.
Quiet ==
  /\ \A s \in Sessions : pc[s] \in Resting
  /\ pc["fetch"] = "done"
  /\ pc["game"] \in {"off", "change", "done"}

\* The pages keep up: if everybody has joined when the first presses start,
\* then whenever nothing is being pushed, the page of everybody in the game
\* shows the game's state, and its question while it is asked.
PagesCurrent ==
  InTime /\ Quiet => \A s \in Members :
    /\ page[s].state = state
    /\ state \in {"PLAYING", "PAUSED"} => page[s].question = currQuestion

\* Nobody is left out: whoever joins at whatever moment, the page shows a game
\* in the end.  A scoreboard relies on its session being given the number of
\* the game before the state is read for the answer, since the thread that
\* fetches the questions may broadcast at any time.
NobodyLeftBlank ==
  Quiet /\ state # "NULL" => \A s \in Members : page[s].state # "NULL"

\* A page that is told that a question is asked is told which.  The number of
\* the question and the question are read at different times, so the question
\* may be a later one than the number says, but never an earlier one and never
\* one that does not exist: the unchecked index is past the end only under an
\* io thread, or the fetch thread, that puts a status together while the game
\* thread ends the last pause.  The game thread's own statuses are safe from
\* that.  If everybody has joined in time, so are all those for the players:
\* question and number agree on every page that shows a round, and nobody but
\* a phone that is refused during the game brings the server down.
QuestionsMatch ==
  /\ \A s \in Sessions : page[s].text # NoQuestion =>
       page[s].question <= page[s].text /\ page[s].text < setting.questions
  /\ pc["game"] # "past"
  /\ InTime =>
       /\ \A s \in Members :
            page[s].state = "PLAYING" => page[s].text = page[s].question
       /\ \A t \in Members \cup {"fetch"} : pc[t] # "past"

\* No page goes back to an earlier state of the game, unless somebody joins
\* late.
Rank(status) ==
  CASE status.state = "NULL" -> 0
    [] status.state = "CREATED" -> 1
    [] status.state = "PLAYING" -> 2 + 3 * status.question
    [] status.state = "PAUSED" -> 3 + 3 * status.question
    [] status.state = "PREPARE" -> 4 + 3 * status.question
    [] status.state = "FINISHED" -> 5 + 3 * status.question

PagesGoForward ==
  [][InTime => \A s \in Members : Rank(page'[s]) >= Rank(page[s])]_vars

\* "this example code is written to be thread-safe by default": nobody changes
\* the list of sessions while a broadcast goes through it.
RegistryThreadSafe == fault # "registry"

===============================================================================
