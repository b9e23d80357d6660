# Party Quiz in TLA+

Party Quiz is a server for a quiz played in one room: a scoreboard page on the
big screen, a player page on every phone.  This directory holds TLA+ models of
the server, TLC configurations that check them on small instances, and proofs,
checked by TLAPS, of the properties that matter most for instances of any size.
Paths below are relative to the repository's root.

1. [The system](#1-the-system)
2. [The modules](#2-the-modules)
3. [What is checked](#3-what-is-checked)
4. [Fairness](#4-fairness)
5. [What is proved](#5-what-is-proved)
6. [Findings](#6-findings)
7. [What is left out](#7-what-is-left-out)
8. [Plan](#8-plan)
9. [Running the checks](#9-running-the-checks)

## 1. The system

One process, one `Game`.  `main` starts a Boost.Asio `io_context` on half as
many threads as the machine has hardware threads (at least one).  Each TCP
connection has a strand, so its handlers never overlap, while handlers of
different connections do.  Two more threads work on the same `Game`: one fetches
the questions, one plays the rounds.

| component | code | state | operations |
|---|---|---|---|
| `Game` | `src/game/game.cpp` | `id`, `state`, `mainPlayerID`, `currQuestion`, `questions`, `players`, `questionFinished`, two `std::thread`s, a mutex and a condition variable | `createGame`, `addPlayer`, `startGame`, `playerAnswered`; the threads `getQuestions` and `playGame` |
| `Player` | `src/game/player.cpp` | score, answers given | `gaveAnswer` |
| `WebSocketSession` | `src/server/websocket_session.cpp` | `gameID`, `playerID`, the read buffer, `writeQueue`, its mutex | `on_read`, `handlePlayerRequest`, `handleScoreboardRequest`, `gameStateChanged`; `do_write`, `async_write`, `on_write` |
| `Server` | `src/server/server.cpp` | `webSessions` | callbacks from sessions to the game; `stateChanged`, which pushes a status to every session of a game; the texts of the statuses |
| start and shutdown | `src/main.cpp`, `src/server/server.cpp` | the `io_context`, its threads, the acceptor, the wait for signals | `main`, `init`, `start`, `on_accept`, the signal handler |
| `HttpSession` | `src/server/http_session.cpp` | one request, one response, a timer | pages, forms and polls; the upgrade to a WebSocket |
| parsers | `src/server/utils.cpp` | none outside a call | `parseRequestBody`, `parseBasicCookie`, `path_cat`, `mime_type` |
| pages | `pages/*.js` | what is on display | requests, and what is shown of a status |
| `QuestionsGenerator`, `Question`, `RandomGenerator` | `src/game` | none outside a call | questions from a web site and their Base64 texts, the shuffle of the answers, ids |

**How they interact.**  A page opens a WebSocket and sends `gameInit`.  For a
scoreboard this creates a game (its predecessor is overwritten: there is one
`Game` object) and starts the fetch thread.  For a player it adds a player; the
first one may press start.  That starts the game thread, which opens a round,
waits 15 s or until everybody has answered, pauses 5 s, goes on to the next
question.  Every change of state and every new player calls
`Server::stateChanged`, which goes through all registered sessions on the
calling thread, builds a status text for each, and appends it to the session's
write queue, possibly starting the write on that same thread.  A phone whose
room number is wrong is told "Invalid ID", which the page drops; its session stays,
with the `playerID` 0, and its page has the same buttons as the others.

**What is hard about it.**  Only `state` and `questionFinished` are ever accessed
under the game's mutex.  Handlers test and act in separate steps: whether the
game runs, then who answers, then whether all have answered, then the flag that
ends the round, then the wake-up.  `startGame` and `createGame` join threads
while they occupy an io thread.  A game may be re-created while the old game
thread runs.  The write queue of a session is filled by many threads and drained
by completion handlers.  Statuses are put together, read by read, from fields that
change meanwhile.  A vector may move while another thread writes to its elements.  An answer does not say which question it is for, so delays decide.
The io threads live only as long as something is outstanding.

**What makes each part correct.**

- Writing: one write at a time; nothing queued is left behind; first in, first
  out; bytes sent are those of the message.
- Game: an answer counts once and in order; scores match answers; a round ends
  early only when all have answered, and then does; no wake-up is lost; the
  handlers return; a started game finishes; no undefined behaviour.
- Broadcast: pages follow the game, never backwards; nobody is left out; a question
  shown is one that exists and not older than its number.
- HTTP: a form is accepted exactly when the game was called; a GET changes
  nothing; a request is answered; a connection ends.
- WebSocket requests: a text that is refused has changed nothing.
- Start and shutdown: the server serves until it is told to stop, accepts every
  browser, and then stops.
- Player page: one answer to a question; clicking the right text pays; the score
  shown is the score kept.
- Questions: all of what the site sends or nothing.
- Parsers and Base64: what is sent is what is read.

The hazards, each with the line where it bites and the properties that watch it,
are listed in `PROJECT.json`.

## 2. The modules

| module | models | extends / instantiates |
|---|---|---|
| `Outbox` | abstract: the line from server to browser | |
| `WriteQueue` | `do_write`, `async_write`, `on_write` of one session | `Outbox` as `Line` |
| `Player` | `Player`, `gaveAnswer` (operators) | |
| `Quiz` | abstract: what one game promises its players | |
| `Game` | `Game`, its threads and the handlers that call it | `Player`; `Quiz` as `Rounds` |
| `Broadcast` | `Server::stateChanged`, the statuses, `webSessions`, what pages show | |
| `HttpSession` | one HTTP connection | |
| `WebSocketSession` | the handshake, the read loop and the requests of one WebSocket | |
| `Server` | `main`, `Server::start`, the accept loop, the io threads, with one connection from its first request to its end | `HttpSession` as `Http`, `WebSocketSession` as `Socket` |
| `FormParser` | the two parsers of `utils.cpp` | |
| `Base64` | `QuestionsGenerator::Base64` | |
| `Questions` | `collectQuestions` and the constructor of `Question` (operators) | |
| `PlayerPage` | a player's page in play, with statuses and answers in flight | `Player`, `Questions` |
| `WriteQueueProofs`, `GameProofs`, `BroadcastProofs`, `FormParserProofs`, `Base64Proofs`, `PlayerPageProofs`, `ServerProofs` | theorems | the modules they are named after |
| `OneGameProofs` | theorems about `Game` with one scoreboard | `GameProofs` |
| `MCWriteQueue`, `MCGame`, `MCBroadcast`, `MCPlayerPage` | constants for TLC | the modules they are named after |
| `MCTexts` | constants for TLC; a behaviour is one of either module | `FormParser`, `Base64` |

`PROJECT.json` maps every definition to the lines it stands for.  Definitions
named `X_...` beside a definition `X` are faulty variants of it, such as somebody
might write; they are used to check that each property notices some plausible
bug, and are no part of the specifications.

### WriteQueue

A critical section of `writeMutex` is one step: nothing else is locked inside,
so nothing can tell.  `DoWrite(t, m)` appends and decides by the length of the
queue whether this thread goes on to `AsyncWrite(t)`, which copies the front
under the lock and hands a local buffer to the stream.  The network then
completes the write (`WriteSucceeds`, `WriteFails`, the external part) and the
strand runs `OnWrite` or `OnWriteError`.  `pc` says which threads are between
the two critical sections of `do_write`/`async_write`.  Whether the stream still
reads the buffer after `async_write` has returned is the build's and the
network's choice (`late`); the bytes are then right or wrong (`damaged`).

The refinement to `Outbox` counts a message as received when the browser has it,
though it stays at the front of `writeQueue` until `on_write` has run.

### Game

The fields of `Game` are variables of the same names.  A handler is as many steps
as it has accesses that other threads can separate; `pc[s]` is where the handler
of session `s` is, and a new handler needs one of `NThreads` io threads.

| code | actions |
|---|---|
| `createGame`, `clearGame` | `CreateGame`, `ResetGame`, `CheckFetchThread`, `JoinFetchThread`, `SpawnFetchThread` |
| `getQuestions` (fetch thread) | `CollectQuestions`, `GameCreated` |
| `playerEntered`, `addPlayer`, `playerAdded` | `EnterRoom`, `Emplace`, `AddPlayer`, `PlayerAdded` |
| `Server::startGame`, `Game::startGame` | `StartGame`, `CheckGameThread`, `JoinGameThread`, `SpawnGameThread` |
| `playerAnswered`, `gaveAnswer` | `GiveAnswer`, `Find`, `Guard`, `Record`, `Count`, `Pay`, `Tally`, `Signal`, `Notify` |
| `playGame`, `nextRound` (game thread) | `BeginRound`, `OpenRound`, `TestFinished`, `RoundTimeout`, `CloseRound`, `EndPause`, `NextRound`, `FinishGame` |

A phone may type any room number, `NoId` (the 0 of a game that is not there) included.  With
a wrong one it keeps `playerID` `NoId` and goes on like the others: it may press start, which
gets through as long as nobody has joined and `mainPlayerID` is 0 too, and it may answer.

`Find` is `find_if` and one of the two reads of `currQuestion` in the call of
`gaveAnswer`; `Guard` is the other one, in whichever order the compiler has them, and the early
returns.  `Record`, `Count` and `Pay` are the three writes, through the iterator, whose place is
`spot[p]`.  `emplace_back` takes time: from `Emplace` to `AddPlayer` other threads may
write to the vector.  At its end either the new player is behind the others, or all have been
moved.  Then each field of each player is the old one or what was written meanwhile (`Torn`),
what was added by others is gone, and no iterator points into the vector any more.  So
an answer's entry may survive and its count or its points be lost, or the other way round.

`fault` says how the program has run into undefined behaviour, after which the model stops
and its properties say nothing:

| `fault` | what has happened |
|---|---|
| `refused` | `gaveAnswer` through `end()` for a phone whose room number was wrong (`game.cpp:111`) |
| `early` | a phone entered room 0 before there was a scoreboard: `playerAdded` calls a null `callbackReceiver` (`game.cpp:51`) |
| `lost` | `gaveAnswer` through an iterator that points at no player, for a phone that joined |
| `index` | an answer is judged by a question that does not exist |
| `race` | anything else two threads in the vector may do, one of them in `emplace_back` (`DataRace`) |
| `thread` | a thread is joined by two at once, or assigned over while it runs |

Using a wrong iterator or index (`refused`, `lost`, `index`) may also go unnoticed, writing nowhere
and judging at random; so may a race.  A request that fails its first test changes
nothing and is not a step.

Abstractions: a question is its correct answer; ids come from small sets;
the assignments of `clearGame` before its `changeState` are one step, as are the
assignment of the state and of the new id after it; `currQuestion++` is atomic
(the other writer is `clearGame`); a field of a player is written atomically.
`cv.wait_for` is `TestFinished`, which either goes on or blocks (both inside the
lock that `Signal` needs), and `RoundTimeout`.

`PauseOutlastsAnswers` is the assumption that `playerAnswered` never takes longer
than the 5 s pause.  Without it a late handler can raise the flag in the next
round, which then ends before everybody has answered: TLC shows it in
seconds when `FlagMeansAllAnswered` is checked with the constant `FALSE` or with two
io threads.

### Broadcast

The game is reduced to the sequence of its states and one game is played; what
matters is who is told, when, and with which text.  A broadcasting thread `t` goes
through its own `rest[t]` of the list; for each session it takes `Skip`, or begins a status.
A status is put together in as many steps as it has reads of the game that others can
separate: the state (`Visit`, or `Answer` for the reply to `gameInit`), the number of the
question (`Count`), the state again, which decides whether the question is added (`Test`), the
question (`Ask`, where the index is not checked: past the end is the `fault` `index`), and the append to
the write queue (`Post`).  Since `WriteQueue` implements a first-in first-out line, a page shows
statuses in the order in which they were posted, and `Post` writes to `page` directly.
`gameID` is uninitialised in a new session, so it may equal the game's id by chance.  Phones that
are refused (`EnterWrongRoom`) are answered with a status like the others.

A `setting`, chosen at the start, says how many io threads, questions and phones there are,
whether players may join after the first has pressed start (`lateJoins`), and whether start may
be pressed while the pages are still told that there is a game (`earlyStart`).
With either, `PagesCurrent` and `PagesGoForward` fail: the status of a join is put together
while the game thread changes the state, and the older text may be queued last.  They are
stated for games that everybody has joined in time (`InTime`).  `QuestionsMatch` holds of every
setting: the number of the question and the question are read at different times, by any
thread, and yet the question is never older than its number and never one that does not
exist, and the game thread never reads past the end.  An io thread may: somebody joins late,
or a phone is refused, while the last pause ends.  With `InTime` it adds that question and
number agree, and that nobody but such a phone gets there.  A late join may also show a
`PLAYING` status without a question.  Nothing in the repository promises otherwise, so
these are documented here and in the hazards, and are not findings.

### HttpSession

A request is what the routing looks at: method, kind of path, whether there is a
query, the names of its fields, whether their values are numbers, and whether the cookie is a
number, a text or missing.
`Sent` is what the two scripts and browsers send (`player.js` sends `NaN` for an
empty room number), and some requests of other clients.  `Outcomes(r)` translates
`handle_request` and the handlers; a handler that returns without calling `send`
has the outcome `nothing`, and `std::stoi` on something else than a number, be it a field or
the cookie, `terminate`s the program, since no handler catches it.  A file that cannot be opened
is a `serverError`.  The actions are the
asynchronous operations of the connection, one outstanding at a time.

### WebSocketSession

A text is what the handlers look at: whether it is JSON, an object, its `type`
and `method`, and which of the other members are there with the right type.
`PageTexts` is what the two scripts send, `OddTexts` what other clients may.
`HandleRequest(text)` translates `handle_request` and the two handlers: what they
set (`gameID`, `isPlayer`), call and post.  Where an assertion of rapidjson would
fail (`HasMember` of a number, `GetInt` of a fraction) the program ends or goes on,
depending on the build.  `Fails` is an operation that completes with an error, and
`Timeout` the one that the stream's timer causes when the browser has `gone`.

### Server

`main` goes through the start-up; each of its steps may fail as in the code.  The
io threads are modelled as threads, since it matters whether one is free, how many
are left, and when `run` returns: a thread leaves when the `io_context` is stopped or
nothing is `Outstanding`, which stops it.  The connection of one browser, `Guest`, is
composed of `HttpSession` and `WebSocketSession`: their actions are conjoined with the
taking up of a handler by a thread, and `HttpUpgrade` is `Upgrade` of the one and
`Accept` of the other.  The handlers of the other browsers only occupy
threads, for any time, as `startGame` does when it joins the game thread.

### PlayerPage

The variables `statuses` and `answers` are the two directions of the WebSocket, each first in
first out.  The page (`page`) is what `handlePlayerStatus` and `giveAnswer` keep: the
question on display, whether the buttons are visible, `answerGiven`, the texts on the
buttons, the score.  The game goes through its states by itself, since a round may end
for either of its two reasons at any time.  `TakeAnswer` and `RecordAnswer` are the two
steps of `playerAnswered`, between which the round may close.  `clicks` and `recorded` are
histories: what the player has meant, and what of it counted.  `Disconnect` loses
whatever is on its way.  After it the page sends forms: `SendForm` leaves the buttons until the form is
answered, so that several may be on their way (`MaxForms`); `FormFails` is the callback after one was
lost; `TakeForm` is one that arrives, without the cookie that only a page without WebSockets sets, at which
`std::stoi` throws and the program ends (`fault`).

`Questions` gives the lists `collectQuestions` may return: every shuffle, and any text where the
code reads beyond the end of a list or a text that is none (`NoText`).  `MayCrash` says for which
responses the program may end there: no results at all, a result without all its members
(`complete`), an answer that is no text, or fewer than three wrong ones.

### Base64

`encode` and `decode` one byte or symbol per step, on ints that are never cleared and
wrap around after `Word` values (`2^32` in the program; overflow of a signed int is
undefined in older versions of the language, and compilers wrap around).  A symbol is its
place in the alphabet, `Pad` the `=`.  `encode` stands for the site, which encodes in the
same way.

### FormParser

The automaton of the two parsers, one character per step, the text being an
input that grows.  What holds in every state holds for every text.

## 3. What is checked

Each property of a passing run is also checked to fail when one mapped definition is
replaced by a faulty variant.

| run | instance | what it shows |
|---|---|---|
| `write_queue` | 2 foreign threads and the strand, 2 messages, 5 posts; fair | `OneWriteAtATime`, `NeverStranded`, `BrokenMeansSilent` (a broken stream is left alone), `ImplementsOutbox`, `ImplementsFairOutbox` (every post is received unless the connection breaks), `TypeOK` |
| `game_one_thread` | 1 scoreboard, 3 phones with right or wrong room numbers, 1 io thread, 2 questions | `NoFault` (but for wrong rooms), `ScoreMatchesAnswers`, `MainPlayerPresent`, `ImplementsQuiz`, `TypeOK` |
| `game_two_threads` | 1 scoreboard, 2 phones, 2 io threads, handlers of any length, 2 questions | what survives the races: `AnswersInOrder`, `QuestionInBounds`, `ThreadLeftForAnswers` |
| `game_recreated` | 2 scoreboards, 2 phones, 1 io thread, 1 question; fair | a game re-created at any moment: `FlagMeansAllAnswered`; `AnsweredRoundCloses` (no wake-up is lost: without the timer an answered round closes); with the timer `HandlersReturn`, `StartedGameFinishes` |
| `broadcast` | 1 scoreboard; 2 phones in time, 2 io threads, 2 questions; or 2 phones at any time, 1 io thread, 2 questions; or 1 phone at any time, also pressing start at once, 1 io thread, 1 question | `PagesCurrent`, `PagesGoForward` for the first setting, `QuestionsMatch`, `NobodyLeftBlank`, `TypeOK` for all |
| `server` | 2 io threads, 2 browsers, up to 2 requests over HTTP and 2 texts over the WebSocket, every request of `Sent` and every text; fair | `ServesUntilSignal`, `EveryBrowserAccepted`, `ShutdownCompletes`, `ConnectionEnds`, `AcceptedMeansCalled`, `RequestsAreAnswered`, `BadTextChangesNothing`, `TypeOK` |
| `texts` | both parsers, all texts of up to 7 characters over two letters and `= & ; blank`; Base64 of all texts of up to 6 bytes out of 4, with ints of 14 bits | `NoEmptyValue`, `FormRead`, `FirstCookieRead`, `RoundTrip`, `TypeOK` |
| `player_page` | 1 player, 1 other who joins, 2 forms on their way, 12 responses of the site with up to 2 results, all shuffles | `AllOrNothing`, `OneAnswerPerQuestion`, `RightTextPays`, `ScoreUpToDate` |

Runs that expect a violation are under [Findings](#6-findings).

**Why the bounds are enough.**  The write queue behaves differently for 0, 1 and more
messages and for a post before, between and after the two halves of `on_write`;
five posts by three threads contain every such combination twice.  Two foreign
threads are needed for two simultaneous first posts.  Two questions have a first
and a last round and a move between them, and correct answers that differ.  Three
phones have a main player, somebody who has answered and somebody who has not.
Two phones suffice where two handlers overlap, since each handler touches one player, the vector and
the tally.  Where nothing depends on the verdict there is one answer to choose, which is then right: what may
be in question is whether it is there, counted and paid.  One room number and the 0 are a right and a wrong
one, and which is which changes when the game is created.  Two scoreboards suffice for a re-creation, which comes between any two steps of
the first game.  The run with re-creations has one question to keep liveness
checking short; what it shows of the flag is proved for any number.  Except for liveness
and for what the runs with a violation show, all that is checked is also proved, for instances
of any size (section 5), so that the bounds only matter for finding mistakes quickly.  Seven characters hold two fields of
one-letter names and values in a form and a cookie with the beginning of another.
Two requests on a connection have a first and a last, and the one before the upgrade;
two texts have one whose effect the next might undo, and a buffer that was used.  With two io
threads one may be busy while the other has left; the properties for any number
are proved.  Six bytes make two groups of Base64 and every remainder; ints of 14 bits
wrap around twice on the way (the proof needs 12).  Two questions on the page have a status
of the next question behind one of the last, and one who joins has the running question
sent again; two forms have one that arrives while another is still out.  In `Broadcast` a second
io thread is only needed for two joins at once, since the game thread and the fetch thread are there
besides: one io thread with late joins has all races of a join with the game.

Deadlock checking is off in every run: people may stop doing things, posts and
requests are bounded, games end, texts end, and the program returns.

## 4. Fairness

- `WriteQueue`: a thread between the two critical sections is scheduled again;
  an asynchronous write completes, at the latest when the stream's idle timeout
  closes the connection; a ready completion handler runs.
- `Game`, `ThreadFairness`: runnable threads are scheduled.  Collecting questions ends
  because curl has time limits (`questionsgenerator.cpp:25`).  Requests are not
  fair: nobody has to join, answer or press start.  The 15 s of a round and the 5 s of a
  pause are the separate assumption `TimersGoOff`.  `game_recreated` is run under
  `UntimedSpec`, without it: `AnsweredRoundCloses` holds by the answers alone, and
  `HandlersReturn` and `StartedGameFinishes` have it as their antecedent.  `TimedSpec`
  has both.
- `Server`: `main` goes on, handlers that run return (in `Game` that is
  `HandlersReturn`), threads notice that the context is stopped.  The actions that need a
  free thread (`OnAccept`, `OnSignal` and the timeouts) have strong fairness: while threads
  are busy they are now and then disabled, but the `io_context` keeps ready handlers in one
  queue, first in first out, so that each has its turn.  That accepts succeed now and
  then is part of it; that they fail is not excluded.  Nothing is expected of browsers.
- `Broadcast`, `PlayerPage`, `FormParser`, `Base64`: safety only, no fairness.

## 5. What is proved

All proofs are checked by TLAPS for every value of the constants, from the
named assumptions of the modules (which TLC evaluates in its runs).

**`WriteQueueProofs`.**  `OneWriteAtATime` is not inductive: it says nothing of
the queue, whose length is what the code decides by.  The invariant is
`IInv == TypeOK /\ Token`: either nothing is on its way and the queue is empty or the link
down, or exactly one thing is (a thread about to call `async_write`, a write in
the stream, or a completion not yet handled) and it belongs to the front of
the queue.  Each action moves, creates or removes the token.  From
it follow `TypeCorrect`, `WritesAreSerial`, `NoMessageStranded`,
`BrokenStreamsAreLeftAlone` (with the link down nothing is on its way but perhaps a
completion, and the queue is not empty, so that nobody becomes first in line), and
`FirstInFirstOut`, that `WriteQueue` implements `Outbox`: posts map to posts,
successes to deliveries, the first failure to the break, everything else to
nothing.

**`GameProofs`.**
- `TypeCorrect`, for any number of sessions, threads and questions.
- `RoundsEndEarlyForAReason`: `FlagMeansAllAnswered` if `NThreads = 1` and
  `PauseOutlastsAnswers`.  The invariant `RoundInv` has, besides the types: the handlers are
  serialised; what `emplace_back` moves is current; `questionsAnswered` is up to date
  with the question; the state is PLAYING only inside a round; nobody is answering when the
  game thread moves on, and the question an answer is for is the current one; a count is backed by an
  entry, which is written before it; whoever is about to raise the flag does so because
  everybody has answered.  Both assumptions are needed: with either dropped TLC
  finds a round ended before everybody has answered.  The first is what `main` gives on a machine with
  fewer than four hardware threads.
- `FirstPlayerIsMain`: `MainPlayerPresent` if `NThreads = 1`, for any number of games.
  With two io threads two who join an empty room at once may each be the first.

**`OneGameProofs`.**  What `Game` promises if only one scoreboard page is opened (`OneBoard`), so
that the one `Game` object is not made anew while it is played.  Phones may type any room, at any
time.  All theorems need `OneBoard`, since a re-created game has its fields reset under the old game
thread, and some need more; with any hypothesis dropped, TLC has a counterexample on two phones (with
`OneBoard` dropped from `PlayersAnswerInOrder` it takes two io threads, and an answer of the old game
written into the new one; from `ScoresAddUp`, an answer to a question that the new game does not have).

| theorem | property | hypotheses besides `OneBoard` |
|---|---|---|
| `RoundHasQuestion` | `QuestionInBounds` | |
| `PlayersAnswerInOrder` | `AnswersInOrder` | |
| `AThreadIsLeft` | `ThreadLeftForAnswers` | `NThreads # 1` (a second press of start makes the only thread wait until the game is over) |
| `ScoresAddUp` | `ScoreMatchesAnswers` | `NThreads = 1` (a player may be moved between entry and points), `PauseOutlastsAnswers` (a late answer may be judged by a question that does not exist) |
| `NothingFaults` | `NoFault` | the same two (two `emplace_back`s at once lose a player) |
| `GameIsQuiz` | `ImplementsQuiz` | the same two |

Two of the properties name what they do not cover, since the code does not keep it: `NoFault` the
undefined behaviour that a wrong room number leads to (`refused`, `early`), `ThreadLeftForAnswers` phones
that wait for the game thread without having joined (`StartersJoined`), or under somebody else's id
(`IdsDistinct`).  `QuestionInBounds` is about the states; what a thread gets that tests the
state and reads the index later is `QuestionsMatch` of `Broadcast`.

`OneGameInv` is common to all: nothing is fetched before `createGame` is about to return (`LobbyOK`), nothing starts
before the questions are there (`NullOK`), and `state`, `currQuestion` and the place of the game thread
go together (`RoundsOK`).  None of the properties about rounds can do without the last, since the game
thread changes the state and the number of the question in separate steps.  On top of it:
- `OrderInv`: for any number of threads.  An iterator that still points into the vector points at the session's own
  player (`IteratorsOK`), who has not answered a later question, nor, once the guards are passed, the same
  (`EntryIsNext`); and the players that an `emplace_back` under way may move, or bring back, are as much in
  order as those in the vector (`AnswersInTime`).
- `ScoreInv`: answers under way belong to the round or its pause; the verdict an answer carries is that of the
  current question (`Judged`); and the score of each player lacks just the points that are still to be written
  (`Pending`, `Scored`).
- `AloneInv`: who has joined is in the vector (`EveryoneIn`), the iterator of whoever has joined points at a player
  (`SpotsLive`), and the thread object is free when `startGame` assigns it (`SpawnAlone`).  Phones that come
  before the game do not disturb that, because the program ends when `addPlayer` calls back (`NobodyEarly`).
- `StartInv`: `startGame` is only ever for the one main player, if those that wait have joined; so
  that at most one handler waits for the game thread.
- `QuizInv` joins `AloneInv` with `OrderInv` for the refinement.  `Quiz` has no io threads, no
  iterators and no flag: the lemmas map `AddPlayer`, `Record`, `CollectQuestions` and the game thread's steps
  to its actions and all others to nothing.

**`BroadcastProofs`.**  No hypotheses: any number of scoreboards, phones, io threads and questions, and
any settings.
- `NobodyIsLeftOut` (`NobodyLeftBlank`).  A session is registered before it is in a game, and in the game
  before its own first status is put together, while the first state is pushed to whoever is in the list.  The
  invariant `BlankInv` says of each member of a game that has a state that it is shown one, or is still to be
  visited by the fetch thread, or has its own status to come with a state in it (`BlankOK`); for
  that it follows where each thread may be (`StepsOK`), which state goes with it (`StateOK`) and who
  is a member (`MembersOK`).  `BroadcastTyped` follows from it.
- `TheQuestionIsTheRounds` (`QuestionsMatch`), for all settings.  `ReadsOK`, a part of `BlankInv`, is that a
  status under way, or shown, never has a text older than its number, as the number of the question only
  grows and is read first, nor one that does not exist; and that the game thread is at `Ask` only in a round or
  its pause, where the index is good.  With `InTime`, it follows from `InTimeInv` that the game thread alone
  tells members of rounds, whose reads then agree.
- `PagesKeepUp` (`PagesCurrent`) and `NoPageGoesBack` (`PagesGoForward`), whose antecedent is `InTime`.
  `InTimeInv` adds that until the start nobody has read any other state, and that from then on the game thread
  alone tells members anything: what it has read of a status is current, and a page
  shows the current state or is still to be visited.  The order of statuses is a number (`Rank`), three for each
  question, and no page is ahead of what was told last (`LastTold`).

**`FormParserProofs`.**  For texts of any length over any alphabet, in either parser:
- `FieldsHaveValues`: none yields a field or cookie with an empty value.  The invariant adds
  that the state `Value` has a value collected and the map holds no empty one.
- `FormsAreRead` (`FormRead`) and `FirstCookiesAreRead` (`FirstCookieRead`): fields with names and values from `Words` are
  read as they were sent, also when the two of a form have the same name.  The properties speak
  only of the text read so far being the whole of it.  The invariant `ReadInv` says, of each proper beginning of
  it, in which state the parser is and what it has collected of the name and the value
  (`InField`, `Agrees`), and once it is past the first field that the map holds just that (`SecondField`, `FirstCookie`).
- `ParserTyped` (`TypeOK`).

**`Base64Proofs`.**  `RoundTripHolds`: `decode` returns what `encode` was given, for texts of
any length, any bytes, and ints of any width of at least 12 bits.  The property itself says
nothing of what is between the two functions.  The invariant says which symbol stands at each place of
the coded text as a function of the bytes around it (`SymbolAt`), and that the int of
`encode` ends in the last byte and that of `decode` in the last symbol.  Nothing else of the ints is
ever taken out, since each step takes at most twelve bits; `Wrapped` is the lemma that
wrapping around does not change those.  The rest is the arithmetic of three bytes and four symbols.

**`PlayerPageProofs`.**  `AnswersAreOnce`: over its WebSocket the page sends at most one answer to a question
and none to an earlier one, for any number of questions, joins and statuses in flight.  What
the page relies on is the order of the statuses, so the invariant adds that those on their
way ask for the page's question or later ones, in order (`Behind`, `Sorted`), and that what was
clicked belongs to earlier questions while the buttons are visible (`Clicked`).
`NoShortenedGame`: a game is offered with all the questions of the site or not at all.
`PageKeepsScore` (`ScoreUpToDate`): outside a round and its pause the last status sent, or the page if
none is on its way, has the score the server keeps (`ScoreOK`); answers are recorded in silence, but only
within these two states, and leaving them sends a status.
`PaidForTheRightText` (`RightTextPays`), for every response of the site and every shuffle.  The invariant
`PayInv` follows a text from the site to the payment: the questions are among those the
response can become (`GameOK`); what is shown, or on its way to be, are the texts of the question asked
(`ShownOK`); an answer on its way means the text its button had (`MeantOK`); what is recorded is what came,
and it is paid for if it is the right index (`PaidOK`).  `IndexIsRight` is the lemma that the constructor's
loop finds the place the shuffle gave the right text, if there is one such place.

**`ServerProofs`.**  For any number of threads and browsers:
- `ThreadsServeUntilSignal` (`ServesUntilSignal`): no io
  thread leaves `run` before a signal.  The invariant is that the wait for a signal is
  outstanding from before the first thread is started; that alone keeps `run` from
  returning, since between connections nothing else need be.
- `ServerTyped` (`TypeOK`), `FormsCallTheGame` (`AcceptedMeansCalled`), `RequestsGetResponses`
  (`RequestsAreAnswered`) and `RefusedTextsChangeNothing` (`BadTextChangesNothing`), from one invariant of the
  connection, `GuestInv`: at most one thread works for it, and does so exactly while a handler
  runs (`OneThread`); nothing comes over the WebSocket before the upgrade; the outcome being carried out is
  one of the request being handled (`RequestOK`); no text is kept after its handler (`BufferOK`).  The rest is a case
  analysis of the handlers for every request in `Sent` and every text (`OutcomesMatch`, `OnlyUnknownQueries`,
  `TextAnswered`).  That no handler of another browser touches the connection is part of the model
  (each session has a strand, and its own buffers).

**Model-checked only.**  Liveness (`ImplementsFairOutbox`, `AnsweredRoundCloses`,
`HandlersReturn`, `StartedGameFinishes`, `EveryBrowserAccepted`, `ShutdownCompletes`,
`ConnectionEnds`) is out of the prover's reach.  Every other property of a passing run is a
theorem.

**Assumptions on constants.**  Sets of sessions, browsers and threads are finite and apart from each other, and
a value that means nothing (`NoId`, `NoAnswer`, `NoRequest`, `NoQuestion`, `NoText`) is none of what it stands in for.
`SiteSends` is any set of responses, `Fetches` any set of lists of questions, `Settings` any set of
settings, `Words` any words over `Letters`.  The bounds on the inputs (`MaxLength`, `MaxJoins`, `MaxForms`, `MaxRequests`, `MaxTexts`) are
any natural numbers.

## 6. Findings

Four statements of the repository about itself that the code does not keep, each with a run
that ends in a counterexample:

| run | statement | what happens |
|---|---|---|
| `write_queue_frames` | "The lifetime of the message has to extend for the duration of the async operation" (`http_session.h:37`) | `async_write` passes a local buffer to the stream and returns (`websocket_session.cpp:107`) |
| `write_queue_strand` | "We need to be executing within a strand to perform async operations" (`http_session.cpp:23`) | `stateChanged` starts writes from the game thread, the fetch thread and other strands (`websocket_session.cpp:111`) |
| `broadcast_connect` | "this example code is written to be thread-safe by default" (`http_session.cpp:25`) | `push_back` on `webSessions` while another thread iterates (`server.cpp:261`) |
| `game_starts_when_full` | "The game will start as soon as the player number is filled" (`README.md`) | there is no player number; the first player has to press start |

Met while modelling, and not runs of their own:

- A scoreboard page requested with a query field the handler does not know gets no
  response and the connection is dropped (`http_session.cpp:302`).  `RequestsAreAnswered`
  excepts this request by name.
- A game re-created while the old game thread runs becomes CREATED with
  questions already skipped (`game.cpp:60`, `game.cpp:136`).
- A late answer, or a second io thread, can end the next round at once (section 2, Game).
- A phone that is refused for its room number keeps its session, `playerID` 0 and buttons on its page.  A click in
  a round makes `playerAnswered` dereference `end()` (`game.cpp:111`-`115`).  Until somebody has joined,
  `mainPlayerID` is 0 as well, and such phones may start the game (`server.cpp:106`), several at once.
- Before a scoreboard is open the game's number is 0: a phone that enters room 0 is added and
  calls a null `callbackReceiver` (`game.cpp:51`).  If `createGame` has begun meanwhile, it may be cleared
  from the vector instead and keep its id.
- With two io threads an `emplace_back` may move a player between the writes of `gaveAnswer`
  (`game.cpp:41`, `player.cpp:19`-`22`): the answer is kept and the points or the count are lost.
- A player who joins during the game can leave pages behind or show a `PLAYING` status without
  a question, on which the script fails (`player.js:75`; section 2, Broadcast).
- A status put together by an io thread while the last pause ends, for a late join or a refused phone, can read
  `questions` past its end (`server.cpp:126`-`127`, `:184`-`185`, `game.cpp:53`).
- A form with text for a number, or a cookie that is text or missing where a number is needed, ends the program
  (`http_session.cpp:225`, `:252`, `:256`, `:317`).  A page whose WebSocket has closed falls back to such a form
  (`player.js:25`), without a cookie (`PlayerPage`, `TakeForm`).  JSON that is no object and an answer that is
  no int fail an assertion (`websocket_session.cpp:28`, `:69`).
- An answer that arrives after the next question has begun counts for that one
  (`game.cpp:115`), and the answer meant for it is dropped.  The page shows four buttons
  before the first question already; a click then is such an answer.
- If a wrong answer reads like the right one, only the first of the two buttons is right
  (`question.cpp:25`).  Fewer than three wrong answers are read beyond the end of the vector
  (`questionsgenerator.cpp:79`); a missing member, or one that is no text, fails an assertion (`:60`-`76`).
- "eventually destroying the `io_context` and all of the sockets in it" (`server.cpp:50`):
  the pending accept is destroyed only with the `io_context`, holds the `Server` by a
  `shared_ptr`, and the `Server` owns the `io_context`, so that neither ever is.  The program exits all the same.
- Without a network `main` reports it and goes on to `make_address("")`, which throws
  (`main.cpp:76`).  The usage text names an argument `<threads>` that is refused
  (`main.cpp:24`, `:68`).  A port above 65535 becomes another one (`main.cpp:82`).

## 7. What is left out

- `RandomGenerator`, `path_cat`, `mime_type`: functions without state; ids are any
  members of `Rooms` and `PlayerIds`.
- The texts of responses and statuses beyond what a property is about: the list of scores
  and the counters are copies that nothing depends on.
- The scoreboard page's countdown, QR code and layout.
- Curl and the network under TCP: they appear as their outcomes.
- In `Broadcast`: a second game, the scores message (it follows a scoreboard's status),
  the second press of start (in `Game`).
- In `Server`: the destruction of objects after `main` has returned.
- In `PlayerPage`: the polls of a page without WebSockets, a page that is reloaded (a new player to the server), and two players'
  answers, which are in `Game`.
- The growth of `webSessions` and of a dead session's queue: noted with the hazards.

## 8. Plan

Written in this order: the write path with its abstract line, the game with
its abstract quiz, the broadcasts, the parsers, the HTTP connection, the WebSocket's
requests, start and shutdown, the questions and their coding, the player's page.  Next:

1. `Broadcast` with a second game, whose statuses may meet those of the first on a page.
2. Theorems for re-created games: what is left of `OneGameInv` when `createGame` may come at any moment,
   beyond `FlagMeansAllAnswered` and `MainPlayerPresent`.
3. Theorems with several io threads: which of the consequences of `AloneInv` hold if nobody joins at the same
   time as somebody else.

## 9. Running the checks

In this directory, `tlc -config Game_one_thread.cfg MCGame` runs one of the runs listed
in `PROJECT.json`, and `tlapm GameProofs.tla` checks one module of proofs.  The longest
runs take one to two minutes with two workers.  Each module of
proofs takes one to a few minutes.
