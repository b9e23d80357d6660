--------------------------------- MODULE Server ---------------------------------
(***************************************************************************)
(* The program from main to its end: the threads of the io_context, the    *)
(* accept loop, the signal that stops it, and one of the connections, from *)
(* its first request over HTTP to the end of its WebSocket (main.cpp,      *)
(* server.cpp, and the modules HttpSession and WebSocketSession).          *)
(*                                                                         *)
(* Handlers run on the threads that are in ioc_.run().  A thread leaves    *)
(* run() when the io_context has been stopped or nothing is outstanding    *)
(* that could make a handler run.  The handlers of the connections of      *)
(* other browsers only keep threads busy (startGame may do so for long).   *)
(***************************************************************************)
EXTENDS Naturals, FiniteSets, Sequences

CONSTANTS
  NThreads,      \* number of io threads
  Browsers,      \* browsers that connect once each
  Guest,         \* the browser whose connection is modelled
  MaxRequests,   \* bound on the number of requests over HTTP
  NoRequest,
  MaxTexts       \* bound on the number of texts over the WebSocket

ASSUME NThreadsAssumption == NThreads \in Nat \ {0}
ASSUME BrowsersAssumption == IsFiniteSet(Browsers) /\ Guest \in Browsers
ASSUME BoundsAssumption == MaxRequests \in Nat /\ MaxTexts \in Nat

IoThreads == 1..NThreads

VARIABLES
  main,        \* the next thing main does: check its "arguments", find its
               \* "address", "init" the acceptor, "wait" for signals, "spawn"
               \* the threads, "accept", "join" the threads; "returned" from
               \* start, or "failed" before
  io,          \* an io thread: "new", "run" (idle in run), "guest" or "other"
               \* (whose handler it executes), "left" (run has returned)
  waiting,     \* the wait for a signal is outstanding
  signal,      \* SIGINT or SIGTERM has been raised
  stopped,     \* the io_context is stopped
  accepting,   \* an asynchronous accept is outstanding
  browser      \* a browser: "away", "waiting" to be accepted, "accepted"

mainVars == <<main, waiting, signal, stopped, accepting, browser>>

\* The connection of Guest.
VARIABLES step, deadline, request, outcome, asked,
          reading, buffer, gameID, isPlayer, called, replies, texts, gone,
          terminated

httpVars == <<step, deadline, request, outcome, asked>>
socketVars == <<reading, buffer, gameID, isPlayer, called, replies, texts, gone>>
vars == <<mainVars, io, httpVars, socketVars, terminated>>

Http == INSTANCE HttpSession
Socket == INSTANCE WebSocketSession

ASSUME NoRequestAssumption == NoRequest \notin Http!Request

TypeOK ==
  /\ main \in {"arguments", "address", "init", "wait", "spawn", "accept", "join",
               "returned", "failed"}
  /\ io \in [IoThreads -> {"new", "run", "guest", "other", "left"}]
  /\ waiting \in BOOLEAN
  /\ signal \in BOOLEAN
  /\ stopped \in BOOLEAN
  /\ accepting \in BOOLEAN
  /\ browser \in [Browsers -> {"away", "waiting", "accepted"}]
  /\ Http!TypeOK
  /\ Socket!TypeOK
  /\ Cardinality({t \in IoThreads : io[t] = "guest"}) =
       IF "handle" \in {step, reading} THEN 1 ELSE 0

Init ==
  /\ main = "arguments"
  /\ io = [t \in IoThreads |-> "new"]
  /\ waiting = FALSE
  /\ signal = FALSE
  /\ stopped = FALSE
  /\ accepting = FALSE
  /\ browser = [b \in Browsers |-> "away"]
  /\ Http!Init
  /\ Socket!Init

(* Faulty variants of definitions below, to check that the properties notice *)
(* them.                                                                     *)

\* the threads are started before anything is outstanding
WaitForSignals_Later ==
  /\ main = "wait"
  /\ main' = "spawn"
  /\ UNCHANGED <<io, waiting, signal, stopped, accepting, browser,
                 httpVars, socketVars, terminated>>

\* no other accept after an error
AcceptFails_GivesUp(b) ==
  /\ accepting
  /\ browser[b] = "waiting"
  /\ accepting' = FALSE
  /\ UNCHANGED <<main, io, waiting, signal, stopped, browser,
                 httpVars, socketVars, terminated>>

\* the handler does not stop the io_context
OnSignal_Returns ==
  /\ waiting
  /\ signal
  /\ waiting' = FALSE
  /\ UNCHANGED <<main, io, signal, stopped, accepting, browser,
                 httpVars, socketVars, terminated>>

-------------------------------------------------------------------------------
(* main and Server::start, on the main thread. *)

Proceed(from, to) == main = from /\ main' = to

CheckArguments ==
  /\ Proceed("arguments", "address") \/ Proceed("arguments", "failed")
  /\ UNCHANGED <<io, waiting, signal, stopped, accepting, browser,
                 httpVars, socketVars, terminated>>

\* Without a network getIPAddress returns an empty text, for which
\* make_address throws.
FindAddress ==
  /\ \/ Proceed("address", "init") /\ UNCHANGED terminated
     \/ Proceed("address", "failed") /\ terminated' = TRUE
  /\ UNCHANGED <<io, waiting, signal, stopped, accepting, browser,
                 httpVars, socketVars>>

\* open, set_option, bind, listen
InitAcceptor ==
  /\ Proceed("init", "wait") \/ Proceed("init", "failed")
  /\ UNCHANGED <<io, waiting, signal, stopped, accepting, browser,
                 httpVars, socketVars, terminated>>

\* signals.async_wait
WaitForSignals ==
  /\ Proceed("wait", "spawn")
  /\ waiting' = TRUE
  /\ UNCHANGED <<io, signal, stopped, accepting, browser,
                 httpVars, socketVars, terminated>>

SpawnThread(t) ==
  /\ main = "spawn"
  /\ io[t] = "new"
  /\ \A s \in 1..(t - 1) : io[s] # "new"
  /\ io' = [io EXCEPT ![t] = "run"]
  /\ main' = IF t = NThreads THEN "accept" ELSE "spawn"
  /\ UNCHANGED <<waiting, signal, stopped, accepting, browser,
                 httpVars, socketVars, terminated>>

\* run, do_accept
StartAccepting ==
  /\ Proceed("accept", "join")
  /\ accepting' = TRUE
  /\ UNCHANGED <<io, waiting, signal, stopped, browser,
                 httpVars, socketVars, terminated>>

Join ==
  /\ Proceed("join", "returned")
  /\ \A t \in IoThreads : io[t] = "left"
  /\ UNCHANGED <<io, waiting, signal, stopped, accepting, browser,
                 httpVars, socketVars, terminated>>

(* ioc_.run, on an io thread. *)

\* What of the guest's connection is outstanding.
GuestOutstanding ==
  /\ browser[Guest] = "accepted"
  /\ step \in {"read", "write"} \/ reading \in {"accept", "read"}

Outstanding ==
  \/ waiting \/ accepting \/ GuestOutstanding
  \/ \E t \in IoThreads : io[t] \in {"guest", "other"}

LeaveRun(t) ==
  /\ io[t] = "run"
  /\ stopped \/ ~Outstanding
  /\ io' = [io EXCEPT ![t] = "left"]
  /\ stopped' = TRUE
  /\ UNCHANGED <<main, waiting, signal, accepting, browser,
                 httpVars, socketVars, terminated>>

\* A thread can take up a handler.
ThreadFree == ~stopped /\ \E t \in IoThreads : io[t] = "run"

\* SIGINT or SIGTERM; before the wait it would just end the program.
RaiseSignal ==
  /\ waiting
  /\ ~signal
  /\ signal' = TRUE
  /\ UNCHANGED <<main, io, waiting, stopped, accepting, browser,
                 httpVars, socketVars, terminated>>

OnSignal ==
  /\ ThreadFree
  /\ waiting
  /\ signal
  /\ waiting' = FALSE
  /\ stopped' = TRUE
  /\ UNCHANGED <<main, io, signal, accepting, browser,
                 httpVars, socketVars, terminated>>

\* on_accept, with do_accept after it.
OnAccept(b) ==
  /\ ThreadFree
  /\ accepting
  /\ browser[b] = "waiting"
  /\ browser' = [browser EXCEPT ![b] = "accepted"]
  /\ UNCHANGED <<main, io, waiting, signal, stopped, accepting,
                 httpVars, socketVars, terminated>>

\* on_accept with an error, the browser's connection being lost or still
\* waiting; then do_accept all the same.
AcceptFails(b) ==
  /\ ThreadFree
  /\ accepting
  /\ browser[b] = "waiting"
  /\ browser' \in {browser, [browser EXCEPT ![b] = "away"]}
  /\ UNCHANGED <<main, io, waiting, signal, stopped, accepting,
                 httpVars, socketVars, terminated>>

Connect(b) ==
  /\ main \in {"wait", "spawn", "accept", "join"}   \* listening
  /\ browser[b] = "away"
  /\ browser' = [browser EXCEPT ![b] = "waiting"]
  /\ UNCHANGED <<main, io, waiting, signal, stopped, accepting,
                 httpVars, socketVars, terminated>>

(* Handlers of other connections. *)

TakeUp(t, whose) == ~stopped /\ io[t] = "run" /\ io' = [io EXCEPT ![t] = whose]

PutDown(t, whose) == io[t] = whose /\ io' = [io EXCEPT ![t] = "run"]

OtherHandler(t) ==
  /\ TakeUp(t, "other")
  /\ \E b \in Browsers \ {Guest} : browser[b] = "accepted"
  /\ UNCHANGED <<mainVars, httpVars, socketVars, terminated>>

OtherReturns(t) ==
  /\ PutDown(t, "other")
  /\ UNCHANGED <<mainVars, httpVars, socketVars, terminated>>

(* Handlers of the guest's connection, on its strand. *)

Connected == browser[Guest] = "accepted"

HttpOnRead(t) ==
  /\ Connected
  /\ TakeUp(t, "guest")
  /\ Http!OnRead
  /\ UNCHANGED <<mainVars, socketVars>>

HttpHandle(t) ==
  /\ PutDown(t, "guest")
  /\ Http!Handle
  /\ UNCHANGED <<mainVars, socketVars>>

HttpTimeout ==
  /\ Connected
  /\ ThreadFree
  /\ Http!Timeout
  /\ UNCHANGED <<mainVars, io, socketVars>>

HttpGoesOn ==
  /\ Connected
  /\ ThreadFree
  /\ Http!ReadFails \/ Http!OnWrite \/ Http!LastWrite
  /\ UNCHANGED <<mainVars, io, socketVars>>

\* The socket and the request move on to a WebSocketSession.
HttpUpgrade ==
  /\ Connected
  /\ ThreadFree
  /\ Http!Upgrade
  /\ Socket!Accept
  /\ UNCHANGED <<mainVars, io>>

SocketOnRead(t) ==
  /\ TakeUp(t, "guest")
  /\ Socket!OnRead
  /\ UNCHANGED <<mainVars, httpVars>>

SocketHandle(t) ==
  /\ PutDown(t, "guest")
  /\ Socket!Handle
  /\ UNCHANGED <<mainVars, httpVars>>

SocketTimeout ==
  /\ ThreadFree
  /\ Socket!Timeout
  /\ UNCHANGED <<mainVars, io, httpVars>>

SocketGoesOn ==
  /\ ThreadFree
  /\ Socket!OnAccept \/ Socket!Fails
  /\ UNCHANGED <<mainVars, io, httpVars>>

GuestGoes ==
  /\ Connected
  /\ Socket!Go
  /\ UNCHANGED <<mainVars, io, httpVars>>

-------------------------------------------------------------------------------
Main ==
  \/ CheckArguments
  \/ FindAddress
  \/ InitAcceptor
  \/ WaitForSignals
  \/ \E t \in IoThreads : SpawnThread(t)
  \/ StartAccepting
  \/ Join

Handlers ==
  \/ OnSignal
  \/ \E b \in Browsers : OnAccept(b) \/ AcceptFails(b)
  \/ \E t \in IoThreads : OtherHandler(t) \/ OtherReturns(t)
  \/ \E t \in IoThreads : HttpOnRead(t) \/ HttpHandle(t)
  \/ HttpTimeout \/ HttpGoesOn \/ HttpUpgrade
  \/ \E t \in IoThreads : SocketOnRead(t) \/ SocketHandle(t)
  \/ SocketTimeout \/ SocketGoesOn

World ==
  \/ RaiseSignal
  \/ \E b \in Browsers : Connect(b)
  \/ GuestGoes

Next ==
  /\ ~terminated
  /\ \/ Main
     \/ Handlers
     \/ \E t \in IoThreads : LeaveRun(t)
     \/ World

Spec == Init /\ [][Next]_vars

(***************************************************************************)
(* Threads run, handlers return (Game!HandlersReturn), timers go off.  The *)
(* queue of ready handlers is first in, first out, so a handler that is    *)
(* ready while threads are busy now and then has its turn: strong          *)
(* fairness.  Nothing is expected of browsers.                             *)
(***************************************************************************)
FairSpec ==
  /\ Spec
  /\ WF_vars(~terminated /\ Main)
  /\ \A t \in IoThreads :
       /\ WF_vars(~terminated /\ OtherReturns(t))
       /\ WF_vars(~terminated /\ HttpHandle(t))
       /\ WF_vars(~terminated /\ SocketHandle(t))
       /\ WF_vars(~terminated /\ LeaveRun(t))
  /\ \A b \in Browsers : SF_vars(~terminated /\ OnAccept(b))
  /\ SF_vars(~terminated /\ OnSignal)
  /\ SF_vars(~terminated /\ HttpTimeout)
  /\ SF_vars(~terminated /\ SocketTimeout)

-------------------------------------------------------------------------------
(* Properties *)

\* The server goes on serving until it is told to stop: no thread ever runs
\* out of work before, although the threads are started before anything is
\* accepted and run returns for good when nothing is outstanding.
ServesUntilSignal == ~signal => \A t \in IoThreads : io[t] # "left"

\* Whatever errors come between, a browser is not left waiting, unless the
\* server is told to stop.
EveryBrowserAccepted ==
  \A b \in Browsers : browser[b] = "waiting" ~> browser[b] # "waiting" \/ signal \/ terminated

\* "Capture SIGINT and SIGTERM to perform a clean shutdown": after a signal
\* start returns, whatever the threads were doing.
ShutdownCompletes == signal ~> main = "returned" \/ terminated

\* No connection is held for ever: not by a browser that says nothing more
\* over HTTP, nor by one that has gone without closing its WebSocket.
ConnectionOver ==
  \/ step = "gone" \/ reading = "over"
  \/ step = "upgraded" /\ ~gone

ConnectionEnds == []<>(Connected => ConnectionOver \/ signal \/ terminated)

\* What the parts of the connection promise.
AcceptedMeansCalled == Http!AcceptedMeansCalled
RequestsAreAnswered == Http!RequestsAreAnswered
BadTextChangesNothing == Socket!BadTextChangesNothing

===============================================================================
