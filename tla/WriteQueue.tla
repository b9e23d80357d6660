------------------------------ MODULE WriteQueue ------------------------------
(***************************************************************************)
(* The write path of one WebSocketSession (websocket_session.cpp): the     *)
(* functions do_write, async_write and on_write, the mutex writeMutex and  *)
(* the vector writeQueue they share.                                       *)
(*                                                                         *)
(* do_write is called from several threads at once: from the session's own *)
(* strand, when a request is answered, and from whichever thread runs      *)
(* Server::stateChanged -- the game thread, the thread that fetched the    *)
(* questions, or the strand of another session whose player just joined.   *)
(* on_write is the completion handler of the asynchronous write and runs   *)
(* on the session's strand.                                                *)
(*                                                                         *)
(* writeMutex is only ever held for the few statements of one critical     *)
(* section and never while another lock is taken, so a critical section is *)
(* one step; everything between two critical sections is interleaved.      *)
(***************************************************************************)
EXTENDS Naturals, Sequences, FiniteSets

CONSTANTS
  Peers,      \* threads other than the session's strand that call do_write
  Strand,     \* the session's strand
  Messages,   \* the texts that can be written
  MaxPosts    \* bound on the number of do_write calls in a behaviour

ASSUME StrandAssumption == Strand \notin Peers
ASSUME PeersAssumption == IsFiniteSet(Peers)
ASSUME MaxPostsAssumption == MaxPosts \in Nat

Threads == Peers \cup {Strand}

VARIABLES
  writeQueue,   \* WebSocketSession::writeQueue; its front is being written
  pc,           \* "start": the thread is about to run async_write
  wire,         \* writes handed to ws_.async_write and not completed
  completions,  \* results whose on_write handler has not run yet
  received,     \* the texts the browser received, in order
  damaged,      \* positions in received whose bytes were not the message's
  link,         \* "up", or "down" once a write has failed
  posts         \* number of do_write calls so far

vars == <<writeQueue, pc, wire, completions, received, damaged, link, posts>>

Write == [msg : Messages, late : BOOLEAN]

TypeOK ==
  /\ writeQueue \in Seq(Messages)
  /\ pc \in [Threads -> {"idle", "start"}]
  /\ wire \in Seq(Write)
  /\ completions \in Seq({"ok", "error"})
  /\ received \in Seq(Messages)
  /\ damaged \subseteq Nat
  /\ link \in {"up", "down"}
  /\ posts \in Nat

Init ==
  /\ writeQueue = << >>
  /\ pc = [t \in Threads |-> "idle"]
  /\ wire = << >>
  /\ completions = << >>
  /\ received = << >>
  /\ damaged = {}
  /\ link = "up"
  /\ posts = 0

(* Faulty variants of definitions below, to check that the properties notice *)
(* them.                                                                     *)

\* off by one: the second message is written beside the first
FirstInLine_Two(q) == Len(q) <= 2

\* off by one: the last message waits for another one
MoreToWrite_Two(q) == Len(q) > 1

\* last in, first out
NextMessage_Newest(q) == q[Len(q)]

\* the whole queue is sent instead of its front
NextMessage_All(q) == q

\* the message that could not be sent is dropped like one that was
OnWriteError_Drops ==
  /\ pc[Strand] = "idle"
  /\ completions # << >>
  /\ Head(completions) = "error"
  /\ completions' = Tail(completions)
  /\ writeQueue' = Tail(writeQueue)
  /\ UNCHANGED <<pc, wire, received, damaged, link, posts>>

\* do_write's test: nobody else is writing or about to.
FirstInLine(q) == Len(q) <= 1

\* on_write's test: others are waiting.
MoreToWrite(q) == q # << >>

\* What async_write sends.
NextMessage(q) == Head(q)

(***************************************************************************)
(* do_write(message): append under the lock; whoever makes the queue       *)
(* non-empty goes on to start a write, everybody else leaves it to the     *)
(* completion handler.                                                     *)
(***************************************************************************)
DoWrite(t, m) ==
  /\ pc[t] = "idle"
  /\ posts < MaxPosts
  /\ posts' = posts + 1
  /\ writeQueue' = Append(writeQueue, m)
  /\ pc' = [pc EXCEPT ![t] = IF FirstInLine(writeQueue') THEN "start" ELSE "idle"]
  /\ UNCHANGED <<wire, completions, received, damaged, link>>

(***************************************************************************)
(* async_write(): copy the front of the queue under the lock into a local  *)
(* buffer, hand the buffer to the websocket stream and return, which       *)
(* destroys the buffer.  Either the stream had passed all of it to the     *)
(* socket by then, or it still has bytes to read from it (late).           *)
(***************************************************************************)
AsyncWrite(t) ==
  /\ pc[t] = "start"
  /\ pc' = [pc EXCEPT ![t] = "idle"]
  /\ \/ /\ writeQueue # << >>
        /\ \E late \in BOOLEAN :
             wire' = Append(wire, [msg |-> NextMessage(writeQueue), late |-> late])
     \/ writeQueue = << >> /\ UNCHANGED wire
  /\ UNCHANGED <<writeQueue, completions, received, damaged, link, posts>>

(***************************************************************************)
(* The network.  A write succeeds, and the browser has a frame whose bytes *)
(* may be wrong if the stream read them after the buffer was gone, or it   *)
(* fails, and then so does every later one.                                *)
(***************************************************************************)
WriteSucceeds ==
  /\ wire # << >>
  /\ link = "up"
  /\ wire' = Tail(wire)
  /\ completions' = Append(completions, "ok")
  /\ received' = Append(received, Head(wire).msg)
  /\ \/ UNCHANGED damaged
     \/ Head(wire).late /\ damaged' = damaged \cup {Len(received')}
  /\ UNCHANGED <<writeQueue, pc, link, posts>>

WriteFails ==
  /\ wire # << >>
  /\ wire' = Tail(wire)
  /\ completions' = Append(completions, "error")
  /\ link' = "down"
  /\ UNCHANGED <<writeQueue, pc, received, damaged, posts>>

(***************************************************************************)
(* on_write(ec): give up on an error; else drop the message just written   *)
(* and, if others are waiting, start the next write.  It runs on the       *)
(* strand, so never in the middle of a request handler of this session.    *)
(***************************************************************************)
OnWriteError ==
  /\ pc[Strand] = "idle"
  /\ completions # << >>
  /\ Head(completions) = "error"
  /\ completions' = Tail(completions)
  /\ UNCHANGED <<writeQueue, pc, wire, received, damaged, link, posts>>

OnWrite ==
  /\ pc[Strand] = "idle"
  /\ completions # << >>
  /\ Head(completions) = "ok"
  /\ completions' = Tail(completions)
  /\ writeQueue' = Tail(writeQueue)
  /\ pc' = [pc EXCEPT ![Strand] = IF MoreToWrite(writeQueue') THEN "start" ELSE "idle"]
  /\ UNCHANGED <<wire, received, damaged, link, posts>>

Next ==
  \/ \E t \in Threads, m \in Messages : DoWrite(t, m)
  \/ \E t \in Threads : AsyncWrite(t)
  \/ WriteSucceeds
  \/ WriteFails
  \/ OnWriteError
  \/ OnWrite

Spec == Init /\ [][Next]_vars

(***************************************************************************)
(* A runnable thread is eventually scheduled; an asynchronous write        *)
(* eventually completes, with success or (at the latest when the stream's  *)
(* idle timeout closes the connection) with an error; the io_context runs  *)
(* every completion handler that is ready.                                 *)
(***************************************************************************)
Fairness ==
  /\ \A t \in Threads : WF_vars(AsyncWrite(t))
  /\ WF_vars(WriteSucceeds \/ WriteFails)
  /\ WF_vars(OnWriteError \/ OnWrite)

FairSpec == Spec /\ Fairness

-------------------------------------------------------------------------------
(* Properties *)

Starting == {t \in Threads : pc[t] = "start"}

\* Writes on their way: decided upon, handed to the stream, or completed
\* with a handler still to run.
Pending == Cardinality(Starting) + Len(wire) + Len(completions)

\* The stream is never given a second write while one is outstanding, by any
\* interleaving of do_write calls and completion handlers: beast allows one
\* at a time, and the code ensures it only through the length of the queue
\* (do_write's "If we already have to write, leave it").
OneWriteAtATime == Pending <= 1

\* A queued message is never stranded: while the connection is up a
\* non-empty queue has a write on its way whose completion will drain it.
NeverStranded == writeQueue # << >> /\ link = "up" => Pending > 0

\* A session whose connection broke stays in Server::webSessions and goes on
\* being posted to.  Nobody starts another write on its stream: the message
\* that failed is never erased and makes everybody else wait behind it.
BrokenMeansSilent == link = "down" => Starting = {} /\ wire = << >>

\* The session is a first-in first-out line: WriteQueue implements Outbox.
\* A message counts as received from the moment the browser has it, though
\* it stays at the front of writeQueue until on_write has run.
FrontReceived == completions # << >> /\ Head(completions) = "ok"

Unsent == IF FrontReceived THEN Tail(writeQueue) ELSE writeQueue

Line == INSTANCE Outbox WITH outbox <- Unsent, inbox <- received

ImplementsOutbox == Line!Spec

\* The line also makes progress: unless the connection breaks every message
\* passed to do_write reaches the browser.
ImplementsFairOutbox == Line!FairSpec

\* The bytes sent are the message's: the buffer given to ws_.async_write
\* lives until the write is done (the rule http_session.h states for
\* asynchronous operations).  The code does not keep it.
FramesIntact == damaged = {}

\* Asynchronous operations on the session's stream are started on the
\* session's strand only (the rule http_session.cpp states for sessions).
\* The code starts writes from any thread.
WritesStartOnStrand ==
  [][Len(wire') > Len(wire) => pc[Strand] = "start"]_vars

===============================================================================
