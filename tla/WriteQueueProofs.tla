--------------------------- MODULE WriteQueueProofs ---------------------------
(***************************************************************************)
(* Proofs about WriteQueue, for any set of threads and messages and any    *)
(* number of do_write calls.                                               *)
(*                                                                         *)
(* The argument is that of a token: while the connection is up, a          *)
(* non-empty queue means exactly one of a thread about to run async_write, *)
(* a write in the stream, or a successful completion waiting for on_write, *)
(* and an empty queue means none of them.  do_write makes the token when   *)
(* it finds the queue empty, and only on_write, with an empty queue,       *)
(* destroys it.  Once the connection is down no token is made again.       *)
(***************************************************************************)
EXTENDS WriteQueue, SequenceTheorems, FiniteSetTheorems, TLAPS

AllIdle == \A t \in Threads : pc[t] = "idle"

Nothing == wire = << >> /\ completions = << >> /\ AllIdle

AStarter ==
  /\ wire = << >>
  /\ completions = << >>
  /\ \E t \in Threads :
       /\ pc[t] = "start"
       /\ \A s \in Threads \ {t} : pc[s] = "idle"

AWrite ==
  /\ \E w \in Write : wire = <<w>> /\ w.msg = Head(writeQueue)
  /\ completions = << >>
  /\ AllIdle

AResult(r) == wire = << >> /\ completions = <<r>> /\ AllIdle

Token ==
  \/ writeQueue = << >> /\ link = "up" /\ Nothing
  \/ writeQueue # << >> /\ link = "up" /\ (AStarter \/ AWrite \/ AResult("ok"))
  \/ writeQueue # << >> /\ link = "down" /\ (AResult("error") \/ Nothing)

IInv == TypeOK /\ Token

-------------------------------------------------------------------------------
\* The fields of the session keep their types under every step of do_write,
\* async_write, on_write and the network.
LEMMA TypeInit == Init => TypeOK
  BY EmptySeq DEF Init, TypeOK

\* on_write never erases the front of an empty vector.
LEMMA OnWriteNeedsAResult ==
  ASSUME Token, OnWrite
  PROVE  /\ writeQueue # << >>
         /\ link = "up"
         /\ AResult("ok")
<1>1. completions # << >> /\ Head(completions) = "ok"
  BY DEF OnWrite
<1>2. CASE AResult("error")
  BY <1>1, <1>2 DEF AResult
<1>3. ~Nothing /\ ~AStarter /\ ~AWrite
  BY <1>1 DEF Nothing, AStarter, AWrite
<1>4. QED
  BY <1>1, <1>2, <1>3 DEF Token

\* ... nor does a failed completion leave anything on its way.
LEMMA OnWriteErrorNeedsAResult ==
  ASSUME Token, OnWriteError
  PROVE  /\ writeQueue # << >>
         /\ link = "down"
         /\ AResult("error")
<1>1. completions # << >> /\ Head(completions) = "error"
  BY DEF OnWriteError
<1>2. CASE AResult("ok")
  BY <1>1, <1>2 DEF AResult
<1>3. ~Nothing /\ ~AStarter /\ ~AWrite
  BY <1>1 DEF Nothing, AStarter, AWrite
<1>4. QED
  BY <1>1, <1>2, <1>3 DEF Token

\* A thread runs async_write only with the connection up, a message queued
\* and nothing else on its way.
LEMMA AsyncWriteIsAlone ==
  ASSUME Token, NEW t \in Threads, AsyncWrite(t)
  PROVE  /\ writeQueue # << >>
         /\ link = "up"
         /\ AStarter
         /\ \A s \in Threads \ {t} : pc[s] = "idle"
<1>1. pc[t] = "start"
  BY DEF AsyncWrite
<1>2. ~AllIdle
  BY <1>1 DEF AllIdle
<1>3. ~Nothing /\ ~AWrite /\ ~AResult("ok") /\ ~AResult("error")
  BY <1>2 DEF Nothing, AWrite, AResult
<1>4. writeQueue # << >> /\ link = "up" /\ AStarter
  BY <1>3 DEF Token
<1>5. QED
  BY <1>1, <1>4 DEF AStarter

\* The stream has a write only with the connection up, and it is the front of
\* the queue.
LEMMA WriteIsAlone ==
  ASSUME Token, wire # << >>
  PROVE  /\ writeQueue # << >>
         /\ link = "up"
         /\ AWrite
  BY DEF Token, Nothing, AStarter, AResult

\* Every step keeps the types, erase() being called on a non-empty vector.
LEMMA TypeNext == IInv /\ [Next]_vars => TypeOK'
<1> SUFFICES ASSUME TypeOK, Token, [Next]_vars PROVE TypeOK'
  BY DEF IInv
<1> USE DEF TypeOK
<1>1. ASSUME NEW t \in Threads, NEW m \in Messages, DoWrite(t, m) PROVE TypeOK'
  <2>1. writeQueue' \in Seq(Messages)
    BY <1>1, AppendProperties DEF DoWrite
  <2>2. QED
    BY <1>1, <2>1 DEF DoWrite
<1>2. ASSUME NEW t \in Threads, AsyncWrite(t) PROVE TypeOK'
  <2>1. CASE writeQueue = << >>
    BY <1>2, <2>1 DEF AsyncWrite
  <2>2. CASE writeQueue # << >>
    <3>1. PICK late \in BOOLEAN :
            wire' = Append(wire, [msg |-> Head(writeQueue), late |-> late])
      BY <1>2, <2>2 DEF AsyncWrite, NextMessage
    <3>2. Head(writeQueue) \in Messages
      BY <2>2, HeadTailProperties
    <3>3. wire' \in Seq(Write)
      BY <3>1, <3>2, AppendProperties DEF Write
    <3>4. QED
      BY <1>2, <3>3 DEF AsyncWrite
  <2>3. QED
    BY <2>1, <2>2
<1>3. ASSUME WriteSucceeds PROVE TypeOK'
  <2>1. Head(wire) \in Write /\ wire' \in Seq(Write)
    BY <1>3, HeadTailProperties DEF WriteSucceeds
  <2>2. received' \in Seq(Messages) /\ completions' \in Seq({"ok", "error"})
    BY <1>3, <2>1, AppendProperties DEF WriteSucceeds, Write
  <2>3. Len(received') \in Nat
    BY <2>2, LenProperties
  <2>4. QED
    BY <1>3, <2>1, <2>2, <2>3 DEF WriteSucceeds
<1>4. ASSUME WriteFails PROVE TypeOK'
  <2>1. wire' \in Seq(Write)
    BY <1>4, HeadTailProperties DEF WriteFails
  <2>2. completions' \in Seq({"ok", "error"})
    BY <1>4, AppendProperties DEF WriteFails
  <2>3. QED
    BY <1>4, <2>1, <2>2 DEF WriteFails
<1>5. ASSUME OnWriteError PROVE TypeOK'
  BY <1>5, HeadTailProperties DEF OnWriteError
<1>6. ASSUME OnWrite PROVE TypeOK'
  <2>1. writeQueue # << >>
    BY <1>6, OnWriteNeedsAResult
  <2>2. QED
    BY <1>6, <2>1, HeadTailProperties DEF OnWrite, Threads
<1>7. CASE UNCHANGED vars
  BY <1>7 DEF vars
<1>8. QED
  BY <1>1, <1>2, <1>3, <1>4, <1>5, <1>6, <1>7 DEF Next

-------------------------------------------------------------------------------
\* A new session has an empty queue and nothing on its way.
LEMMA TokenInit == Init => Token
  BY DEF Init, Token, Nothing, AllIdle

\* Every step keeps the token invariant.
LEMMA TokenNext == IInv /\ [Next]_vars => Token'
<1> SUFFICES ASSUME TypeOK, Token, [Next]_vars PROVE Token'
  BY DEF IInv
<1>1. ASSUME NEW t \in Threads, NEW m \in Messages, DoWrite(t, m) PROVE Token'
  <2>1. /\ pc[t] = "idle"
        /\ writeQueue' = Append(writeQueue, m)
        /\ UNCHANGED <<wire, completions, link>>
        /\ pc' = [pc EXCEPT ![t] = IF Len(writeQueue') <= 1 THEN "start" ELSE "idle"]
    BY <1>1 DEF DoWrite, FirstInLine
  <2>2. writeQueue' # << >> /\ Len(writeQueue') = Len(writeQueue) + 1
    BY <2>1, AppendProperties DEF TypeOK
  <2>3. CASE writeQueue = << >>
    <3>1. link = "up" /\ Nothing
      BY <2>3 DEF Token
    <3>2. pc' = [pc EXCEPT ![t] = "start"]
      BY <2>1, <2>2, <2>3, EmptySeq
    <3>3. AStarter'
      BY <2>1, <3>1, <3>2 DEF TypeOK, Nothing, AllIdle, AStarter
    <3>4. QED
      BY <2>1, <2>2, <3>1, <3>3 DEF Token
  <2>4. CASE writeQueue # << >>
    <3>1. Len(writeQueue') > 1
      BY <2>2, <2>4, EmptySeq DEF TypeOK
    <3>2. pc' = pc
      BY <2>1, <2>2, <3>1, LenProperties DEF TypeOK
    <3>3. Head(writeQueue') = Head(writeQueue)
      BY <2>1, <2>4, HeadTailAppend DEF TypeOK
    <3>4. QED
      BY <2>1, <2>2, <2>4, <3>2, <3>3
      DEF Token, Nothing, AllIdle, AStarter, AWrite, AResult
  <2>5. QED
    BY <2>3, <2>4
<1>2. ASSUME NEW t \in Threads, AsyncWrite(t) PROVE Token'
  <2>1. /\ writeQueue # << >>
        /\ link = "up"
        /\ AStarter
        /\ \A s \in Threads \ {t} : pc[s] = "idle"
    BY <1>2, AsyncWriteIsAlone
  <2>2. PICK late \in BOOLEAN :
          wire' = Append(wire, [msg |-> Head(writeQueue), late |-> late])
    BY <1>2, <2>1 DEF AsyncWrite, NextMessage
  <2>3. Head(writeQueue) \in Messages
    BY <2>1, HeadTailProperties DEF TypeOK
  <2>4. wire' = <<[msg |-> Head(writeQueue), late |-> late]>>
    BY <2>1, <2>2 DEF AStarter
  <2>5. AllIdle'
    BY <1>2, <2>1 DEF AsyncWrite, AllIdle, TypeOK
  <2>6. AWrite'
    <3> DEFINE w == [msg |-> Head(writeQueue), late |-> late]
    <3>1. w \in Write /\ w.msg = Head(writeQueue)
      BY <2>3 DEF Write
    <3>2. completions' = << >> /\ writeQueue' = writeQueue
      BY <1>2, <2>1 DEF AsyncWrite, AStarter
    <3>3. QED
      BY <2>4, <2>5, <3>1, <3>2 DEF AWrite
  <2>7. QED
    BY <1>2, <2>1, <2>6 DEF AsyncWrite, Token
<1>3. ASSUME WriteSucceeds \/ WriteFails PROVE Token'
  <2>1. writeQueue # << >> /\ link = "up" /\ AWrite
    BY <1>3, WriteIsAlone DEF WriteSucceeds, WriteFails
  <2>2. wire' = << >> /\ writeQueue' = writeQueue /\ AllIdle'
    BY <1>3, <2>1 DEF WriteSucceeds, WriteFails, AWrite, AllIdle
  <2>3. CASE WriteSucceeds
    <3>1. completions' = <<"ok">> /\ link' = "up"
      BY <2>1, <2>3 DEF WriteSucceeds, AWrite
    <3>2. QED
      BY <2>1, <2>2, <3>1 DEF Token, AResult
  <2>4. CASE WriteFails
    <3>1. completions' = <<"error">> /\ link' = "down"
      BY <2>1, <2>4 DEF WriteFails, AWrite
    <3>2. QED
      BY <2>1, <2>2, <3>1 DEF Token, AResult
  <2>5. QED
    BY <1>3, <2>3, <2>4
<1>4. ASSUME OnWriteError PROVE Token'
  <2>1. writeQueue # << >> /\ link = "down" /\ AResult("error")
    BY <1>4, OnWriteErrorNeedsAResult
  <2>2. Nothing'
    BY <1>4, <2>1 DEF OnWriteError, AResult, Nothing, AllIdle
  <2>3. QED
    BY <1>4, <2>1, <2>2 DEF OnWriteError, Token
<1>5. ASSUME OnWrite PROVE Token'
  <2>1. writeQueue # << >> /\ link = "up" /\ AResult("ok")
    BY <1>5, OnWriteNeedsAResult
  <2>2. wire' = << >> /\ completions' = << >> /\ link' = "up"
    BY <1>5, <2>1 DEF OnWrite, AResult
  <2>3. CASE writeQueue' = << >>
    <3>1. AllIdle'
      BY <1>5, <2>1, <2>3 DEF OnWrite, MoreToWrite, AResult, AllIdle, TypeOK
    <3>2. QED
      BY <2>2, <2>3, <3>1 DEF Token, Nothing
  <2>4. CASE writeQueue' # << >>
    <3>1. pc' = [pc EXCEPT ![Strand] = "start"]
      BY <1>5, <2>4 DEF OnWrite, MoreToWrite
    <3>2. AStarter'
      BY <2>1, <2>2, <3>1 DEF AResult, AllIdle, AStarter, Threads, TypeOK
    <3>3. QED
      BY <2>2, <2>4, <3>2 DEF Token
  <2>5. QED
    BY <2>3, <2>4
<1>6. CASE UNCHANGED vars
  BY <1>6 DEF vars, Token, Nothing, AllIdle, AStarter, AWrite, AResult
<1>7. QED
  BY <1>1, <1>2, <1>3, <1>4, <1>5, <1>6 DEF Next

\* The inductive invariant: the types and the token.
THEOREM Invariance == Spec => []IInv
<1>1. Init => IInv
  BY TypeInit, TokenInit DEF IInv
<1>2. IInv /\ [Next]_vars => IInv'
  BY TypeNext, TokenNext DEF IInv
<1>3. QED
  BY <1>1, <1>2, PTL DEF Spec

\* The session's fields and the state of the stream are always well typed.
THEOREM TypeCorrect == Spec => []TypeOK
<1>1. IInv => TypeOK
  BY DEF IInv
<1>2. QED
  BY <1>1, Invariance, PTL

-------------------------------------------------------------------------------
\* There are finitely many threads, so those about to write can be counted.
LEMMA StartingIsFinite == IsFiniteSet(Threads) /\ IsFiniteSet(Starting)
<1>1. IsFiniteSet(Threads)
  BY PeersAssumption, FS_AddElement DEF Threads
<1>2. QED
  BY <1>1, FS_Subset DEF Starting

\* The token counts as one, in whichever of the three places it is.
LEMMA PendingCount ==
  ASSUME IInv
  PROVE  /\ Pending \in {0, 1}
         /\ writeQueue # << >> /\ link = "up" => Pending = 1
<1>1. CASE AllIdle
  <2>1. Cardinality(Starting) = 0
    <3>1. Starting = {}
      BY <1>1 DEF AllIdle, Starting
    <3>2. QED
      BY <3>1, FS_EmptySet
  <2>2. CASE Nothing
    <3>1. ~AStarter /\ ~AWrite /\ ~AResult("ok")
      BY <2>2 DEF Nothing, AllIdle, AStarter, AWrite, AResult
    <3>2. ~(writeQueue # << >> /\ link = "up")
      BY <3>1 DEF IInv, Token
    <3>3. Pending = 0
      BY <2>1, <2>2 DEF Nothing, Pending
    <3>4. QED
      BY <3>2, <3>3
  <2>3. CASE AWrite
    BY <2>1, <2>3 DEF AWrite, Pending
  <2>4. ASSUME NEW r, AResult(r) PROVE Pending = 1
    <3>1. Len(wire) = 0 /\ Len(completions) = 1
      BY <2>4 DEF AResult
    <3>2. QED
      BY <2>1, <3>1 DEF Pending
  <2>5. ~AStarter
    BY <1>1 DEF AllIdle, AStarter
  <2>6. QED
    BY <2>2, <2>3, <2>4, <2>5 DEF IInv, Token
<1>2. CASE ~AllIdle
  <2>1. AStarter
    BY <1>2 DEF IInv, Token, Nothing, AWrite, AResult
  <2>2. PICK t \in Threads :
          pc[t] = "start" /\ \A s \in Threads \ {t} : pc[s] = "idle"
    BY <2>1 DEF AStarter
  <2>3. Starting = {t}
    BY <2>2 DEF Starting
  <2>4. Cardinality(Starting) = 1
    BY <2>3, FS_Singleton
  <2>5. QED
    BY <2>1, <2>4 DEF AStarter, Pending
<1>3. QED
  BY <1>1, <1>2

\* The stream never has two writes outstanding (OneWriteAtATime), for any
\* number of threads calling do_write.
THEOREM WritesAreSerial == Spec => []OneWriteAtATime
<1>1. IInv => OneWriteAtATime
  BY PendingCount DEF OneWriteAtATime
<1>2. QED
  BY <1>1, Invariance, PTL

\* While the connection is up a queued message always has a write on its way
\* (NeverStranded).
THEOREM NoMessageStranded == Spec => []NeverStranded
<1>1. IInv => NeverStranded
  BY PendingCount DEF NeverStranded
<1>2. QED
  BY <1>1, Invariance, PTL

-------------------------------------------------------------------------------
(* The session implements the first-in first-out line of Outbox.             *)

\* A new session is an empty line.
LEMMA LineInit == Init => Line!Init
  BY DEF Init, Line!Init, Unsent, FrontReceived

\* do_write posts; the network delivers or breaks; everything else is unseen.
LEMMA LineNext == IInv /\ [Next]_vars => [Line!Next]_(Line!vars)
<1> SUFFICES ASSUME TypeOK, Token, [Next]_vars
             PROVE  Line!Next \/ UNCHANGED <<Unsent, received, link>>
  BY DEF IInv, Line!vars
<1>1. ASSUME NEW t \in Threads, NEW m \in Messages, DoWrite(t, m) PROVE Line!Next
  <2>1. /\ writeQueue' = Append(writeQueue, m)
        /\ UNCHANGED <<completions, received, link>>
    BY <1>1 DEF DoWrite
  <2>2. Unsent' = Append(Unsent, m)
    <3>1. CASE FrontReceived
      <4>1. writeQueue # << >>
        BY <3>1 DEF FrontReceived, Token, Nothing
      <4>2. QED
        BY <2>1, <3>1, <4>1, HeadTailAppend DEF Unsent, FrontReceived, TypeOK
    <3>2. CASE ~FrontReceived
      BY <2>1, <3>2 DEF Unsent, FrontReceived
    <3>3. QED
      BY <3>1, <3>2
  <2>3. Line!Post(m)
    BY <2>1, <2>2 DEF Line!Post
  <2>4. QED
    BY <2>3 DEF Line!Next
<1>2. ASSUME NEW t \in Threads, AsyncWrite(t)
      PROVE  UNCHANGED <<Unsent, received, link>>
  BY <1>2 DEF AsyncWrite, Unsent, FrontReceived
<1>3. ASSUME WriteSucceeds PROVE Line!Next
  <2>1. writeQueue # << >> /\ link = "up" /\ AWrite
    BY <1>3, WriteIsAlone DEF WriteSucceeds
  <2>2. Unsent = writeQueue
    BY <2>1 DEF AWrite, Unsent, FrontReceived
  <2>3. completions' = <<"ok">> /\ writeQueue' = writeQueue
    BY <1>3, <2>1 DEF WriteSucceeds, AWrite
  <2>4. Unsent' = Tail(writeQueue)
    BY <2>3 DEF Unsent, FrontReceived
  <2>5. Head(wire).msg = Head(writeQueue)
    BY <2>1 DEF AWrite
  <2>6. Line!Deliver
    BY <1>3, <2>1, <2>2, <2>4, <2>5 DEF Line!Deliver, WriteSucceeds
  <2>7. QED
    BY <2>6 DEF Line!Next
<1>4. ASSUME WriteFails PROVE Line!Next
  <2>1. writeQueue # << >> /\ link = "up" /\ AWrite
    BY <1>4, WriteIsAlone DEF WriteFails
  <2>2. completions' = <<"error">> /\ writeQueue' = writeQueue
    BY <1>4, <2>1 DEF WriteFails, AWrite
  <2>3. Unsent = writeQueue /\ Unsent' = writeQueue
    BY <2>1, <2>2 DEF AWrite, Unsent, FrontReceived
  <2>4. Line!Break
    BY <1>4, <2>1, <2>3 DEF Line!Break, WriteFails
  <2>5. QED
    BY <2>4 DEF Line!Next
<1>5. ASSUME OnWriteError PROVE UNCHANGED <<Unsent, received, link>>
  <2>1. AResult("error")
    BY <1>5, OnWriteErrorNeedsAResult
  <2>2. completions' = << >> /\ writeQueue' = writeQueue
    BY <1>5, <2>1 DEF OnWriteError, AResult
  <2>3. QED
    BY <1>5, <2>1, <2>2 DEF OnWriteError, AResult, Unsent, FrontReceived
<1>6. ASSUME OnWrite PROVE UNCHANGED <<Unsent, received, link>>
  <2>1. AResult("ok")
    BY <1>6, OnWriteNeedsAResult
  <2>2. completions' = << >> /\ writeQueue' = Tail(writeQueue)
    BY <1>6, <2>1 DEF OnWrite, AResult
  <2>3. QED
    BY <1>6, <2>1, <2>2 DEF OnWrite, AResult, Unsent, FrontReceived
<1>7. CASE UNCHANGED vars
  BY <1>7 DEF vars, Unsent, FrontReceived
<1>8. QED
  BY <1>1, <1>2, <1>3, <1>4, <1>5, <1>6, <1>7 DEF Next

\* After a failed write there is no token and DoWrite cannot make one, since
\* the queue never empties again (BrokenMeansSilent).
LEMMA BrokenIsSilent == IInv => BrokenMeansSilent
<1> SUFFICES ASSUME Token, link = "down" PROVE Starting = {} /\ wire = << >>
  BY DEF IInv, BrokenMeansSilent
<1>1. AResult("error") \/ Nothing
  BY DEF Token
<1>2. wire = << >> /\ AllIdle
  BY <1>1 DEF AResult, Nothing
<1>3. QED
  BY <1>2 DEF AllIdle, Starting

\* Nobody ever writes to a stream that has failed, however many messages are
\* posted to its session (BrokenMeansSilent).
THEOREM BrokenStreamsAreLeftAlone == Spec => []BrokenMeansSilent
  BY Invariance, BrokenIsSilent, PTL

\* WriteQueue implements Outbox: in order, nothing lost, nothing twice, with
\* any number of threads posting (ImplementsOutbox).
THEOREM FirstInFirstOut == Spec => ImplementsOutbox
<1>1. Init => Line!Init
  BY LineInit
<1>2. IInv /\ [Next]_vars => [Line!Next]_(Line!vars)
  BY LineNext
<1>3. QED
  BY <1>1, <1>2, Invariance, PTL DEF Spec, ImplementsOutbox, Line!Spec

===============================================================================
