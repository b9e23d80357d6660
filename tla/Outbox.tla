-------------------------------- MODULE Outbox --------------------------------
(***************************************************************************)
(* What a WebSocket session promises the rest of the server about the      *)
(* messages handed to WebSocketSession::do_write: one first-in first-out   *)
(* line to the browser.  Posting never blocks and never fails.  As long as *)
(* the connection is up the browser receives the posted messages in the    *)
(* order in which they were posted, none skipped and none twice; when the  *)
(* connection breaks nothing more arrives, but what did arrive stays a     *)
(* prefix of what was posted.                                              *)
(*                                                                         *)
(* WriteQueue implements this specification.                               *)
(***************************************************************************)
EXTENDS Sequences

CONSTANT Messages       \* what can be posted

VARIABLES
  outbox,   \* posted and not yet received, oldest first
  inbox,    \* received by the browser, oldest first
  link      \* "up", or "down" once the connection is broken

vars == <<outbox, inbox, link>>

TypeOK ==
  /\ outbox \in Seq(Messages)
  /\ inbox \in Seq(Messages)
  /\ link \in {"up", "down"}

Init ==
  /\ outbox = << >>
  /\ inbox = << >>
  /\ link = "up"

Post(m) ==
  /\ outbox' = Append(outbox, m)
  /\ UNCHANGED <<inbox, link>>

Deliver ==
  /\ link = "up"
  /\ outbox # << >>
  /\ inbox' = Append(inbox, Head(outbox))
  /\ outbox' = Tail(outbox)
  /\ UNCHANGED link

Break ==
  /\ link = "up"
  /\ link' = "down"
  /\ UNCHANGED <<outbox, inbox>>

Next ==
  \/ \E m \in Messages : Post(m)
  \/ Deliver
  \/ Break

Spec == Init /\ [][Next]_vars

\* The fair line: it keeps delivering until it is empty or broken.
FairSpec == Spec /\ WF_vars(Deliver)

===============================================================================
