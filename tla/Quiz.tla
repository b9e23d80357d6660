--------------------------------- MODULE Quiz ---------------------------------
(***************************************************************************)
(* What the players of one game are promised, without threads, sessions or *)
(* locks: the questions of a fixed list are asked one after the other,     *)
(* each exactly once; everyone who has joined may answer the question that *)
(* is asked, once, until the next one is prepared; answers already given   *)
(* are never changed; the game is over after the last question.            *)
(*                                                                         *)
(* Game implements this specification when one scoreboard creates one game *)
(* and one io thread runs the handlers.                                    *)
(***************************************************************************)
EXTENDS Naturals, Sequences

CONSTANTS PlayerIds, Answers

VARIABLES
  phase,     \* "lobby", "open", "closed", "between" or "over"
  question,  \* index of the question being asked
  key,       \* the correct answers, << >> until the questions are known
  sheets     \* for each player that joined, the answer given to each question

vars == <<phase, question, key, sheets>>

\* The function f, with v at x.
With(f, x, v) == [y \in DOMAIN f \cup {x} |-> IF y = x THEN v ELSE f[y]]

Init ==
  /\ phase = "lobby"
  /\ question = 0
  /\ key = << >>
  /\ sheets = << >>

LoadQuestions ==
  /\ phase = "lobby"
  /\ key = << >>
  /\ key' \in Seq(Answers) \ {<< >>}
  /\ UNCHANGED <<phase, question, sheets>>

Join(i) ==
  /\ i \notin DOMAIN sheets
  /\ sheets' = With(sheets, i, << >>)
  /\ UNCHANGED <<phase, question, key>>

Ask ==
  /\ phase \in {"lobby", "between"}
  /\ question < Len(key)
  /\ phase' = "open"
  /\ UNCHANGED <<question, key, sheets>>

Answer(i, a) ==
  /\ phase \in {"open", "closed"}
  /\ i \in DOMAIN sheets
  /\ question \notin DOMAIN sheets[i]
  /\ sheets' = [sheets EXCEPT ![i] = With(@, question, a)]
  /\ UNCHANGED <<phase, question, key>>

Close ==
  /\ phase = "open"
  /\ phase' = "closed"
  /\ UNCHANGED <<question, key, sheets>>

PrepareNext ==
  /\ phase = "closed"
  /\ phase' = "between"
  /\ question' = question + 1
  /\ UNCHANGED <<key, sheets>>

Finish ==
  /\ phase = "between"
  /\ question = Len(key)
  /\ phase' = "over"
  /\ UNCHANGED <<question, key, sheets>>

Next ==
  \/ LoadQuestions
  \/ \E i \in PlayerIds : Join(i)
  \/ Ask
  \/ \E i \in PlayerIds, a \in Answers : Answer(i, a)
  \/ Close
  \/ PrepareNext
  \/ Finish

Spec == Init /\ [][Next]_vars

===============================================================================
