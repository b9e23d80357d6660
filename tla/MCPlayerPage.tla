----------------------------- MODULE MCPlayerPage -----------------------------
(* Model checking of PlayerPage: one or two questions, one list with a wrong *)
(* answer that reads like the right one, one that is too short, one that is  *)
(* none, answers that are no text, a result without all of its members, and  *)
(* a site that is silent, refuses, or has no results.                        *)
EXTENDS PlayerPage

Plain == [complete |-> TRUE, correct |-> "right", incorrect |-> <<"wrong", "wrong", "wrong">>]
Ambiguous == [complete |-> TRUE, correct |-> "right", incorrect |-> <<"wrong", "right", "odd">>]
Longer == [complete |-> TRUE, correct |-> "odd", incorrect |-> <<"wrong", "wrong", "right", "wrong">>]
Short == [complete |-> TRUE, correct |-> "right", incorrect |-> <<"wrong", "odd">>]
None == [complete |-> TRUE, correct |-> "right", incorrect |-> NoArray]
Mute == [complete |-> TRUE, correct |-> NoText, incorrect |-> <<"wrong", NoText, "wrong">>]
Broken == [complete |-> FALSE, correct |-> "right", incorrect |-> <<"wrong", "odd", "odd">>]

Sent(results) == [kind |-> "results", results |-> results]

MCSiteSends ==
  {[kind |-> "silent", results |-> << >>],
   [kind |-> "refused", results |-> << >>],
   [kind |-> "noResults", results |-> << >>],
   Sent(<< >>), Sent(<<Plain, Plain>>), Sent(<<Ambiguous>>), Sent(<<Longer>>),
   Sent(<<Short>>), Sent(<<Plain, None>>), Sent(<<None, Short>>),
   Sent(<<Mute>>), Sent(<<Broken>>)}

MCAnswers == 0..3
MCPlayerIds == 1..1
MCAnswerTexts == {"right", "wrong", "odd"}

===============================================================================
