------------------------------ MODULE MCBroadcast ------------------------------
(* Model checking of Broadcast: one scoreboard and two phones.              *)
EXTENDS Broadcast, TLC

CONSTANTS b1, p1, p2

MCBoards == {b1}
MCPhones == {p1, p2}

\* Two threads and two rounds if everybody has joined in time; one thread, and
\* two rounds, if people come as they like; one round and one phone if it does
\* not even wait for the page to say that there is a game.
InTimeSetting == [threads |-> 2, questions |-> 2, phones |-> 2,
                  lateJoins |-> FALSE, earlyStart |-> FALSE]
AsTheyLike == [threads |-> 1, questions |-> 2, phones |-> 2,
               lateJoins |-> TRUE, earlyStart |-> FALSE]
AtOnce == [threads |-> 1, questions |-> 1, phones |-> 1,
           lateJoins |-> TRUE, earlyStart |-> TRUE]

EverySetting == {InTimeSetting, AsTheyLike, AtOnce}
OneThread == {[InTimeSetting EXCEPT !.threads = 1]}

Symmetry == Permutations(MCPhones)

===============================================================================
