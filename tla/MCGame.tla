-------------------------------- MODULE MCGame --------------------------------
(* Model checking of Game.  A run uses one or both scoreboards, two or three *)
(* phones, and quizzes of at most two questions with one or two answers each. *)
EXTENDS Game, TLC

CONSTANTS b1, b2, p1, p2, p3, i1, i2, i3, r1

OneBoard == {b1}
TwoBoards == {b1, b2}
TwoPhones == {p1, p2}
ThreePhones == {p1, p2, p3}
TwoIds == {i1, i2}
ThreeIds == {i1, i2, i3}
OneRoom == {r1}

TwoAnswers == {0, 1}
\* Where nothing depends on the verdict.
OneAnswer == {0}

\* The site is down, or yields two questions with different correct answers.
TwoQuestions == {<< >>, <<0, 1>>}
TwoPlainQuestions == {<< >>, <<0, 0>>}
\* ... or yields one question.
OneQuestion == {<<0>>}

\* Rooms and player ids are only compared with each other.  Phones stay
\* distinguishable in the runs that check liveness.
Symmetry == Permutations(TwoPhones) \cup Permutations(TwoIds)
ThreeSymmetry == Permutations(ThreePhones) \cup Permutations(ThreeIds)

===============================================================================
