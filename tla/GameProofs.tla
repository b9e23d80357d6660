------------------------------ MODULE GameProofs ------------------------------
(***************************************************************************)
(* Proofs about Game, for any numbers of scoreboards, phones, io threads,  *)
(* questions and answers unless a theorem says otherwise.                  *)
(***************************************************************************)
EXTENDS Game, SequenceTheorems, FiniteSetTheorems, WellFoundedInduction, TLAPS

-------------------------------------------------------------------------------
(* Lemmas about the data.                                                    *)

\* Updating a sequence at any index leaves its type and domain alone.
LEMMA UpdatedSeq ==
  ASSUME NEW S, NEW s \in Seq(S), NEW k, NEW e, k \in DOMAIN s => e \in S
  PROVE  /\ [s EXCEPT ![k] = e] \in Seq(S)
         /\ DOMAIN [s EXCEPT ![k] = e] = DOMAIN s
         /\ \A j \in DOMAIN s :
              [s EXCEPT ![k] = e][j] = IF j = k THEN e ELSE s[j]
<1>1. CASE k \in DOMAIN s
  <2>1. k \in 1..Len(s) /\ e \in S
    BY <1>1, LenProperties
  <2>2. QED
    BY <2>1, ExceptSeq, LenProperties
<1>2. CASE k \notin DOMAIN s
  <2>1. [s EXCEPT ![k] = e] = s
    BY <1>2, LenProperties
  <2>2. QED
    BY <1>2, <2>1
<1>3. QED
  BY <1>1, <1>2

\* The writes of gaveAnswer leave a player, with the id it had.
LEMMA EntryType ==
  ASSUME NEW p \in PlayerRecord, NEW q \in Nat, NEW a \in Answers
  PROVE  WithEntry(p, q, a) \in PlayerRecord /\ WithEntry(p, q, a).id = p.id
<1> DEFINE e == [question |-> q, answer |-> a]
<1>1. Append(p.answersGiven, e) \in Seq(Entry)
  BY AppendProperties DEF PlayerRecord, Entry
<1>2. QED
  BY <1>1 DEF WithEntry, PlayerRecord

LEMMA CountType ==
  ASSUME NEW p \in PlayerRecord, NEW q \in Nat
  PROVE  WithCount(p, q) \in PlayerRecord /\ WithCount(p, q).id = p.id
  BY DEF WithCount, PlayerRecord

LEMMA PaidType ==
  ASSUME NEW p \in PlayerRecord, NEW c \in BOOLEAN
  PROVE  Paid(p, c) \in PlayerRecord /\ Paid(p, c).id = p.id
  BY DEF Paid, PlayerRecord, POINTS_FOR_CORRECT_ANSWER

\* A player who has just joined is a player with no answers (Player::Player).
LEMMA NewPlayerType ==
  ASSUME NEW i \in PlayerIds
  PROVE  NewPlayer(i) \in PlayerRecord /\ OnceEach(NewPlayer(i))
  BY EmptySeq DEF NewPlayer, PlayerRecord, OnceEach

-------------------------------------------------------------------------------
(* Types.                                                                    *)

\* What the players are after a write of gaveAnswer: only the one the iterator
\* points at has changed, if there is one.
LEMMA WrittenPlayers ==
  ASSUME TypeOK, NEW p \in Phones, NEW r,
         spot[p] \in DOMAIN players => r \in PlayerRecord, Write(p, r)
  PROVE  /\ players' \in Seq(PlayerRecord)
         /\ DOMAIN players' = DOMAIN players
         /\ \A k \in DOMAIN players :
              players'[k] = IF k = spot[p] THEN r ELSE players[k]
  BY UpdatedSeq DEF Write, TypeOK, FieldsOK

\* The three writes.
LEMMA AnsweredPlayers ==
  ASSUME TypeOK, NEW p \in Phones, Record(p) \/ Count(p) \/ Pay(p)
  PROVE  /\ players' \in Seq(PlayerRecord)
         /\ DOMAIN players' = DOMAIN players
         /\ \A k \in DOMAIN players :
              players[k] \in PlayerRecord /\ players'[k].id = players[k].id
         /\ \A k \in DOMAIN players : k # spot[p] => players'[k] = players[k]
         /\ spot[p] \in DOMAIN players =>
              players'[spot[p]] =
                IF Record(p) THEN WithEntry(players[spot[p]], asked[p], choice[p])
                ELSE IF Count(p) THEN WithCount(players[spot[p]], asked[p])
                ELSE Paid(players[spot[p]], correct[p])
         /\ CurrentIds' = CurrentIds
<1> DEFINE k == spot[p]
           r == IF Record(p) THEN WithEntry(players[k], asked[p], choice[p])
                ELSE IF Count(p) THEN WithCount(players[k], asked[p])
                ELSE Paid(players[k], correct[p])
<1>1. Write(p, r)
  BY DEF Record, Count, Pay
<1>2. \A j \in DOMAIN players : players[j] \in PlayerRecord
  BY LenProperties, ElementOfSeq DEF TypeOK, FieldsOK
<1>3. asked[p] \in Nat /\ correct[p] \in BOOLEAN
  BY DEF TypeOK, LocalsOK
<1>4. Record(p) => choice[p] \in Answers
  BY DEF TypeOK, LocalsOK, Record
<1>5. k \in DOMAIN players => r \in PlayerRecord /\ r.id = players[k].id
  <2> SUFFICES ASSUME k \in DOMAIN players
               PROVE  r \in PlayerRecord /\ r.id = players[k].id
    OBVIOUS
  <2>1. players[k] \in PlayerRecord
    BY <1>2
  <2>2. QED
    BY <1>3, <1>4, <2>1, EntryType, CountType, PaidType
<1> HIDE DEF r
<1>6. /\ players' \in Seq(PlayerRecord)
      /\ DOMAIN players' = DOMAIN players
      /\ \A j \in DOMAIN players : players'[j] = IF j = k THEN r ELSE players[j]
  BY <1>1, <1>5, WrittenPlayers
<1>7. CurrentIds' = CurrentIds
  BY <1>5, <1>6 DEF CurrentIds
<1>8. QED
  BY <1>2, <1>5, <1>6, <1>7 DEF r

\* What emplace_back makes of the vector when another thread may have been in it:
\* the players that were there, or the copy, in each field of which there is the
\* old value or the present one; and the new player behind them.
LEMMA MovedType ==
  ASSUME TypeOK, NEW p \in Phones, NEW w \in Moved(vector[p])
  PROVE  /\ w \in Seq(PlayerRecord)
         /\ DOMAIN w = DOMAIN vector[p]
         /\ \A k \in DOMAIN w :
              /\ w[k].id = vector[p][k].id
              /\ \/ w[k].answersGiven = vector[p][k].answersGiven
                 \/ k \in DOMAIN players /\ w[k].answersGiven = players[k].answersGiven
<1> DEFINE v == vector[p]
<1>1. v \in Seq(PlayerRecord) /\ DOMAIN v = 1..Len(v) /\ Len(v) \in Nat
  BY LenProperties DEF TypeOK, LocalsOK
<1>2. /\ w \in [DOMAIN v -> UNION {Torn(v, k) : k \in DOMAIN v}]
      /\ \A k \in DOMAIN v : w[k] \in Torn(v, k)
  BY DEF Moved
<1>3. ASSUME NEW k \in DOMAIN v
      PROVE  /\ w[k] \in PlayerRecord
             /\ w[k].id = v[k].id
             /\ \/ w[k].answersGiven = v[k].answersGiven
                \/ k \in DOMAIN players /\ w[k].answersGiven = players[k].answersGiven
  <2> DEFINE now == IF k \in DOMAIN players THEN players[k] ELSE v[k]
  <2>1. v[k] \in PlayerRecord /\ (k \in DOMAIN players => players[k] \in PlayerRecord)
    BY <1>1, LenProperties, ElementOfSeq DEF TypeOK, FieldsOK
  <2>2. now \in PlayerRecord
    BY <2>1
  <2>3. w[k] \in [id : {v[k].id},
                  score : {v[k].score, now.score},
                  questionsAnswered : {v[k].questionsAnswered, now.questionsAnswered},
                  answersGiven : {v[k].answersGiven, now.answersGiven}]
    BY <1>2 DEF Torn
  <2>4. w[k].answersGiven = v[k].answersGiven \/ w[k].answersGiven = now.answersGiven
    BY <2>3
  <2> HIDE DEF now
  <2>5. w[k] \in PlayerRecord /\ w[k].id = v[k].id
    BY <2>1, <2>2, <2>3 DEF PlayerRecord
  <2>6. QED
    BY <2>4, <2>5 DEF now
<1>4. w \in Seq(PlayerRecord)
  <2>1. DOMAIN w = 1..Len(v)
    BY <1>1, <1>2
  <2>2. w \in [1..Len(v) -> PlayerRecord]
    BY <1>1, <1>2, <1>3, <2>1
  <2>3. QED
    BY <1>1, <2>2, SeqDef
<1>5. QED
  BY <1>2, <1>3, <1>4

LEMMA AddedPlayers ==
  ASSUME TypeOK, NEW p \in Phones, AddPlayer(p)
  PROVE  /\ newID[p] \in PlayerIds
         /\ players' \in Seq(PlayerRecord)
         /\ \/ players' = Append(players, NewPlayer(newID[p])) /\ spot' = spot
            \/ /\ \E w \in Moved(vector[p]) :
                    players' = Append(w, NewPlayer(newID[p]))
               /\ spot' = [q \in Phones |-> 0]
<1>1. newID[p] \in PlayerIds
  BY DEF AddPlayer, TypeOK, LocalsOK
<1>2. NewPlayer(newID[p]) \in PlayerRecord
  BY <1>1, NewPlayerType
<1>3. \A w \in Moved(vector[p]) : w \in Seq(PlayerRecord)
  BY MovedType
<1>4. players \in Seq(PlayerRecord)
  BY DEF TypeOK, FieldsOK
<1>5. \/ players' = Append(players, NewPlayer(newID[p])) /\ spot' = spot
      \/ /\ \E w \in Moved(vector[p]) : players' = Append(w, NewPlayer(newID[p]))
         /\ spot' = [q \in Phones |-> 0]
  BY DEF AddPlayer
<1>6. PICK w : w \in Seq(PlayerRecord) /\ players' = Append(w, NewPlayer(newID[p]))
  BY <1>3, <1>4, <1>5
<1>7. players' \in Seq(PlayerRecord)
  BY <1>2, <1>6, AppendProperties
<1>8. QED
  BY <1>1, <1>5, <1>7

\* The position of an id that somebody in the vector has.
LEMMA PositionType ==
  ASSUME TypeOK, NEW i \in CurrentIds
  PROVE  /\ Position(i) \in DOMAIN players
         /\ Position(i) \in Nat
         /\ players[Position(i)].id = i
<1> DEFINE S == {k \in DOMAIN players : players[k].id = i}
<1>1. DOMAIN players = 1..Len(players) /\ Len(players) \in Nat
  BY LenProperties DEF TypeOK, FieldsOK
<1>2. S \subseteq Nat /\ S # {}
  BY <1>1 DEF CurrentIds
<1>3. PICK k \in S : \A j \in S : ~(<<j, k>> \in OpToRel(<, Nat))
  BY <1>2, NatLessThanWellFounded, WFMin, Zenon
<1>4. \A j \in S : ~(j < k)
  BY <1>2, <1>3 DEF OpToRel
<1>5. \A j \in 1..(k - 1) : players[j].id # i
  BY <1>1, <1>4
<1>6. Position(i) \in DOMAIN players /\ players[Position(i)].id = i
  BY <1>3, <1>5 DEF Position
<1>7. QED
  BY <1>1, <1>6

\* The object as constructed, before anybody is connected, is well typed.
LEMMA TypeInit == Init => TypeOK
<1> SUFFICES ASSUME Init PROVE TypeOK
  OBVIOUS
<1>1. FieldsOK
  BY EmptySeq DEF Init, FieldsOK, States
<1>2. StepsOK
  BY DEF Init, StepsOK, Sessions, BoardSteps, PhoneSteps, Faults
<1>3. LocalsOK
  BY EmptySeq DEF Init, LocalsOK, Sessions
<1>4. QED
  BY <1>1, <1>2, <1>3 DEF TypeOK

\* The fields of Game and its threads.
LEMMA FieldsNext == TypeOK /\ [Next]_vars => FieldsOK'
<1> SUFFICES ASSUME TypeOK, [Next]_vars PROVE FieldsOK'
  OBVIOUS
<1> USE DEF TypeOK, FieldsOK, States, gameVars, localVars
<1>1. ASSUME NEW b \in Boards, CreateGame(b) PROVE FieldsOK'
  BY <1>1, EmptySeq DEF CreateGame
<1>2. ASSUME NEW b \in Boards, ResetGame(b) PROVE FieldsOK'
  BY <1>2 DEF ResetGame
<1>3. ASSUME NEW b \in Boards, CheckFetchThread(b) PROVE FieldsOK'
  BY <1>3 DEF CheckFetchThread
<1>4. ASSUME NEW b \in Boards, JoinFetchThread(b) PROVE FieldsOK'
  BY <1>4 DEF JoinFetchThread
<1>5. ASSUME NEW b \in Boards, SpawnFetchThread(b) PROVE FieldsOK'
  BY <1>5 DEF SpawnFetchThread
<1>6. ASSUME NEW p \in Phones, NEW room \in Rooms \cup {NoId}, EnterRoom(p, room) PROVE FieldsOK'
  BY <1>6 DEF EnterRoom, MainPlayer
<1>7. ASSUME NEW p \in Phones, AddPlayer(p) PROVE FieldsOK'
  <2>1. players' \in Seq(PlayerRecord)
    BY <1>7, AddedPlayers
  <2>2. QED
    BY <1>7, <2>1 DEF AddPlayer
<1>8. ASSUME NEW p \in Phones, StartGame(p) PROVE FieldsOK'
  BY <1>8 DEF StartGame
<1>9. ASSUME NEW p \in Phones, CheckGameThread(p) PROVE FieldsOK'
  BY <1>9 DEF CheckGameThread
<1>10. ASSUME NEW p \in Phones, JoinGameThread(p) PROVE FieldsOK'
  BY <1>10 DEF JoinGameThread
<1>11. ASSUME NEW p \in Phones, SpawnGameThread(p) PROVE FieldsOK'
  BY <1>11 DEF SpawnGameThread
<1>12. ASSUME NEW p \in Phones, Tally(p) PROVE FieldsOK'
  BY <1>12 DEF Tally
<1>13. ASSUME NEW p \in Phones, Signal(p) PROVE FieldsOK'
  BY <1>13 DEF Signal
<1>14. ASSUME NEW p \in Phones, Notify(p) PROVE FieldsOK'
  BY <1>14 DEF Notify
<1>15. ASSUME NEW p \in Phones, NEW a \in Answers, GiveAnswer(p, a) PROVE FieldsOK'
  BY <1>15 DEF GiveAnswer
<1>16. ASSUME NEW p \in Phones, Record(p) PROVE FieldsOK'
  <2>1. players' \in Seq(PlayerRecord)
    BY <1>16, AnsweredPlayers
  <2>2. QED
    BY <1>16, <2>1 DEF Record, Write
<1>30. ASSUME NEW p \in Phones, Emplace(p) PROVE FieldsOK'
  BY <1>30 DEF Emplace
<1>31. ASSUME NEW p \in Phones, PlayerAdded(p) PROVE FieldsOK'
  BY <1>31 DEF PlayerAdded
<1>32. ASSUME NEW p \in Phones, Find(p) PROVE FieldsOK'
  BY <1>32 DEF Find
<1>33. ASSUME NEW p \in Phones, Guard(p) PROVE FieldsOK'
  BY <1>33 DEF Guard
<1>34. ASSUME NEW p \in Phones, Count(p) \/ Pay(p) PROVE FieldsOK'
  <2>1. players' \in Seq(PlayerRecord)
    BY <1>34, AnsweredPlayers
  <2>2. QED
    BY <1>34, <2>1 DEF Count, Pay, Write
<1>35. ASSUME DataRace PROVE FieldsOK'
  BY <1>35 DEF DataRace
<1>17. ASSUME CollectQuestions PROVE FieldsOK'
  BY <1>17, FetchesAssumption DEF CollectQuestions
<1>18. ASSUME GameCreated PROVE FieldsOK'
  BY <1>18 DEF GameCreated
<1>19. ASSUME BeginRound PROVE FieldsOK'
  BY <1>19 DEF BeginRound
<1>20. ASSUME OpenRound PROVE FieldsOK'
  BY <1>20 DEF OpenRound
<1>21. ASSUME TestFinished PROVE FieldsOK'
  BY <1>21 DEF TestFinished
<1>22. ASSUME RoundTimeout PROVE FieldsOK'
  BY <1>22 DEF RoundTimeout
<1>23. ASSUME CloseRound PROVE FieldsOK'
  BY <1>23 DEF CloseRound
<1>24. ASSUME EndPause PROVE FieldsOK'
  BY <1>24 DEF EndPause
<1>25. ASSUME NextRound PROVE FieldsOK'
  BY <1>25 DEF NextRound
<1>26. ASSUME FinishGame PROVE FieldsOK'
  BY <1>26 DEF FinishGame
<1>27. CASE UNCHANGED vars
  BY <1>27 DEF vars
<1>28. QED
  BY <1>1, <1>2, <1>3, <1>4, <1>5, <1>6, <1>7, <1>8, <1>9, <1>10, <1>11,
     <1>12, <1>13, <1>14, <1>15, <1>16, <1>17, <1>18, <1>19, <1>20, <1>21,
     <1>22, <1>23, <1>24, <1>25, <1>26, <1>27, <1>30, <1>31, <1>32, <1>33,
     <1>34, <1>35
  DEF Next, Request, BoardStep, PhoneStep, FetchThread, GameThread

\* Where the handlers of the sessions are.
LEMMA StepsNext == TypeOK /\ [Next]_vars => StepsOK'
<1> SUFFICES ASSUME TypeOK, [Next]_vars PROVE StepsOK'
  OBVIOUS
<1> USE SessionsAssumption
        DEF TypeOK, StepsOK, Sessions, BoardSteps, PhoneSteps, Goto
<1>1. ASSUME NEW b \in Boards, CreateGame(b) PROVE StepsOK'
  BY <1>1 DEF CreateGame
<1>2. ASSUME NEW b \in Boards, ResetGame(b) PROVE StepsOK'
  BY <1>2 DEF ResetGame
<1>3. ASSUME NEW b \in Boards, CheckFetchThread(b) PROVE StepsOK'
  BY <1>3 DEF CheckFetchThread, Faults
<1>4. ASSUME NEW b \in Boards, JoinFetchThread(b) PROVE StepsOK'
  BY <1>4 DEF JoinFetchThread
<1>5. ASSUME NEW b \in Boards, SpawnFetchThread(b) PROVE StepsOK'
  BY <1>5 DEF SpawnFetchThread, Faults
<1>6. ASSUME NEW p \in Phones, NEW room \in Rooms \cup {NoId}, EnterRoom(p, room) PROVE StepsOK'
  BY <1>6 DEF EnterRoom
<1>7. ASSUME NEW p \in Phones, AddPlayer(p) PROVE StepsOK'
  BY <1>7 DEF AddPlayer, Faults
<1>8. ASSUME NEW p \in Phones, StartGame(p) PROVE StepsOK'
  BY <1>8 DEF StartGame
<1>9. ASSUME NEW p \in Phones, CheckGameThread(p) PROVE StepsOK'
  BY <1>9 DEF CheckGameThread, Faults
<1>10. ASSUME NEW p \in Phones, JoinGameThread(p) PROVE StepsOK'
  BY <1>10 DEF JoinGameThread
<1>11. ASSUME NEW p \in Phones, SpawnGameThread(p) PROVE StepsOK'
  BY <1>11 DEF SpawnGameThread, Faults
<1>12. ASSUME NEW p \in Phones, Tally(p) PROVE StepsOK'
  BY <1>12 DEF Tally
<1>13. ASSUME NEW p \in Phones, Signal(p) PROVE StepsOK'
  BY <1>13 DEF Signal
<1>14. ASSUME NEW p \in Phones, Notify(p) PROVE StepsOK'
  BY <1>14 DEF Notify
<1>15. ASSUME NEW p \in Phones, NEW a \in Answers, GiveAnswer(p, a) PROVE StepsOK'
  BY <1>15 DEF GiveAnswer
<1>16. ASSUME NEW p \in Phones, Record(p) PROVE StepsOK'
  BY <1>16 DEF Record, Write, Astray, Faults
<1>30. ASSUME NEW p \in Phones, Emplace(p) PROVE StepsOK'
  BY <1>30 DEF Emplace
<1>31. ASSUME NEW p \in Phones, PlayerAdded(p) PROVE StepsOK'
  BY <1>31 DEF PlayerAdded, Faults
<1>32. ASSUME NEW p \in Phones, Find(p) PROVE StepsOK'
  BY <1>32 DEF Find, PastEnd, Faults
<1>33. ASSUME NEW p \in Phones, Guard(p) PROVE StepsOK'
  BY <1>33 DEF Guard, EndAnswer, PastEnd, Astray, Faults
<1>34. ASSUME NEW p \in Phones, Count(p) \/ Pay(p) PROVE StepsOK'
  BY <1>34 DEF Count, Pay, Write, EndAnswer, Astray, Faults
<1>35. ASSUME DataRace PROVE StepsOK'
  BY <1>35 DEF DataRace, Faults
<1>17. ASSUME CollectQuestions PROVE StepsOK'
  BY <1>17 DEF CollectQuestions
<1>18. ASSUME GameCreated PROVE StepsOK'
  BY <1>18 DEF GameCreated
<1>19. ASSUME BeginRound PROVE StepsOK'
  BY <1>19 DEF BeginRound
<1>20. ASSUME OpenRound PROVE StepsOK'
  BY <1>20 DEF OpenRound
<1>21. ASSUME TestFinished PROVE StepsOK'
  BY <1>21 DEF TestFinished
<1>22. ASSUME RoundTimeout PROVE StepsOK'
  BY <1>22 DEF RoundTimeout
<1>23. ASSUME CloseRound PROVE StepsOK'
  BY <1>23 DEF CloseRound
<1>24. ASSUME EndPause PROVE StepsOK'
  BY <1>24 DEF EndPause
<1>25. ASSUME NextRound PROVE StepsOK'
  BY <1>25 DEF NextRound
<1>26. ASSUME FinishGame PROVE StepsOK'
  BY <1>26 DEF FinishGame
<1>27. CASE UNCHANGED vars
  BY <1>27 DEF vars
<1>28. QED
  BY <1>1, <1>2, <1>3, <1>4, <1>5, <1>6, <1>7, <1>8, <1>9, <1>10, <1>11,
     <1>12, <1>13, <1>14, <1>15, <1>16, <1>17, <1>18, <1>19, <1>20, <1>21,
     <1>22, <1>23, <1>24, <1>25, <1>26, <1>27, <1>30, <1>31, <1>32, <1>33,
     <1>34, <1>35
  DEF Next, Request, BoardStep, PhoneStep, FetchThread, GameThread

\* The local data of the sessions and handlers.
LEMMA LocalsNext == TypeOK /\ [Next]_vars => LocalsOK'
<1> SUFFICES ASSUME TypeOK, [Next]_vars PROVE LocalsOK'
  OBVIOUS
<1> USE SessionsAssumption
        DEF TypeOK, StepsOK, LocalsOK, Sessions, Goto, localVars, joinVars, answerVars
<1>1. ASSUME NEW b \in Boards, CreateGame(b) PROVE LocalsOK'
  BY <1>1 DEF CreateGame
<1>2. ASSUME NEW b \in Boards, ResetGame(b) PROVE LocalsOK'
  BY <1>2 DEF ResetGame
<1>3. ASSUME NEW b \in Boards, CheckFetchThread(b) PROVE LocalsOK'
  BY <1>3 DEF CheckFetchThread
<1>4. ASSUME NEW b \in Boards, JoinFetchThread(b) PROVE LocalsOK'
  BY <1>4 DEF JoinFetchThread
<1>5. ASSUME NEW b \in Boards, SpawnFetchThread(b) PROVE LocalsOK'
  BY <1>5 DEF SpawnFetchThread
<1>6. ASSUME NEW p \in Phones, NEW room \in Rooms \cup {NoId}, EnterRoom(p, room) PROVE LocalsOK'
  <2>1. CASE room # id
    BY <1>6, <2>1 DEF EnterRoom, Answering
  <2>2. CASE room = id
    <3>1. PICK i \in PlayerIds : newID' = [newID EXCEPT ![p] = i]
      BY <1>6, <2>2 DEF EnterRoom
    <3>2. i # NoId
      BY NoIdAssumption
    <3>3. QED
      BY <1>6, <2>2, <3>1, <3>2 DEF EnterRoom, Answering
  <2>3. QED
    BY <2>1, <2>2
<1>7. ASSUME NEW p \in Phones, AddPlayer(p) PROVE LocalsOK'
  <2>1. spot' \in [Phones -> Nat] /\ \A q \in Phones : spot'[q] = 0 \/ spot'[q] = spot[q]
    BY <1>7 DEF AddPlayer
  <2>2. QED
    BY <1>7, <2>1, EmptySeq DEF AddPlayer, Answering
<1>8. ASSUME NEW p \in Phones, StartGame(p) PROVE LocalsOK'
  BY <1>8 DEF StartGame, Answering
<1>9. ASSUME NEW p \in Phones, CheckGameThread(p) PROVE LocalsOK'
  BY <1>9 DEF CheckGameThread, Answering
<1>10. ASSUME NEW p \in Phones, JoinGameThread(p) PROVE LocalsOK'
  BY <1>10 DEF JoinGameThread, Answering
<1>11. ASSUME NEW p \in Phones, SpawnGameThread(p) PROVE LocalsOK'
  BY <1>11 DEF SpawnGameThread, Answering
<1>12. ASSUME NEW p \in Phones, Tally(p) PROVE LocalsOK'
  BY <1>12 DEF Tally, Answering
<1>13. ASSUME NEW p \in Phones, Signal(p) PROVE LocalsOK'
  BY <1>13 DEF Signal, Answering
<1>14. ASSUME NEW p \in Phones, Notify(p) PROVE LocalsOK'
  BY <1>14 DEF Notify, Answering
<1>15. ASSUME NEW p \in Phones, NEW a \in Answers, GiveAnswer(p, a) PROVE LocalsOK'
  BY <1>15, NoAnswerAssumption DEF GiveAnswer, Answering
<1>16. ASSUME NEW p \in Phones, Record(p) PROVE LocalsOK'
  BY <1>16 DEF Record, Write, Answering
<1>30. ASSUME NEW p \in Phones, Emplace(p) PROVE LocalsOK'
  BY <1>30 DEF Emplace, FieldsOK, Answering
<1>31. ASSUME NEW p \in Phones, PlayerAdded(p) PROVE LocalsOK'
  BY <1>31 DEF PlayerAdded, Answering
<1>32. ASSUME NEW p \in Phones, Find(p) PROVE LocalsOK'
  <2>1. IF playerID[p] \in CurrentIds THEN Position(playerID[p]) \in Nat
                                        ELSE Len(players) + 1 \in Nat
    BY PositionType, LenProperties DEF FieldsOK
  <2>2. Verdict(choice[p]) \subseteq BOOLEAN
    BY DEF Verdict
  <2>3. QED
    BY <1>32, <2>1, <2>2 DEF Find, FieldsOK, Answering
<1>33. ASSUME NEW p \in Phones, Guard(p) PROVE LocalsOK'
  <2>1. asked[p] \in Nat /\ currQuestion \in Nat
    BY DEF FieldsOK
  <2>2. CASE EndAnswer(p)
    BY <1>33, <2>2 DEF Guard, EndAnswer, Answering
  <2>3. CASE ~EndAnswer(p)
    <3>1. PICK q \in {asked[p], currQuestion}, c \in BOOLEAN :
            /\ asked' = [asked EXCEPT ![p] = q]
            /\ correct' = [correct EXCEPT ![p] = c]
            /\ pc' = [pc EXCEPT ![p] = "record"]
            /\ UNCHANGED <<choice, spot>>
      BY <1>33, <2>3 DEF Guard
    <3>2. UNCHANGED joinVars /\ pc[p] = "guard"
      BY <1>33 DEF Guard
    <3>3. QED
      BY <2>1, <3>1, <3>2 DEF Answering
  <2>4. QED
    BY <2>2, <2>3
<1>34. ASSUME NEW p \in Phones, Count(p) \/ Pay(p) PROVE LocalsOK'
  <2>1. CASE Count(p)
    BY <2>1 DEF Count, Write, Answering
  <2>2. CASE Pay(p)
    BY <2>2 DEF Pay, Write, EndAnswer, Answering
  <2>3. QED
    BY <1>34, <2>1, <2>2
<1>35. ASSUME DataRace PROVE LocalsOK'
  BY <1>35 DEF DataRace
<1>17. ASSUME CollectQuestions PROVE LocalsOK'
  BY <1>17 DEF CollectQuestions
<1>18. ASSUME GameCreated PROVE LocalsOK'
  BY <1>18 DEF GameCreated
<1>19. ASSUME BeginRound PROVE LocalsOK'
  BY <1>19 DEF BeginRound
<1>20. ASSUME OpenRound PROVE LocalsOK'
  BY <1>20 DEF OpenRound
<1>21. ASSUME TestFinished PROVE LocalsOK'
  BY <1>21 DEF TestFinished
<1>22. ASSUME RoundTimeout PROVE LocalsOK'
  BY <1>22 DEF RoundTimeout
<1>23. ASSUME CloseRound PROVE LocalsOK'
  BY <1>23 DEF CloseRound
<1>24. ASSUME EndPause PROVE LocalsOK'
  BY <1>24 DEF EndPause
<1>25. ASSUME NextRound PROVE LocalsOK'
  BY <1>25 DEF NextRound
<1>26. ASSUME FinishGame PROVE LocalsOK'
  BY <1>26 DEF FinishGame
<1>27. CASE UNCHANGED vars
  BY <1>27 DEF vars
<1>28. QED
  BY <1>1, <1>2, <1>3, <1>4, <1>5, <1>6, <1>7, <1>8, <1>9, <1>10, <1>11,
     <1>12, <1>13, <1>14, <1>15, <1>16, <1>17, <1>18, <1>19, <1>20, <1>21,
     <1>22, <1>23, <1>24, <1>25, <1>26, <1>27, <1>30, <1>31, <1>32, <1>33,
     <1>34, <1>35
  DEF Next, Request, BoardStep, PhoneStep, FetchThread, GameThread

\* Together: every step keeps the types of Game and of its handlers.
LEMMA TypeNext == TypeOK /\ [Next]_vars => TypeOK'
  BY FieldsNext, StepsNext, LocalsNext DEF TypeOK

\* All the fields of Game, the threads and the sessions are always well typed,
\* the ids and answers of handlers under way included.
THEOREM TypeCorrect == Spec => []TypeOK
<1>1. QED
  BY TypeInit, TypeNext, PTL DEF Spec

-------------------------------------------------------------------------------
(* Who changes what.                                                         *)

\* The only steps that change the players or a handler's copy of them.
LEMMA WhoChangesPlayers ==
  ASSUME [Next]_vars
  PROVE  \/ UNCHANGED <<players, vector>>
         \/ \E b \in Boards : CreateGame(b)
         \/ \E p \in Phones : Emplace(p) \/ AddPlayer(p)
         \/ \E p \in Phones : Record(p) \/ Count(p) \/ Pay(p)
<1> USE DEF gameVars, localVars, joinVars
<1>1. ASSUME NEW b \in Boards, BoardStep(b) PROVE UNCHANGED <<players, vector>>
  BY <1>1 DEF BoardStep, ResetGame, CheckFetchThread, JoinFetchThread,
              SpawnFetchThread
<1>2. ASSUME NEW p \in Phones, PhoneStep(p), ~Emplace(p), ~AddPlayer(p),
             ~Record(p), ~Count(p), ~Pay(p)
      PROVE  UNCHANGED <<players, vector>>
  BY <1>2 DEF PhoneStep, PlayerAdded, CheckGameThread, JoinGameThread,
              SpawnGameThread, Find, Guard, Tally, Signal, Notify
<1>3. ASSUME NEW p \in Phones,
             \/ StartGame(p)
             \/ \E room \in Rooms \cup {NoId} : EnterRoom(p, room)
             \/ \E a \in Answers : GiveAnswer(p, a)
      PROVE  UNCHANGED <<players, vector>>
  BY <1>3 DEF StartGame, EnterRoom, GiveAnswer
<1>4. ASSUME FetchThread \/ GameThread \/ RoundTimeout \/ EndPause \/ DataRace
      PROVE  UNCHANGED <<players, vector>>
  BY <1>4 DEF FetchThread, CollectQuestions, GameCreated, GameThread, BeginRound,
              OpenRound, TestFinished, CloseRound, NextRound, FinishGame,
              RoundTimeout, EndPause, DataRace
<1>5. CASE UNCHANGED vars
  BY <1>5 DEF vars
<1>6. QED
  BY <1>1, <1>2, <1>3, <1>4, <1>5 DEF Next, Request

\* The question index changes only when a game is created (to 0) and when the
\* game thread goes on to the next round.
LEMMA WhoChangesQuestion ==
  ASSUME [Next]_vars
  PROVE  \/ UNCHANGED currQuestion
         \/ NextRound
         \/ \E b \in Boards : CreateGame(b)
<1> USE DEF gameVars
<1>1. ASSUME NEW b \in Boards, BoardStep(b) PROVE UNCHANGED currQuestion
  BY <1>1 DEF BoardStep, ResetGame, CheckFetchThread, JoinFetchThread,
              SpawnFetchThread
<1>2. ASSUME NEW p \in Phones, PhoneStep(p) PROVE UNCHANGED currQuestion
  BY <1>2 DEF PhoneStep, Emplace, AddPlayer, PlayerAdded, CheckGameThread,
              JoinGameThread, SpawnGameThread, Find, Guard, Record, Count, Pay,
              Write, Tally, Signal, Notify
<1>3. ASSUME NEW p \in Phones,
             \/ StartGame(p)
             \/ \E room \in Rooms \cup {NoId} : EnterRoom(p, room)
             \/ \E a \in Answers : GiveAnswer(p, a)
      PROVE  UNCHANGED currQuestion
  BY <1>3 DEF EnterRoom, StartGame, GiveAnswer
<1>4. ASSUME FetchThread \/ GameThread \/ RoundTimeout \/ EndPause \/ DataRace,
             ~NextRound
      PROVE  UNCHANGED currQuestion
  BY <1>4 DEF FetchThread, CollectQuestions, GameCreated, GameThread, BeginRound,
              OpenRound, TestFinished, CloseRound, FinishGame, RoundTimeout,
              EndPause, DataRace
<1>5. CASE UNCHANGED vars
  BY <1>5 DEF vars
<1>6. QED
  BY <1>1, <1>2, <1>3, <1>4, <1>5 DEF Next, Request

\* Steps of other threads than the phones' and the boards' handlers leave the
\* handlers, their data, and the players alone.
LEMMA OtherThreads ==
  ASSUME \/ FetchThread \/ GameThread \/ RoundTimeout \/ EndPause \/ DataRace
         \/ UNCHANGED vars
  PROVE  UNCHANGED <<pc, players, id, mainPlayerID, localVars>>
  BY DEF FetchThread, CollectQuestions, GameCreated, GameThread, BeginRound,
         OpenRound, TestFinished, CloseRound, NextRound, FinishGame,
         RoundTimeout, EndPause, DataRace, vars, gameVars

\* Every step moves at most one handler, which is running already unless it is
\* given the free thread.
LEMMA HandlerSteps ==
  ASSUME [Next]_vars
  PROVE  \/ pc' = pc
         \/ \E s \in Sessions, step \in BoardSteps \cup PhoneSteps :
              pc' = [pc EXCEPT ![s] = step] /\ (ThreadFree \/ s \in Busy)
<1> USE DEF Goto, Sessions, BoardSteps, PhoneSteps
<1> DEFINE Moves == \E s \in Sessions, step \in BoardSteps \cup PhoneSteps :
                      pc' = [pc EXCEPT ![s] = step] /\ (ThreadFree \/ s \in Busy)
<1>1. ASSUME NEW b \in Boards, CreateGame(b) PROVE Moves
  BY <1>1 DEF CreateGame
<1>2. ASSUME NEW b \in Boards, BoardStep(b) PROVE Moves
  <2>1. b \in Busy
    BY <1>2 DEF BoardStep, ResetGame, CheckFetchThread, JoinFetchThread,
                SpawnFetchThread, Busy
  <2>2. \E step \in BoardSteps : pc' = [pc EXCEPT ![b] = step]
    BY <1>2 DEF BoardStep, ResetGame, CheckFetchThread, JoinFetchThread,
                SpawnFetchThread
  <2>3. QED
    BY <2>1, <2>2
<1>3. ASSUME NEW p \in Phones, PhoneStep(p) PROVE Moves
  <2>1. p \in Busy
    BY <1>3 DEF PhoneStep, Emplace, AddPlayer, PlayerAdded, CheckGameThread,
                JoinGameThread, SpawnGameThread, Find, Guard, Record, Count,
                Pay, Tally, Signal, Notify, Busy
  <2>2. \E step \in PhoneSteps : pc' = [pc EXCEPT ![p] = step]
    BY <1>3 DEF PhoneStep, Emplace, AddPlayer, PlayerAdded, CheckGameThread,
                JoinGameThread, SpawnGameThread, Find, Guard, Record, Count,
                Pay, EndAnswer, Tally, Signal, Notify
  <2>3. QED
    BY <2>1, <2>2
<1>4. ASSUME NEW p \in Phones,
             \/ StartGame(p)
             \/ \E room \in Rooms \cup {NoId} : EnterRoom(p, room)
             \/ \E a \in Answers : GiveAnswer(p, a)
      PROVE  Moves
  BY <1>4 DEF EnterRoom, StartGame, GiveAnswer
<1>5. ASSUME \/ FetchThread \/ GameThread \/ RoundTimeout \/ EndPause \/ DataRace
             \/ UNCHANGED vars
      PROVE  pc' = pc
  BY <1>5, OtherThreads
<1>6. QED
  BY <1>1, <1>2, <1>3, <1>4, <1>5 DEF Next, Request

\* Where a phone's handler is changes by its own steps only.
LEMMA PhonesMoveThemselves ==
  ASSUME TypeOK, [Next]_vars, NEW p \in Phones, pc'[p] # pc[p]
  PROVE  \/ PhoneStep(p)
         \/ StartGame(p)
         \/ \E room \in Rooms \cup {NoId} : EnterRoom(p, room)
         \/ \E a \in Answers : GiveAnswer(p, a)
<1>1. ASSUME NEW s \in Sessions \ {p}, NEW step, pc' = [pc EXCEPT ![s] = step]
      PROVE  FALSE
  BY <1>1 DEF TypeOK, StepsOK, Sessions
<1>2. ASSUME NEW b \in Boards, CreateGame(b) \/ BoardStep(b) PROVE FALSE
  <2>1. \E step : pc' = [pc EXCEPT ![b] = step]
    BY <1>2 DEF CreateGame, BoardStep, ResetGame, CheckFetchThread,
                JoinFetchThread, SpawnFetchThread, Goto
  <2>2. b \in Sessions \ {p}
    BY SessionsAssumption DEF Sessions
  <2>3. QED
    BY <1>1, <2>1, <2>2
<1>3. ASSUME NEW q \in Phones \ {p},
             \/ PhoneStep(q)
             \/ StartGame(q)
             \/ \E room \in Rooms \cup {NoId} : EnterRoom(q, room)
             \/ \E a \in Answers : GiveAnswer(q, a)
      PROVE  FALSE
  <2>1. \E step : pc' = [pc EXCEPT ![q] = step]
    BY <1>3 DEF PhoneStep, Emplace, AddPlayer, PlayerAdded, CheckGameThread,
                JoinGameThread, SpawnGameThread, Find, Guard, Record, Count,
                Pay, EndAnswer, Tally, Signal, Notify, StartGame, EnterRoom,
                GiveAnswer, Goto
  <2>2. QED
    BY <1>1, <2>1 DEF Sessions
<1>4. ASSUME \/ FetchThread \/ GameThread \/ RoundTimeout \/ EndPause \/ DataRace
             \/ UNCHANGED vars
      PROVE  FALSE
  BY <1>4, OtherThreads
<1>5. QED
  BY <1>2, <1>3, <1>4 DEF Next, Request

\* How a handler comes to each of its steps in addPlayer and playerAnswered.
LEMMA Arrivals ==
  ASSUME TypeOK, [Next]_vars, NEW p \in Phones, pc'[p] # pc[p]
  PROVE  /\ pc'[p] = "enter" => \E room \in Rooms \cup {NoId} : EnterRoom(p, room)
         /\ pc'[p] = "emplace" => Emplace(p)
         /\ pc'[p] = "added" => AddPlayer(p)
         /\ pc'[p] = "start" => StartGame(p)
         /\ pc'[p] = "join" => CheckGameThread(p)
         /\ pc'[p] = "spawn" => CheckGameThread(p) \/ JoinGameThread(p)
         /\ pc'[p] = "find" => \E a \in Answers : GiveAnswer(p, a)
         /\ pc'[p] = "guard" => Find(p)
         /\ pc'[p] = "record" => Guard(p)
         /\ pc'[p] = "count" => Record(p)
         /\ pc'[p] = "pay" => Count(p)
         /\ pc'[p] = "signal" => Tally(p)
<1> USE DEF TypeOK, StepsOK, Sessions, PhoneSteps, Goto
<1>1. CASE Emplace(p) \/ AddPlayer(p) \/ PlayerAdded(p)
  BY <1>1 DEF Emplace, AddPlayer, PlayerAdded
<1>2. CASE CheckGameThread(p) \/ JoinGameThread(p) \/ SpawnGameThread(p)
  BY <1>2 DEF CheckGameThread, JoinGameThread, SpawnGameThread
<1>3. CASE Find(p) \/ Guard(p)
  BY <1>3 DEF Find, Guard, EndAnswer
<1>4. CASE Record(p) \/ Count(p) \/ Pay(p)
  BY <1>4 DEF Record, Count, Pay, EndAnswer
<1>5. CASE Tally(p) \/ Signal(p) \/ Notify(p)
  BY <1>5 DEF Tally, Signal, Notify
<1>6. CASE StartGame(p)
  BY <1>6 DEF StartGame
<1>7. CASE \E room \in Rooms \cup {NoId} : EnterRoom(p, room)
  BY <1>7 DEF EnterRoom
<1>8. CASE \E a \in Answers : GiveAnswer(p, a)
  BY <1>8 DEF GiveAnswer
<1>9. QED
  BY <1>1, <1>2, <1>3, <1>4, <1>5, <1>6, <1>7, <1>8, PhonesMoveThemselves
  DEF PhoneStep

-------------------------------------------------------------------------------
(* With one io thread the handlers are serialised.                           *)

OneHandler == \A s, t \in Busy : s = t

\* There are finitely many handlers, so those that run can be counted.
LEMMA BusyIsFinite == IsFiniteSet(Sessions) /\ IsFiniteSet(Busy)
<1>1. IsFiniteSet(Sessions)
  BY SessionsAssumption, FS_Union DEF Sessions
<1>2. QED
  BY <1>1, FS_Subset DEF Busy

\* With one io thread a handler starts only when none is running.
LEMMA FreeMeansAlone ==
  ASSUME NThreads = 1, ThreadFree
  PROVE  Busy = {}
<1>1. Cardinality(Busy) \in Nat /\ Cardinality(Busy) < 1
  BY BusyIsFinite, FS_CardinalityType DEF ThreadFree
<1>2. QED
  BY <1>1, BusyIsFinite, FS_EmptySet

\* With one io thread at most one handler runs, after every step.
LEMMA OneHandlerNext ==
  ASSUME NThreads = 1, TypeOK, OneHandler, [Next]_vars
  PROVE  OneHandler'
<1>1. CASE pc' = pc
  BY <1>1 DEF OneHandler, Busy
<1>2. ASSUME NEW s \in Sessions, NEW step, pc' = [pc EXCEPT ![s] = step],
             ThreadFree \/ s \in Busy
      PROVE  OneHandler'
  <2>1. \A t \in Busy : t = s
    BY <1>2, FreeMeansAlone DEF OneHandler
  <2>2. \A t \in Sessions \ {s} : pc'[t] = pc[t]
    BY <1>2 DEF TypeOK, StepsOK
  <2>3. \A t \in Busy' : t = s
    BY <2>1, <2>2 DEF Busy
  <2>4. QED
    BY <2>3 DEF OneHandler
<1>3. QED
  BY <1>1, <1>2, HandlerSteps

\* A handler that runs keeps the thread: no other handler of any session takes
\* a step.
LEMMA NobodyElse ==
  ASSUME NThreads = 1, OneHandler, NEW s \in Sessions, s \in Busy
  PROVE  /\ ~ThreadFree
         /\ \A t \in Sessions : t \in Busy => t = s
  BY FreeMeansAlone DEF OneHandler

\* As long as a phone's handler stays where it is, nothing that handlers do
\* happens.
LEMMA StandStill ==
  ASSUME NThreads = 1, TypeOK, OneHandler, [Next]_vars,
         NEW p \in Phones, p \in Busy, pc'[p] = pc[p]
  PROVE  /\ UNCHANGED <<pc, players, id, mainPlayerID, localVars>>
         /\ UNCHANGED currQuestion \/ NextRound
<1>1. ~ThreadFree /\ \A t \in Sessions : t \in Busy => t = p
  BY NobodyElse DEF Sessions
<1>2. ASSUME NEW b \in Boards, CreateGame(b) \/ BoardStep(b) PROVE FALSE
  <2>1. b \in Sessions /\ b # p
    BY SessionsAssumption DEF Sessions
  <2>2. b \notin Busy
    BY <1>1, <2>1
  <2>3. QED
    BY <1>1, <1>2, <2>1, <2>2
    DEF CreateGame, BoardStep, ResetGame, CheckFetchThread, JoinFetchThread,
        SpawnFetchThread, Busy
<1>3. ASSUME NEW q \in Phones, PhoneStep(q) PROVE FALSE
  <2>1. q \in Busy /\ q \in Sessions
    BY <1>3 DEF PhoneStep, Emplace, AddPlayer, PlayerAdded, CheckGameThread,
                JoinGameThread, SpawnGameThread, Find, Guard, Record, Count,
                Pay, Tally, Signal, Notify, Busy, Sessions
  <2>2. PhoneStep(p)
    BY <1>1, <1>3, <2>1
  <2>3. pc'[p] # pc[p]
    BY <2>2 DEF PhoneStep, Emplace, AddPlayer, PlayerAdded, CheckGameThread,
                JoinGameThread, SpawnGameThread, Find, Guard, Record, Count,
                Pay, EndAnswer, Tally, Signal, Notify, Goto, TypeOK, StepsOK,
                Sessions
  <2>4. QED
    BY <2>3
<1>4. ASSUME NEW q \in Phones,
             \/ StartGame(q)
             \/ \E room \in Rooms \cup {NoId} : EnterRoom(q, room)
             \/ \E a \in Answers : GiveAnswer(q, a)
      PROVE  FALSE
  BY <1>1, <1>4 DEF StartGame, EnterRoom, GiveAnswer
<1>5. \/ FetchThread \/ GameThread \/ RoundTimeout \/ EndPause \/ DataRace
      \/ UNCHANGED vars
  BY <1>2, <1>3, <1>4 DEF Next, Request
<1>6. UNCHANGED currQuestion \/ NextRound
  BY <1>2, WhoChangesQuestion
<1>7. QED
  BY <1>5, <1>6, OtherThreads

CopyIsCurrent == \A p \in Phones : pc[p] = "emplace" => vector[p] = players

\* Nothing changes the vector while emplace_back runs, ...
LEMMA CopyIsCurrentNext ==
  ASSUME NThreads = 1, TypeOK, OneHandler, CopyIsCurrent, [Next]_vars
  PROVE  CopyIsCurrent'
<1> SUFFICES ASSUME NEW p \in Phones, pc'[p] = "emplace"
             PROVE  vector'[p] = players'
  BY DEF CopyIsCurrent
<1>1. CASE pc'[p] = pc[p]
  <2>1. p \in Busy
    BY <1>1 DEF Busy, Sessions
  <2>2. UNCHANGED <<players, vector>>
    BY <1>1, <2>1, StandStill DEF localVars, joinVars
  <2>3. QED
    BY <1>1, <2>2 DEF CopyIsCurrent
<1>2. CASE pc'[p] # pc[p]
  <2>1. Emplace(p)
    BY <1>2, Arrivals
  <2>2. QED
    BY <2>1 DEF Emplace, gameVars, TypeOK, LocalsOK
<1>3. QED
  BY <1>1, <1>2

\* ... so moving the players leaves them as they are ...
LEMMA MovedPlayers ==
  ASSUME TypeOK, NEW w \in Moved(players)
  PROVE  w = players
<1>1. \A k \in DOMAIN players : players[k] \in PlayerRecord
  BY LenProperties, ElementOfSeq DEF TypeOK, FieldsOK
<1>2. /\ w \in [DOMAIN players -> UNION {Torn(players, k) : k \in DOMAIN players}]
      /\ \A k \in DOMAIN players : w[k] \in Torn(players, k)
  BY DEF Moved
<1>3. ASSUME NEW k \in DOMAIN players PROVE w[k] = players[k]
  <2>1. w[k] \in [id : {players[k].id}, score : {players[k].score},
                  questionsAnswered : {players[k].questionsAnswered},
                  answersGiven : {players[k].answersGiven}]
    BY <1>2 DEF Torn
  <2>2. QED
    BY <1>1, <2>1 DEF PlayerRecord
<1>4. players = [k \in DOMAIN players |-> players[k]]
  BY LenProperties DEF TypeOK, FieldsOK
<1>5. QED
  BY <1>2, <1>3, <1>4

\* ... and the new player comes to stand behind them.
LEMMA AppendedPlayer ==
  ASSUME TypeOK, CopyIsCurrent, NEW p \in Phones, AddPlayer(p)
  PROVE  /\ newID[p] \in PlayerIds
         /\ players' = Append(players, NewPlayer(newID[p]))
         /\ Len(players) \in Nat
         /\ DOMAIN players = 1..Len(players)
         /\ DOMAIN players' = 1..(Len(players) + 1)
         /\ \A k \in DOMAIN players : players'[k] = players[k]
         /\ players'[Len(players) + 1] = NewPlayer(newID[p])
<1>1. vector[p] = players
  BY DEF AddPlayer, CopyIsCurrent
<1>2. newID[p] \in PlayerIds /\ players' = Append(players, NewPlayer(newID[p]))
  BY <1>1, AddedPlayers, MovedPlayers
<1>3. players \in Seq(PlayerRecord) /\ NewPlayer(newID[p]) \in PlayerRecord
  BY <1>2, NewPlayerType DEF TypeOK, FieldsOK
<1>4. QED
  BY <1>2, <1>3, AppendProperties, LenProperties

-------------------------------------------------------------------------------
(* With one io thread, and a pause longer than playerAnswered takes, the     *)
(* flag that ends a round early goes up only when all have answered.  The    *)
(* handlers are serialised, so nothing but the game thread can come between  *)
(* the tally and the flag; and the game thread moves on to the next question *)
(* only at the end of a pause, when no answer is in flight, while a new one  *)
(* is let in only in a round.                                                *)

\* questionsAnswered speaks for the current question.
UpToDate(p, q) ==
  /\ p.questionsAnswered > 0 => HasAnswered(p, p.questionsAnswered - 1)
  /\ p.questionsAnswered <= q + 1

PlayersUpToDate == \A k \in DOMAIN players : UpToDate(players[k], currQuestion)

PlayingInRound == state = "PLAYING" => gamePlayingThread \in {"test", "wait", "close"}

NoLateAnswer == gamePlayingThread = "next" => ~AnswerInFlight

\* An answer is to the current question, ...
AskedIsCurrent ==
  \A p \in Phones : pc[p] \in Answering => asked[p] = currQuestion

\* ... and counted when it is there.
CountIsBacked ==
  \A p \in Phones :
    pc[p] = "count" /\ spot[p] \in DOMAIN players =>
      HasAnswered(players[spot[p]], asked[p])

SignalIsSound == \A p \in Phones : pc[p] = "signal" => EverybodyAnswered

RoundInv ==
  /\ TypeOK
  /\ OneHandler
  /\ CopyIsCurrent
  /\ PlayersUpToDate
  /\ PlayingInRound
  /\ NoLateAnswer
  /\ AskedIsCurrent
  /\ CountIsBacked
  /\ SignalIsSound

\* An entry is there once it is added, and stays.
LEMMA EntryIsThere ==
  ASSUME NEW p \in PlayerRecord, NEW q \in Nat, NEW a \in Answers
  PROVE  /\ HasAnswered(WithEntry(p, q, a), q)
         /\ \A n : HasAnswered(p, n) => HasAnswered(WithEntry(p, q, a), n)
         /\ WithEntry(p, q, a).questionsAnswered = p.questionsAnswered
         /\ WithEntry(p, q, a).score = p.score
         /\ WithEntry(p, q, a).answersGiven =
              Append(p.answersGiven, [question |-> q, answer |-> a])
<1> DEFINE e == [question |-> q, answer |-> a]
           g == p.answersGiven
           r == WithEntry(p, q, a)
<1>1. g \in Seq(Entry) /\ e \in Entry
  BY DEF PlayerRecord, Entry
<1>2. /\ r.answersGiven = Append(g, e)
      /\ r.questionsAnswered = p.questionsAnswered
      /\ r.score = p.score
  BY DEF WithEntry, PlayerRecord
<1>3. /\ DOMAIN g = 1..Len(g) /\ Len(g) \in Nat
      /\ DOMAIN Append(g, e) = 1..(Len(g) + 1)
      /\ \A k \in DOMAIN g : Append(g, e)[k] = g[k]
      /\ Append(g, e)[Len(g) + 1] = e
  BY <1>1, AppendProperties, LenProperties
<1>4. HasAnswered(r, q)
  BY <1>2, <1>3 DEF HasAnswered
<1>5. \A n : HasAnswered(p, n) => HasAnswered(r, n)
  BY <1>2, <1>3 DEF HasAnswered
<1>6. QED
  BY <1>2, <1>4, <1>5

\* After every step questionsAnswered says of each player what was answered
\* last, and is not ahead of the question.
LEMMA PlayersUpToDateNext ==
  ASSUME NThreads = 1, TypeOK, CopyIsCurrent, PlayersUpToDate, AskedIsCurrent,
         CountIsBacked, [Next]_vars
  PROVE  PlayersUpToDate'
<1>1. ASSUME NEW b \in Boards, CreateGame(b) PROVE PlayersUpToDate'
  BY <1>1 DEF CreateGame, PlayersUpToDate
<1>2. ASSUME UNCHANGED players PROVE PlayersUpToDate'
  <2>1. CASE UNCHANGED currQuestion
    BY <1>2, <2>1 DEF PlayersUpToDate
  <2>2. CASE NextRound
    <3> SUFFICES ASSUME NEW k \in DOMAIN players
                 PROVE  UpToDate(players[k], currQuestion + 1)
      BY <1>2, <2>2 DEF NextRound, PlayersUpToDate
    <3>1. UpToDate(players[k], currQuestion)
      BY DEF PlayersUpToDate
    <3>2. players[k] \in PlayerRecord /\ currQuestion \in Nat
      BY LenProperties, ElementOfSeq DEF TypeOK, FieldsOK
    <3>3. players[k].questionsAnswered \in Nat
      BY <3>2 DEF PlayerRecord
    <3>4. QED
      BY <3>1, <3>2, <3>3 DEF UpToDate
  <2>3. QED
    BY <1>1, <2>1, <2>2, WhoChangesQuestion
<1>3. ASSUME NEW p \in Phones, Emplace(p) PROVE UNCHANGED players
  BY <1>3 DEF Emplace, gameVars
<1>4. ASSUME NEW p \in Phones, AddPlayer(p) PROVE PlayersUpToDate'
  <2>1. \A k \in DOMAIN players' :
          \/ k \in DOMAIN players /\ players'[k] = players[k]
          \/ players'[k] = NewPlayer(newID[p])
    BY <1>4, AppendedPlayer
  <2>2. UpToDate(NewPlayer(newID[p]), currQuestion)
    BY DEF UpToDate, NewPlayer, TypeOK, FieldsOK
  <2>3. UNCHANGED currQuestion
    BY <1>4 DEF AddPlayer
  <2>4. QED
    BY <2>1, <2>2, <2>3 DEF PlayersUpToDate
<1>5. ASSUME NEW p \in Phones, Record(p) \/ Count(p) \/ Pay(p) PROVE PlayersUpToDate'
  <2>1. currQuestion' = currQuestion /\ currQuestion \in Nat
    BY <1>5 DEF Record, Count, Pay, Write, TypeOK, FieldsOK
  <2> DEFINE k == spot[p]
             r == IF Record(p) THEN WithEntry(players[k], asked[p], choice[p])
                  ELSE IF Count(p) THEN WithCount(players[k], asked[p])
                  ELSE Paid(players[k], correct[p])
  <2>2. /\ DOMAIN players' = DOMAIN players
        /\ \A j \in DOMAIN players : players[j] \in PlayerRecord
        /\ \A j \in DOMAIN players : j # k => players'[j] = players[j]
        /\ k \in DOMAIN players => players'[k] = r
    BY <1>5, AnsweredPlayers
  <2>3. ASSUME k \in DOMAIN players PROVE UpToDate(r, currQuestion)
    <3>1. players[k] \in PlayerRecord /\ UpToDate(players[k], currQuestion)
      BY <2>2, <2>3 DEF PlayersUpToDate
    <3>2. asked[p] = currQuestion
      BY <1>5 DEF AskedIsCurrent, Answering, Record, Count, Pay
    <3>3. CASE Record(p)
      <4>1. choice[p] \in Answers
        BY <3>3 DEF TypeOK, LocalsOK, Record
      <4>2. r = WithEntry(players[k], currQuestion, choice[p])
        BY <3>2, <3>3
      <4> HIDE DEF r, k
      <4>3. /\ r.questionsAnswered = players[k].questionsAnswered
            /\ \A n : HasAnswered(players[k], n) => HasAnswered(r, n)
        BY <2>1, <3>1, <4>1, <4>2, EntryIsThere
      <4>4. QED
        BY <3>1, <4>3 DEF UpToDate
    <3>4. CASE Count(p) /\ ~Record(p)
      <4>1. HasAnswered(players[k], currQuestion)
        BY <2>3, <3>2, <3>4 DEF CountIsBacked, Count
      <4>2. /\ r.questionsAnswered = currQuestion + 1
            /\ r.answersGiven = players[k].answersGiven
        BY <3>1, <3>2, <3>4 DEF WithCount, PlayerRecord
      <4>3. HasAnswered(r, currQuestion)
        BY <4>1, <4>2 DEF HasAnswered
      <4>4. QED
        BY <2>1, <4>2, <4>3 DEF UpToDate
    <3>5. CASE ~Count(p) /\ ~Record(p)
      <4>1. /\ r.questionsAnswered = players[k].questionsAnswered
            /\ r.answersGiven = players[k].answersGiven
        BY <3>1, <3>5 DEF Paid, PlayerRecord
      <4>2. QED
        BY <3>1, <4>1 DEF UpToDate, HasAnswered
    <3>6. QED
      BY <3>3, <3>4, <3>5
  <2> HIDE DEF r, k
  <2>4. QED
    BY <2>1, <2>2, <2>3 DEF PlayersUpToDate
<1>6. QED
  BY <1>1, <1>2, <1>3, <1>4, <1>5, WhoChangesPlayers

\* The state is PLAYING only while the game thread is between opening and
\* closing a round.
LEMMA PlayingInRoundNext ==
  ASSUME PlayingInRound, [Next]_vars
  PROVE  PlayingInRound'
<1> USE DEF PlayingInRound
<1>1. ASSUME NEW b \in Boards, CreateGame(b) \/ BoardStep(b) PROVE PlayingInRound'
  BY <1>1 DEF CreateGame, BoardStep, ResetGame, CheckFetchThread,
              JoinFetchThread, SpawnFetchThread
<1>2. ASSUME NEW p \in Phones, PhoneStep(p) PROVE PlayingInRound'
  BY <1>2 DEF PhoneStep, Emplace, AddPlayer, PlayerAdded, CheckGameThread,
              JoinGameThread, SpawnGameThread, Find, Guard, Record, Count, Pay,
              Write, Tally, Signal, Notify
<1>3. ASSUME NEW p \in Phones,
             \/ StartGame(p)
             \/ \E room \in Rooms \cup {NoId} : EnterRoom(p, room)
             \/ \E a \in Answers : GiveAnswer(p, a)
      PROVE  PlayingInRound'
  BY <1>3 DEF EnterRoom, StartGame, GiveAnswer
<1>4. ASSUME FetchThread PROVE PlayingInRound'
  BY <1>4 DEF FetchThread, CollectQuestions, GameCreated
<1>5. ASSUME GameThread \/ RoundTimeout \/ EndPause PROVE PlayingInRound'
  BY <1>5 DEF GameThread, BeginRound, OpenRound, TestFinished, CloseRound,
              NextRound, FinishGame, RoundTimeout, EndPause
<1>6. CASE UNCHANGED vars \/ DataRace
  BY <1>6 DEF vars, DataRace
<1>7. QED
  BY <1>1, <1>2, <1>3, <1>4, <1>5, <1>6 DEF Next, Request

\* A handler comes to count an answer only by a request made in a round.
LEMMA WhoAnswers ==
  ASSUME TypeOK, [Next]_vars, AnswerInFlight', ~AnswerInFlight
  PROVE  \E p \in Phones, a \in Answers : GiveAnswer(p, a)
<1>1. PICK p \in Phones : pc'[p] \in AnswerSteps /\ pc[p] \notin AnswerSteps
  BY DEF AnswerInFlight
<1>2. pc'[p] # "find" => FALSE
  BY <1>1, PhonesMoveThemselves
  DEF PhoneStep, Emplace, AddPlayer, PlayerAdded, CheckGameThread,
      JoinGameThread, SpawnGameThread, Find, Guard, Record, Count, Pay, Tally,
      Signal, Notify, StartGame, EnterRoom, GiveAnswer, Goto, AnswerSteps,
      Answering, TypeOK, StepsOK, Sessions
<1>3. QED
  BY <1>1, <1>2, Arrivals DEF AnswerSteps

\* Nobody is counting an answer while the game thread moves to the next
\* question.
LEMMA NoLateAnswerNext ==
  ASSUME PauseOutlastsAnswers, TypeOK, PlayingInRound, NoLateAnswer, [Next]_vars
  PROVE  NoLateAnswer'
<1> SUFFICES ASSUME gamePlayingThread' = "next" PROVE ~AnswerInFlight'
  BY DEF NoLateAnswer
<1>1. CASE EndPause
  BY <1>1 DEF EndPause, AnswerInFlight
<1>2. CASE gamePlayingThread = "next"
  <2>1. ~AnswerInFlight /\ state # "PLAYING"
    BY <1>2 DEF NoLateAnswer, PlayingInRound
  <2>2. ~\E p \in Phones, a \in Answers : GiveAnswer(p, a)
    BY <2>1 DEF GiveAnswer
  <2>3. QED
    BY <2>1, <2>2, WhoAnswers
<1>3. CASE gamePlayingThread # "next" /\ ~EndPause
  <2>1. ASSUME NEW b \in Boards, CreateGame(b) \/ BoardStep(b) PROVE FALSE
    BY <1>3, <2>1 DEF CreateGame, BoardStep, ResetGame, CheckFetchThread,
                      JoinFetchThread, SpawnFetchThread
  <2>2. ASSUME NEW p \in Phones, PhoneStep(p) PROVE FALSE
    BY <1>3, <2>2
    DEF PhoneStep, Emplace, AddPlayer, PlayerAdded, CheckGameThread,
        JoinGameThread, SpawnGameThread, Find, Guard, Record, Count, Pay, Write,
        Tally, Signal, Notify
  <2>3. ASSUME NEW p \in Phones,
               \/ StartGame(p)
               \/ \E room \in Rooms \cup {NoId} : EnterRoom(p, room)
               \/ \E a \in Answers : GiveAnswer(p, a)
        PROVE  FALSE
    BY <1>3, <2>3 DEF EnterRoom, StartGame, GiveAnswer
  <2>4. ASSUME FetchThread \/ GameThread \/ RoundTimeout PROVE FALSE
    BY <1>3, <2>4
    DEF FetchThread, CollectQuestions, GameCreated, GameThread, BeginRound,
        OpenRound, TestFinished, CloseRound, NextRound, FinishGame, RoundTimeout
  <2>5. ~UNCHANGED vars /\ ~DataRace
    BY <1>3 DEF vars, DataRace
  <2>6. QED
    BY <1>3, <2>1, <2>2, <2>3, <2>4, <2>5 DEF Next, Request
<1>4. QED
  BY <1>1, <1>2, <1>3

\* While an answer is recorded the question stays the same.
LEMMA QuestionStays ==
  ASSUME NThreads = 1, TypeOK, OneHandler, NoLateAnswer, [Next]_vars,
         NEW p \in Phones, pc[p] \in AnswerSteps
  PROVE  /\ currQuestion' = currQuestion
         /\ pc'[p] = pc[p] =>
              UNCHANGED <<pc, players, id, mainPlayerID, localVars>>
<1>1. p \in Busy /\ p \in Sessions
  BY DEF Busy, Sessions, AnswerSteps, Answering
<1>2. ~NextRound
  BY DEF NoLateAnswer, AnswerInFlight, NextRound
<1>3. \A b \in Boards : ~CreateGame(b)
  BY <1>1, NobodyElse DEF CreateGame
<1>4. currQuestion' = currQuestion
  BY <1>2, <1>3, WhoChangesQuestion
<1>5. QED
  BY <1>1, <1>4, StandStill

LEMMA AskedIsCurrentNext ==
  ASSUME NThreads = 1, TypeOK, OneHandler, NoLateAnswer, AskedIsCurrent,
         CountIsBacked, [Next]_vars
  PROVE  AskedIsCurrent' /\ CountIsBacked'
<1>1. ASSUME NEW p \in Phones, pc'[p] \in Answering
      PROVE  asked'[p] = currQuestion'
  <2>1. CASE pc'[p] = pc[p]
    BY <1>1, <2>1, QuestionStays
    DEF AskedIsCurrent, AnswerSteps, localVars, answerVars
  <2>2. CASE pc'[p] # pc[p] /\ pc'[p] = "guard"
    <3>1. Find(p)
      BY <2>2, Arrivals
    <3>2. QED
      BY <3>1 DEF Find, gameVars, TypeOK, LocalsOK
  <2>3. CASE pc'[p] # pc[p] /\ pc'[p] = "record"
    <3>1. Guard(p)
      BY <2>3, Arrivals
    <3>2. ~EndAnswer(p)
      BY <2>3 DEF EndAnswer, Goto, TypeOK, StepsOK, Sessions
    <3>3. asked[p] = currQuestion
      BY <3>1 DEF Guard, AskedIsCurrent, Answering
    <3>4. QED
      BY <3>1, <3>2, <3>3 DEF Guard, gameVars, TypeOK, LocalsOK
  <2>4. CASE pc'[p] # pc[p] /\ pc'[p] \in {"count", "pay"}
    <3>1. Record(p) \/ Count(p)
      BY <2>4, Arrivals
    <3>2. QED
      BY <3>1 DEF Record, Count, Write, answerVars, AskedIsCurrent, Answering
  <2>5. QED
    BY <1>1, <2>1, <2>2, <2>3, <2>4 DEF Answering
<1>2. ASSUME NEW p \in Phones, pc'[p] = "count", spot'[p] \in DOMAIN players'
      PROVE  HasAnswered(players'[spot'[p]], asked'[p])
  <2>1. CASE pc'[p] = pc[p]
    BY <1>2, <2>1, QuestionStays
    DEF CountIsBacked, AnswerSteps, Answering, localVars, answerVars
  <2>2. CASE pc'[p] # pc[p]
    <3>1. Record(p)
      BY <1>2, <2>2, Arrivals
    <3>2. spot' = spot /\ asked' = asked
      BY <3>1 DEF Record, answerVars
    <3>3. spot[p] \in DOMAIN players
      BY <1>2, <3>1, <3>2, AnsweredPlayers
    <3>4. /\ players'[spot[p]] = WithEntry(players[spot[p]], asked[p], choice[p])
          /\ players[spot[p]] \in PlayerRecord
      BY <3>1, <3>3, AnsweredPlayers
    <3>5. asked[p] \in Nat /\ choice[p] \in Answers
      BY <3>1 DEF TypeOK, LocalsOK, Record
    <3>6. HasAnswered(WithEntry(players[spot[p]], asked[p], choice[p]), asked[p])
      BY <3>4, <3>5, EntryIsThere
    <3>7. HasAnswered(players'[spot[p]], asked[p])
      BY <3>4, <3>6
    <3>8. spot'[p] = spot[p] /\ asked'[p] = asked[p]
      BY <3>2
    <3>9. QED
      BY <3>7, <3>8
  <2>3. QED
    BY <2>1, <2>2
<1>3. QED
  BY <1>1, <1>2 DEF AskedIsCurrent, CountIsBacked

\* All have answered the current question whenever playerAnswered is about to
\* raise the flag.
LEMMA SignalIsSoundNext ==
  ASSUME NThreads = 1, RoundInv, [Next]_vars
  PROVE  SignalIsSound'
<1> SUFFICES ASSUME NEW p \in Phones, pc'[p] = "signal" PROVE EverybodyAnswered'
  BY DEF SignalIsSound
<1> USE DEF RoundInv
<1>1. CASE pc'[p] = pc[p]
  BY <1>1, QuestionStays DEF SignalIsSound, EverybodyAnswered, AnswerSteps
<1>2. CASE pc'[p] # pc[p]
  <2>1. Tally(p)
    BY <1>2, Arrivals
  <2>2. p \in Busy /\ p \in Sessions
    BY <2>1 DEF Tally, Busy, Sessions
  <2>3. \A q \in Phones : pc[q] # "emplace"
    <3>1. ASSUME NEW q \in Phones, pc[q] = "emplace" PROVE FALSE
      <4>1. q \in Busy
        BY <3>1 DEF Busy, Sessions
      <4>2. q = p
        BY <2>2, <4>1 DEF OneHandler
      <4>3. QED
        BY <2>1, <3>1, <4>2 DEF Tally
    <3>2. QED
      BY <3>1
  <2>4. AllPlayersAnswered /\ players' = players /\ currQuestion' = currQuestion
    BY <2>1, <2>3 DEF Tally, gameVars, Goto, TypeOK, StepsOK, Sessions
  <2>5. ASSUME NEW k \in DOMAIN players PROVE HasAnswered(players[k], currQuestion)
    <3>1. players[k] \in PlayerRecord /\ currQuestion \in Nat
      BY LenProperties, ElementOfSeq DEF TypeOK, FieldsOK
    <3>2. players[k].questionsAnswered = currQuestion + 1
      BY <2>4, <3>1
      DEF PlayerRecord, AllPlayersAnswered, PlayersUpToDate, UpToDate
    <3>3. QED
      BY <3>1, <3>2 DEF PlayersUpToDate, UpToDate
  <2>6. QED
    BY <2>4, <2>5 DEF EverybodyAnswered
<1>3. QED
  BY <1>1, <1>2

\* Nobody is connected and no thread runs: the round invariant holds.
LEMMA RoundInvInit == Init => RoundInv
<1> SUFFICES ASSUME Init PROVE RoundInv
  OBVIOUS
<1>1. Busy = {}
  BY DEF Init, Busy
<1>2. OneHandler
  BY <1>1 DEF OneHandler
<1>3. CopyIsCurrent /\ NoLateAnswer /\ SignalIsSound
  BY DEF Init, CopyIsCurrent, NoLateAnswer, SignalIsSound, Sessions
<1>4. PlayersUpToDate /\ PlayingInRound
  BY DEF Init, PlayersUpToDate, PlayingInRound
<1>5. AskedIsCurrent /\ CountIsBacked
  BY DEF Init, AskedIsCurrent, CountIsBacked, Answering, Sessions
<1>6. QED
  BY <1>2, <1>3, <1>4, <1>5, TypeInit DEF RoundInv

\* Every step keeps the round invariant: its parts, one lemma each.
LEMMA RoundInvNext ==
  ASSUME NThreads = 1, PauseOutlastsAnswers
  PROVE  RoundInv /\ [Next]_vars => RoundInv'
<1> SUFFICES ASSUME RoundInv, [Next]_vars PROVE RoundInv'
  OBVIOUS
<1>1. TypeOK'
  BY TypeNext DEF RoundInv
<1>2. OneHandler'
  BY OneHandlerNext DEF RoundInv
<1>3. CopyIsCurrent'
  BY CopyIsCurrentNext DEF RoundInv
<1>4. PlayersUpToDate'
  BY PlayersUpToDateNext DEF RoundInv
<1>5. PlayingInRound' /\ NoLateAnswer'
  BY PlayingInRoundNext, NoLateAnswerNext DEF RoundInv
<1>6. AskedIsCurrent' /\ CountIsBacked'
  BY AskedIsCurrentNext DEF RoundInv
<1>7. SignalIsSound'
  BY SignalIsSoundNext
<1>8. QED
  BY <1>1, <1>2, <1>3, <1>4, <1>5, <1>6, <1>7 DEF RoundInv

\* Only playerAnswered raises the flag.
LEMMA WhoRaisesTheFlag ==
  ASSUME [Next]_vars, ~questionFinished, questionFinished'
  PROVE  \E p \in Phones : Signal(p)
<1>1. ASSUME NEW b \in Boards, CreateGame(b) \/ BoardStep(b) PROVE FALSE
  BY <1>1 DEF CreateGame, BoardStep, ResetGame, CheckFetchThread,
              JoinFetchThread, SpawnFetchThread
<1>2. ASSUME NEW p \in Phones,
             \/ PhoneStep(p) /\ ~Signal(p)
             \/ StartGame(p)
             \/ \E room \in Rooms \cup {NoId} : EnterRoom(p, room)
             \/ \E a \in Answers : GiveAnswer(p, a)
      PROVE  FALSE
  BY <1>2 DEF PhoneStep, Emplace, AddPlayer, PlayerAdded, CheckGameThread,
              JoinGameThread, SpawnGameThread, Find, Guard, Record, Count, Pay,
              Write, Tally, Notify, StartGame, EnterRoom, GiveAnswer
<1>3. ASSUME FetchThread \/ GameThread \/ RoundTimeout \/ EndPause PROVE FALSE
  BY <1>3 DEF FetchThread, CollectQuestions, GameCreated, GameThread, BeginRound,
              OpenRound, TestFinished, CloseRound, NextRound, FinishGame,
              RoundTimeout, EndPause
<1>4. ~UNCHANGED vars /\ ~DataRace
  BY DEF vars, DataRace
<1>5. QED
  BY <1>1, <1>2, <1>3, <1>4 DEF Next, Request

\* The game thread is told to end a round early only when every player has
\* answered its question (FlagMeansAllAnswered), for any number of phones,
\* questions, and games created before and during the round.
THEOREM RoundsEndEarlyForAReason ==
  ASSUME NThreads = 1, PauseOutlastsAnswers
  PROVE  Spec => FlagMeansAllAnswered
<1>1. RoundInv /\ [Next]_vars =>
        [~questionFinished /\ questionFinished' => EverybodyAnswered]_vars
  <2> SUFFICES ASSUME RoundInv, [Next]_vars, ~questionFinished, questionFinished'
               PROVE  EverybodyAnswered
    OBVIOUS
  <2>1. PICK p \in Phones : Signal(p)
    BY WhoRaisesTheFlag
  <2>2. QED
    BY <2>1 DEF RoundInv, SignalIsSound, Signal
<1>2. QED
  BY <1>1, RoundInvInit, RoundInvNext, PTL DEF Spec, FlagMeansAllAnswered

-------------------------------------------------------------------------------
(* With one io thread the main player is the first in the vector.            *)

\* The id drawn by addPlayer is the main player's if the vector is empty.
FirstIsMain ==
  \A p \in Phones : pc[p] \in {"enter", "emplace"} =>
    mainPlayerID = MainPlayer(newID[p])

MainInv ==
  /\ TypeOK
  /\ OneHandler
  /\ CopyIsCurrent
  /\ FirstIsMain
  /\ MainPlayerPresent

\* Only addPlayer changes the main player.
LEMMA WhoChangesMain ==
  ASSUME [Next]_vars
  PROVE  \/ UNCHANGED mainPlayerID
         \/ \E p \in Phones, room \in Rooms \cup {NoId} : EnterRoom(p, room)
<1> USE DEF gameVars, localVars, joinVars
<1>1. ASSUME NEW b \in Boards, CreateGame(b) \/ BoardStep(b)
      PROVE  UNCHANGED mainPlayerID
  BY <1>1 DEF CreateGame, BoardStep, ResetGame, CheckFetchThread,
              JoinFetchThread, SpawnFetchThread
<1>2. ASSUME NEW p \in Phones,
             \/ PhoneStep(p)
             \/ StartGame(p)
             \/ \E a \in Answers : GiveAnswer(p, a)
      PROVE  UNCHANGED mainPlayerID
  BY <1>2 DEF PhoneStep, Emplace, AddPlayer, PlayerAdded, CheckGameThread,
              JoinGameThread, SpawnGameThread, Find, Guard, Record, Count, Pay,
              Write, Tally, Signal, Notify, StartGame, GiveAnswer
<1>3. ASSUME \/ FetchThread \/ GameThread \/ RoundTimeout \/ EndPause \/ DataRace
             \/ UNCHANGED vars
      PROVE  UNCHANGED mainPlayerID
  BY <1>3, OtherThreads
<1>4. QED
  BY <1>1, <1>2, <1>3 DEF Next, Request

\* A handler in addPlayer has the id of the main player if it is the first.
LEMMA FirstIsMainNext ==
  ASSUME NThreads = 1, MainInv, [Next]_vars
  PROVE  FirstIsMain'
<1> SUFFICES ASSUME NEW p \in Phones, pc'[p] \in {"enter", "emplace"}
             PROVE  mainPlayerID' = MainPlayer(newID[p])'
  BY DEF FirstIsMain
<1> USE DEF MainInv
<1>1. CASE pc'[p] = pc[p]
  <2>1. p \in Busy
    BY <1>1 DEF Busy, Sessions
  <2>2. UNCHANGED <<players, mainPlayerID, newID>>
    BY <1>1, <2>1, StandStill DEF localVars, joinVars
  <2>3. QED
    BY <1>1, <2>2 DEF FirstIsMain, MainPlayer
<1>2. CASE pc'[p] # pc[p] /\ pc'[p] = "emplace"
  <2>1. Emplace(p)
    BY <1>2, Arrivals
  <2>2. QED
    BY <2>1 DEF Emplace, gameVars, FirstIsMain, MainPlayer
<1>3. CASE pc'[p] # pc[p] /\ pc'[p] = "enter"
  <2>1. PICK room \in Rooms \cup {NoId} : EnterRoom(p, room)
    BY <1>3, Arrivals
  <2>2. pc' = [pc EXCEPT ![p] = "enter"] \/ pc' = [pc EXCEPT ![p] = "idle"]
    BY <2>1 DEF EnterRoom, Goto
  <2>3. room = id
    BY <1>3, <2>1 DEF EnterRoom, Goto, TypeOK, StepsOK, Sessions
  <2>4. PICK i \in PlayerIds :
          /\ newID' = [newID EXCEPT ![p] = i]
          /\ mainPlayerID' = MainPlayer(i)
    BY <2>1, <2>3 DEF EnterRoom
  <2>5. newID'[p] = i /\ players' = players
    BY <2>1, <2>4 DEF EnterRoom, TypeOK, LocalsOK
  <2>6. QED
    BY <2>4, <2>5 DEF MainPlayer
<1>4. QED
  BY <1>1, <1>2, <1>3

\* Every step keeps the first player the main player.
LEMMA MainNext ==
  ASSUME NThreads = 1, MainInv, [Next]_vars
  PROVE  MainPlayerPresent'
<1> USE DEF MainInv
<1>1. ASSUME NEW b \in Boards, CreateGame(b) PROVE MainPlayerPresent'
  BY <1>1 DEF CreateGame, MainPlayerPresent
<1>2. ASSUME UNCHANGED players PROVE MainPlayerPresent'
  <2>1. ASSUME NEW p \in Phones, NEW room \in Rooms \cup {NoId}, EnterRoom(p, room)
        PROVE  MainPlayerPresent'
    BY <1>2, <2>1 DEF EnterRoom, MainPlayer, MainPlayerPresent
  <2>2. QED
    BY <1>2, <2>1, WhoChangesMain DEF MainPlayerPresent
<1>3. ASSUME NEW p \in Phones, Emplace(p) PROVE UNCHANGED players
  BY <1>3 DEF Emplace, gameVars
<1>4. ASSUME NEW p \in Phones, AddPlayer(p) PROVE MainPlayerPresent'
  <2>1. mainPlayerID' = mainPlayerID /\ mainPlayerID = MainPlayer(newID[p])
    BY <1>4 DEF AddPlayer, FirstIsMain
  <2>2. mainPlayerID = players'[1].id
    <3>1. CASE players = << >>
      <4>1. players'[1] = NewPlayer(newID[p])
        BY <1>4, <3>1, AppendedPlayer, EmptySeq
      <4>2. QED
        BY <2>1, <3>1, <4>1 DEF MainPlayer, NewPlayer
    <3>2. CASE players # << >>
      <4>1. 1 \in DOMAIN players
        BY <3>2, LenProperties, EmptySeq DEF TypeOK, FieldsOK
      <4>2. players'[1] = players[1]
        BY <1>4, <4>1, AppendedPlayer
      <4>3. QED
        BY <3>2, <4>2 DEF MainPlayerPresent
    <3>3. QED
      BY <3>1, <3>2
  <2>3. QED
    BY <2>1, <2>2 DEF MainPlayerPresent
<1>5. ASSUME NEW p \in Phones, Record(p) \/ Count(p) \/ Pay(p)
      PROVE  MainPlayerPresent'
  <2>1. /\ players' \in Seq(PlayerRecord)
        /\ DOMAIN players' = DOMAIN players
        /\ \A k \in DOMAIN players : players'[k].id = players[k].id
    BY <1>5, AnsweredPlayers
  <2>2. mainPlayerID' = mainPlayerID
    BY <1>5 DEF Record, Count, Pay, Write
  <2>3. ASSUME players' # << >> PROVE players # << >> /\ 1 \in DOMAIN players
    <3>1. Len(players') \in Nat /\ Len(players') # 0 /\ DOMAIN players' = 1..Len(players')
      BY <2>1, <2>3, LenProperties, EmptySeq
    <3>2. 1 \in DOMAIN players
      BY <2>1, <3>1
    <3>3. QED
      BY <3>2
  <2>4. QED
    BY <2>1, <2>2, <2>3 DEF MainPlayerPresent
<1>6. QED
  BY <1>1, <1>2, <1>3, <1>4, <1>5, WhoChangesPlayers

\* Whoever joined first can start the game (MainPlayerPresent), for any number
\* of phones and games, if one io thread runs the handlers: with two, two who
\* join an empty game at once may each be the first.
THEOREM FirstPlayerIsMain ==
  ASSUME NThreads = 1
  PROVE  Spec => []MainPlayerPresent
<1>1. Init => MainInv
  <2> SUFFICES ASSUME Init
               PROVE  OneHandler /\ CopyIsCurrent /\ FirstIsMain /\ MainPlayerPresent
    BY TypeInit DEF MainInv
  <2>1. OneHandler /\ CopyIsCurrent
    BY RoundInvInit DEF RoundInv
  <2>2. FirstIsMain /\ MainPlayerPresent
    BY DEF Init, FirstIsMain, MainPlayerPresent, Sessions
  <2>3. QED
    BY <2>1, <2>2
<1>2. MainInv /\ [Next]_vars => MainInv'
  BY TypeNext, OneHandlerNext, CopyIsCurrentNext, FirstIsMainNext, MainNext
  DEF MainInv
<1>3. MainInv => MainPlayerPresent
  BY DEF MainInv
<1>4. QED
  BY <1>1, <1>2, <1>3, PTL DEF Spec

===============================================================================
