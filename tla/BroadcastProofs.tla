---------------------------- MODULE BroadcastProofs ----------------------------
(***************************************************************************)
(* Proofs about Broadcast: for any numbers of scoreboards, phones, io      *)
(* threads and questions, whether people join late or not.                 *)
(***************************************************************************)
EXTENDS Broadcast, SequenceTheorems, TLAPS

Elems(s) == {s[i] : i \in DOMAIN s}

\* Thread t tells the sessions in turn, or puts together the answer to gameInit.
Telling(t) == pc[t] \in {"visit"} \cup Building /\ rest[t] # << >>
Replying(s) == pc[s] \in Building /\ rest[s] = << >>

\* Where each kind of thread can be, and when it has sessions to visit.  A
\* session that does anything has been registered.
StepsOK ==
  /\ \A t \in {"game", "fetch"} :
       /\ pc[t] \in {"off", "change", "visit", "done"} \cup Building
       /\ pc[t] \in Building => rest[t] # << >>
  /\ \A b \in Boards :
       /\ pc[b] \in {"off", "open", "idle", "assign", "answer"} \cup Building
       /\ rest[b] = << >>
  /\ \A p \in Phones :
       pc[p] \in {"off", "open", "idle", "visit", "answer"} \cup Building
  /\ \A t \in Threads : rest[t] # << >> => Telling(t)
  /\ \A s \in Sessions : pc[s] # "off" => s \in Elems(webSessions)

\* The state of the game is that of the threads that change it, and a round
\* has a question.
StateOK ==
  /\ pc["fetch"] \in {"off", "change"} => state = "NULL"
  /\ pc["fetch"] \in {"visit"} \cup Building => state # "NULL"
  /\ state = "NULL" => pc["game"] = "off"
  /\ pc["game"] = "off" => state \in {"NULL", "CREATED"} /\ currQuestion = 0
  /\ pc["game"] = "change" => state # "FINISHED"
  /\ pc["game"] \in {"visit"} \cup Building => state \notin {"NULL", "CREATED"}
  /\ state = "CREATED" => currQuestion = 0
  /\ state \in {"PLAYING", "PAUSED"} => currQuestion < setting.questions
  /\ state = "PREPARE" /\ pc["game"] \in {"visit"} \cup Building
       => currQuestion < setting.questions

\* A player has entered the room of a game that somebody can see; a
\* scoreboard is in the game once it has been given its number.
MembersOK ==
  /\ \A s \in Sessions : isPlayer[s] =>
       /\ s \in Phones
       /\ gameID[s] = "game"
       /\ state # "NULL"
       /\ pc[s] \in {"idle", "answer"} \/ Replying(s)
  /\ \A p \in Phones :
       pc[p] = "visit" \/ Telling(p) => gameID[p] = "game" /\ state # "NULL"
  /\ \A b \in Boards :
       gameID[b] = "game" => pc[b] \in {"idle", "answer"} \cup Building
  /\ \A b \in Boards :
       gameID[b] = "game" \/ pc[b] = "assign" => pc["fetch"] # "off"

\* A status is meant for the kind of page it is sent to, except that a phone
\* may have become a player's meanwhile.
KindOK ==
  /\ \A t \in Threads : pc[t] \in Building /\ Telling(t) =>
       \/ header[t].kind = "player" /\ Head(rest[t]) \in Phones
       \/ header[t].kind = "game"
  /\ \A s \in Sessions : Replying(s) =>
       header[s].kind = IF s \in Phones THEN "player" ELSE "game"

\* Thread t has session m still to tell, or is just telling it.
ToBeTold(t, m) ==
  /\ m \in Elems(rest[t])
  /\ pc[t] \in Building /\ m = Head(rest[t]) =>
       header[t].kind = IF m \in Phones THEN "player" ELSE "game"

\* Whoever is in a game that has a state is shown one, or is about to be told.
BlankOK ==
  /\ state = "NULL" =>
       /\ \A t \in Threads : header[t].state = "NULL"
       /\ \A s \in Sessions : page[s].state = "NULL"
  /\ \A t \in Threads : pc[t] \in Building /\ Telling(t) => header[t].state # "NULL"
  /\ \A s \in Sessions : isPlayer[s] /\ Replying(s) => header[s].state # "NULL"
  /\ state # "NULL" => \A m \in Members :
       \/ page[m].state # "NULL"
       \/ ToBeTold("fetch", m)
       \/ pc[m] = "answer"
       \/ Replying(m) /\ header[m].state # "NULL"

\* A question is read after the number that goes with it, and exists.
TextOK(status) ==
  status.text # NoQuestion =>
    status.question <= status.text /\ status.text < setting.questions

\* The number of the question only grows, and while the game thread is telling
\* the pages, the state that it has read twice does not change.
ReadsOK ==
  /\ \A t \in Threads :
       /\ pc[t] \in {"test", "ask", "past", "post"} => header[t].question <= currQuestion
       /\ header[t].text # NoQuestion => pc[t] = "post"
       /\ TextOK(header[t])
  /\ \A s \in Sessions : TextOK(page[s])
  /\ pc["game"] = "ask" => state \in {"PLAYING", "PAUSED"}
  /\ pc["game"] # "past"

BlankInv == TypeOK /\ StepsOK /\ StateOK /\ MembersOK /\ KindOK /\ BlankOK /\ ReadsOK

\* Until the game starts nobody has read any other state, or asked for a question.
LobbyOK ==
  pc["game"] = "off" =>
    /\ \A t \in Threads : header[t].state \in {"NULL", "CREATED"}
    /\ \A t \in Threads : pc[t] \notin {"ask", "past"}
    /\ \A s \in Sessions : page[s].state \in {"NULL", "CREATED"}

\* The status of the game as it is.
Header == [state |-> state, question |-> currQuestion]

\* The rank of the status that the game thread has told the pages of last: it
\* counts the question before the next state is entered.
LastTold ==
  IF pc["game"] = "change" /\ state = "PREPARE" THEN 1 + 3 * currQuestion
                                                 ELSE Rank(Header)

\* The page of session m shows the state of the game, and the question.
Current(m) ==
  /\ page[m].state = state
  /\ state \in {"PLAYING", "PAUSED"} => page[m].question = currQuestion

\* Session s does nothing that concerns the game.
Apart(s) ==
  \/ pc[s] \in Resting
  \/ (pc[s] = "answer" \/ Replying(s)) /\ s \notin Members

\* What the game thread has put together for the session it is visiting.
GameStatusOK ==
  /\ pc["game"] \in Building => header["game"].state = state
  /\ pc["game"] \in {"test", "ask", "post"} => header["game"].question = currQuestion
  /\ pc["game"] = "post" /\ state = "PLAYING" => header["game"].text = currQuestion

\* If nobody joins late, the game thread is the only one that tells anything to
\* anybody in the game once the game has started.
InTimeOK ==
  InTime /\ pc["game"] # "off" =>
    /\ pc["fetch"] = "done"
    /\ \A s \in Sessions : Apart(s)
    /\ GameStatusOK
    /\ \A m \in Members :
         /\ ToBeTold("game", m) \/ Current(m)
         /\ page[m].state = "PLAYING" => page[m].text = page[m].question
         /\ Rank(page[m]) <= LastTold

InTimeInv == BlankInv /\ LobbyOK /\ InTimeOK

-------------------------------------------------------------------------------
(* Sequences of sessions. *)

\* A broadcast that has visited the first session has the others to visit.
LEMMA ElemsTail ==
  ASSUME NEW S, NEW s \in Seq(S), s # << >>
  PROVE  /\ Head(s) \in S
         /\ Tail(s) \in Seq(S)
         /\ Elems(s) = {Head(s)} \cup Elems(Tail(s))
<1>1. /\ Head(s) \in S
      /\ Tail(s) \in Seq(S)
      /\ Len(Tail(s)) = Len(s) - 1
      /\ \A i \in 1 .. Len(Tail(s)) : Tail(s)[i] = s[i + 1]
  BY HeadTailProperties
<1>2. /\ Len(s) \in Nat \ {0}
      /\ DOMAIN s = 1 .. Len(s)
      /\ DOMAIN Tail(s) = 1 .. Len(Tail(s))
      /\ Head(s) = s[1]
  BY <1>1, LenProperties, EmptySeq
<1>3. \A x : x \in Elems(s) => x = Head(s) \/ x \in Elems(Tail(s))
  <2> SUFFICES ASSUME NEW i \in 1 .. Len(s), s[i] # Head(s)
               PROVE  s[i] \in Elems(Tail(s))
    BY <1>2 DEF Elems
  <2>1. i - 1 \in 1 .. Len(Tail(s)) /\ Tail(s)[i - 1] = s[i]
    BY <1>1, <1>2
  <2>2. QED
    BY <2>1, <1>2 DEF Elems
<1>4. \A x : x \in Elems(Tail(s)) => x \in Elems(s)
  <2> SUFFICES ASSUME NEW i \in 1 .. Len(Tail(s))
               PROVE  Tail(s)[i] \in Elems(s)
    BY <1>2 DEF Elems
  <2>1. i + 1 \in 1 .. Len(s) /\ Tail(s)[i] = s[i + 1]
    BY <1>1, <1>2
  <2>2. QED
    BY <2>1, <1>2 DEF Elems
<1>5. Head(s) \in Elems(s)
  BY <1>2 DEF Elems
<1>6. QED
  BY <1>1, <1>3, <1>4, <1>5

\* A new session is registered, and nobody is forgotten.
LEMMA ElemsAppend ==
  ASSUME NEW S, NEW s \in Seq(S), NEW e \in S
  PROVE  /\ Append(s, e) \in Seq(S)
         /\ Elems(s) \subseteq Elems(Append(s, e))
         /\ e \in Elems(Append(s, e))
<1>1. /\ Append(s, e) \in Seq(S)
      /\ Len(Append(s, e)) = Len(s) + 1
      /\ \A i \in 1 .. Len(s) : Append(s, e)[i] = s[i]
      /\ Append(s, e)[Len(s) + 1] = e
  BY AppendProperties
<1>2. /\ Len(s) \in Nat
      /\ DOMAIN s = 1 .. Len(s)
      /\ DOMAIN Append(s, e) = 1 .. Len(s) + 1
  BY <1>1, LenProperties
<1>3. QED
  BY <1>1, <1>2 DEF Elems

\* There is nobody in an empty list.
LEMMA ElemsEmpty == Elems(<< >>) = {}
  BY DEF Elems

-------------------------------------------------------------------------------
(* The steps, grouped by what they work on. *)

\* A status is put together.
Build(t) == Count(t) \/ Test(t) \/ Ask(t)

\* The loop of a broadcast.
Loop(t) == rest[t] # << >> /\ (Skip(t) \/ Visit(t) \/ Build(t) \/ Post(t))

\* The rest of what the thread that fetches the questions does.
Fetch == ChangeState("fetch", "CREATED") \/ FetchFails \/ FetchDone

\* The rest of what the game thread does.
Play == ChangeState("game", NextState) \/ GameGoesOn

\* The rest of what the handlers of a scoreboard and of a phone do.
Board(b) == CreateGame(b) \/ AssignGameID(b)
Phone(p) == EnterRoom(p) \/ EnterWrongRoom(p) \/ StartGame(p) \/ PlayerAdded(p)
Session(s) ==
  Connect(s) \/ Answer(s) \/ (rest[s] = << >> /\ (Build(s) \/ Post(s)))

\* Who the threads are.
LEMMA WhoRuns ==
  /\ \A s : s \in Sessions <=> s \in Boards \/ s \in Phones
  /\ \A s : ~ (s \in Boards /\ s \in Phones)
  /\ \A t : t \in Threads <=> t \in Sessions \/ t = "game" \/ t = "fetch"
  /\ "game" \notin Sessions /\ "fetch" \notin Sessions
  BY SessionsAssumption DEF Sessions, Threads

\* Every step is one of these.
LEMMA Steps ==
  ASSUME StepsOK, [Next]_vars
  PROVE  /\ UNCHANGED setting
         /\ \/ \E t \in Threads : Loop(t)
            \/ Fetch
            \/ Play
            \/ \E b \in Boards : Board(b)
            \/ \E p \in Phones : Phone(p)
            \/ \E s \in Sessions : Session(s)
            \/ UNCHANGED vars
<1>1. ASSUME NEW t \in Threads, Skip(t) \/ Visit(t) \/ Build(t) \/ Post(t)
      PROVE  Loop(t) \/ \E s \in Sessions : Session(s)
  <2>1. CASE rest[t] # << >>
    BY <1>1, <2>1 DEF Loop
  <2>2. CASE rest[t] = << >>
    <3>1. pc[t] \in Building /\ (Build(t) \/ Post(t))
      BY <1>1, <2>2 DEF Skip, Visit, Build, Count, Test, Ask, Post, Building
    <3>2. t \in Sessions
      BY <2>2, <3>1, WhoRuns DEF StepsOK
    <3>3. QED
      BY <2>2, <3>1, <3>2 DEF Session
  <2>3. QED
    BY <2>1, <2>2
<1>2. QED
  BY <1>1 DEF Next, Request, Build, Fetch, Play, Board, Phone, Session, vars

\* The setting has questions.
LEMMA SettingOK ==
  ASSUME setting \in Settings
  PROVE  setting.questions \in Nat \ {0} /\ setting.lateJoins \in BOOLEAN
  BY SettingsAssumption DEF Setting

-------------------------------------------------------------------------------
(* What the steps do, place by place. *)

\* A thread goes on, the others stay where they are.
LEMMA GotoMoves ==
  ASSUME TypeOK, NEW t \in Threads, NEW step, Goto(t, step)
  PROVE  \A u \in Threads : pc'[u] = IF u = t THEN step ELSE pc[u]
  BY DEF TypeOK, Goto

\* A broadcast is for all the sessions there are.
Begins(t) ==
  \A u \in Threads : rest'[u] = IF u = t THEN webSessions ELSE rest[u]

\* A status is begun, and typed.
LEMMA StatusTyped ==
  ASSUME TypeOK
  PROVE  /\ Blank \in Status
         /\ currQuestion \in Nat /\ state \in States
         /\ \A kind \in {"game", "player"} :
              [Blank EXCEPT !.kind = kind, !.state = state] \in Status
         /\ \A h \in Status : [h EXCEPT !.question = currQuestion] \in Status
         /\ \A h \in Status : [h EXCEPT !.text = currQuestion] \in Status
<1>1. currQuestion \in Nat /\ state \in States
  BY SettingOK DEF TypeOK
<1>2. QED
  BY <1>1 DEF Blank, Status, States

\* A thread begins a status.
Begun(t, kind) ==
  /\ header'[t].kind = kind
  /\ header'[t].state = state
  /\ header'[t].text = NoQuestion

\* A status grows by what is read of the game.
Built(t) ==
  /\ header'[t].kind = header[t].kind
  /\ header'[t].state = header[t].state
  /\ \/ /\ pc[t] = "count" /\ pc'[t] = "test"
        /\ header'[t].question = currQuestion /\ header'[t].text = header[t].text
     \/ /\ pc[t] = "test" /\ header'[t] = header[t]
        /\ pc'[t] = IF state \in ShownIn(header[t].kind) THEN "ask" ELSE "post"
     \/ /\ pc[t] = "ask" /\ pc'[t] = "post" /\ currQuestion < setting.questions
        /\ header'[t].text = currQuestion /\ header'[t].question = header[t].question
     \/ /\ pc[t] = "ask" /\ pc'[t] = "past" /\ currQuestion = setting.questions
        /\ header'[t] = header[t]

\* Only thread t does anything, and it is not that it takes another list.
OnlyRuns(t) ==
  /\ UNCHANGED <<gameVars, sessionVars>>
  /\ \A u \in Threads : u # t => pc'[u] = pc[u] /\ header'[u] = header[u]
  /\ \A u \in Threads : u # t => rest'[u] = rest[u]

LEMMA BeginDoes ==
  ASSUME TypeOK, NEW t \in Threads, NEW kind \in {"game", "player"}, Begin(t, kind)
  PROVE  /\ OnlyRuns(t) /\ Begun(t, kind) /\ pc'[t] = "count"
         /\ UNCHANGED <<rest, page, fault>>
         /\ header' \in [Threads -> Status]
         /\ pc' = [pc EXCEPT ![t] = "count"]
<1>1. header \in [Threads -> Status] /\ [Blank EXCEPT !.kind = kind, !.state = state] \in Status
  BY StatusTyped DEF TypeOK
<1> DEFINE h == [Blank EXCEPT !.kind = kind, !.state = state]
<1>2. h.kind = kind /\ h.state = state /\ h.text = NoQuestion
  BY DEF Blank
<1>3. header'[t] = h /\ \A u \in Threads : u # t => header'[u] = header[u]
  BY <1>1 DEF Begin
<1>4. header' \in [Threads -> Status]
  BY <1>1 DEF Begin
<1>5. Begun(t, kind)
  BY <1>2, <1>3 DEF Begun
<1>6. /\ UNCHANGED <<gameVars, sessionVars, rest, page, fault>>
      /\ Goto(t, "count")
  BY DEF Begin
<1>7. \A u \in Threads : pc'[u] = IF u = t THEN "count" ELSE pc[u]
  BY <1>6, GotoMoves
<1>8. OnlyRuns(t)
  BY <1>3, <1>6, <1>7 DEF OnlyRuns
<1>9. QED
  BY <1>4, <1>5, <1>6, <1>7, <1>8 DEF Goto

LEMMA BuildDoes ==
  ASSUME TypeOK, NEW t \in Threads, Build(t)
  PROVE  /\ OnlyRuns(t) /\ Built(t)
         /\ UNCHANGED <<rest, page>>
         /\ header' \in [Threads -> Status]
         /\ \E step \in Building : pc' = [pc EXCEPT ![t] = step]
         /\ fault' \in {fault, "index"}
<1>1. header \in [Threads -> Status] /\ header[t] \in Status
  BY DEF TypeOK
<1>2. \A step : Goto(t, step) => \A u \in Threads : pc'[u] = IF u = t THEN step ELSE pc[u]
  BY GotoMoves
<1>3. CASE Count(t)
  <2> DEFINE h == [header[t] EXCEPT !.question = currQuestion]
  <2>1. h.kind = header[t].kind /\ h.state = header[t].state /\ h.text = header[t].text
        /\ h.question = currQuestion /\ h \in Status
    BY <1>1, StatusTyped DEF Status
  <2>2. header' = [header EXCEPT ![t] = h]
    BY <1>3 DEF Count
  <2>3. header'[t] = h /\ (\A u \in Threads : u # t => header'[u] = header[u])
          /\ header' \in [Threads -> Status]
    BY <1>1, <2>1, <2>2
  <2>4. /\ UNCHANGED <<gameVars, sessionVars, rest, page, fault>>
        /\ Goto(t, "test") /\ pc[t] = "count"
    BY <1>3 DEF Count
  <2>5. \A u \in Threads : pc'[u] = IF u = t THEN "test" ELSE pc[u]
    BY <1>2, <2>4
  <2>6. OnlyRuns(t)
    BY <2>3, <2>4, <2>5 DEF OnlyRuns
  <2>7. Built(t)
    BY <2>1, <2>3, <2>4, <2>5 DEF Built
  <2>8. QED
    BY <2>3, <2>4, <2>6, <2>7 DEF Goto, Building
<1>4. CASE Test(t)
  BY <1>1, <1>2, <1>4 DEF Test, Built, OnlyRuns, Goto, Building, gameVars, sessionVars
<1>5. CASE Ask(t) /\ pc'[t] = "post"
  <2> DEFINE h == [header[t] EXCEPT !.text = currQuestion]
  <2>1. h.kind = header[t].kind /\ h.state = header[t].state /\ h.text = currQuestion
        /\ h.question = header[t].question /\ h \in Status
    BY <1>1, StatusTyped DEF Status
  <2>2. header' = [header EXCEPT ![t] = h] /\ currQuestion < setting.questions
    BY <1>2, <1>5 DEF Ask
  <2>3. header'[t] = h /\ (\A u \in Threads : u # t => header'[u] = header[u])
          /\ header' \in [Threads -> Status]
    BY <1>1, <2>1, <2>2
  <2>4. QED
    BY <1>2, <1>5, <2>1, <2>2, <2>3 DEF Ask, Built, OnlyRuns, Goto, Building
<1>6. CASE Ask(t) /\ pc'[t] # "post"
  BY <1>1, <1>2, <1>6 DEF Ask, Built, OnlyRuns, Goto, Building
<1>7. QED
  BY <1>3, <1>4, <1>5, <1>6 DEF Build

\* Who gets the status that thread t has put together.
Receiver(t) == IF rest[t] # << >> THEN Head(rest[t]) ELSE t

\* The page of the receiver shows the status, or stays as it is.
LEMMA PostDoes ==
  ASSUME TypeOK, NEW t \in Threads, Receiver(t) \in Sessions, Post(t),
         Tail(rest[t]) \in Seq(Sessions) \/ rest[t] = << >>
  PROVE  /\ OnlyRuns(t) /\ header'[t] = Blank
         /\ UNCHANGED fault
         /\ \A s \in Sessions : s # Receiver(t) => page'[s] = page[s]
         /\ page'[Receiver(t)] = IF Shows(Receiver(t), header[t]) THEN header[t]
                                 ELSE page[Receiver(t)]
         /\ rest'[t] = IF rest[t] # << >> THEN Tail(rest[t]) ELSE rest[t]
         /\ pc[t] = "post" /\ pc'[t] = IF rest[t] # << >> THEN "visit" ELSE "idle"
         /\ header' \in [Threads -> Status]
         /\ page' \in [Sessions -> Status]
         /\ rest' \in [Threads -> Seq(Sessions)]
         /\ \E step \in {"visit", "idle"} : pc' = [pc EXCEPT ![t] = step]
<1>1. /\ header \in [Threads -> Status] /\ page \in [Sessions -> Status]
      /\ rest \in [Threads -> Seq(Sessions)]
      /\ Blank \in Status
  BY StatusTyped DEF TypeOK
<1>2. page' = IF Shows(Receiver(t), header[t])
                THEN [page EXCEPT ![Receiver(t)] = header[t]] ELSE page
  BY DEF Post, Receiver
<1>3. /\ \A s \in Sessions : s # Receiver(t) => page'[s] = page[s]
      /\ page'[Receiver(t)] = IF Shows(Receiver(t), header[t]) THEN header[t]
                              ELSE page[Receiver(t)]
      /\ page' \in [Sessions -> Status]
  BY <1>1, <1>2
<1>4. header' \in [Threads -> Status] /\ header'[t] = Blank
      /\ \A u \in Threads : u # t => header'[u] = header[u]
  BY <1>1 DEF Post
<1>5. rest' \in [Threads -> Seq(Sessions)]
      /\ rest'[t] = (IF rest[t] # << >> THEN Tail(rest[t]) ELSE rest[t])
      /\ \A u \in Threads : u # t => rest'[u] = rest[u]
  BY <1>1 DEF Post
<1>6. /\ UNCHANGED <<gameVars, sessionVars, fault>> /\ pc[t] = "post"
      /\ Goto(t, IF rest[t] # << >> THEN "visit" ELSE "idle")
  BY DEF Post
<1>7. \A u \in Threads :
        pc'[u] = IF u = t THEN (IF rest[t] # << >> THEN "visit" ELSE "idle") ELSE pc[u]
  BY <1>6, GotoMoves
<1>8. OnlyRuns(t)
  BY <1>4, <1>5, <1>6, <1>7 DEF OnlyRuns
<1>9. QED
  BY <1>3, <1>4, <1>5, <1>6, <1>7, <1>8 DEF Goto

\* One step of the loop of a broadcast.
LEMMA LoopDoes ==
  ASSUME TypeOK, StepsOK, NEW t \in Threads, Loop(t)
  PROVE  /\ OnlyRuns(t)
         /\ Telling(t) /\ pc'[t] \in {"visit"} \cup Building
         /\ Head(rest[t]) \in Sessions
         /\ \A s : s \in Elems(rest[t]) <=>
                    s = Head(rest[t]) \/ s \in Elems(Tail(rest[t]))
         /\ \A s \in Sessions : s # Head(rest[t]) => page'[s] = page[s]
         /\ \/ /\ gameID[Head(rest[t])] = "other"
               /\ pc[t] = "visit" /\ pc'[t] = "visit"
               /\ rest'[t] = Tail(rest[t]) /\ header'[t] = header[t]
               /\ page' = page
            \/ /\ pc[t] = "visit" /\ pc'[t] = "count"
               /\ rest' = rest /\ page' = page
               /\ Begun(t, IF isPlayer[Head(rest[t])] THEN "player" ELSE "game")
            \/ /\ rest' = rest /\ page' = page
               /\ Built(t) /\ pc[t] \in Building /\ pc'[t] \in Building
            \/ /\ pc[t] = "post" /\ pc'[t] = "visit"
               /\ rest'[t] = Tail(rest[t]) /\ header'[t] = Blank
               /\ page'[Head(rest[t])] =
                    IF Shows(Head(rest[t]), header[t]) THEN header[t]
                    ELSE page[Head(rest[t])]
<1>1. rest[t] # << >> /\ rest[t] \in Seq(Sessions) /\ Telling(t)
  BY DEF TypeOK, StepsOK, Loop
<1>2. /\ Head(rest[t]) \in Sessions
      /\ \A r : r \in Elems(rest[t]) <=>
                 r = Head(rest[t]) \/ r \in Elems(Tail(rest[t]))
      /\ Tail(rest[t]) \in Seq(Sessions)
  BY <1>1, ElemsTail
<1>3. rest \in [Threads -> Seq(Sessions)]
  BY DEF TypeOK
<1>4. CASE Skip(t)
  BY <1>1, <1>2, <1>3, <1>4 DEF Skip, OnlyRuns, gameVars, sessionVars
<1>5. CASE Visit(t)
  BY <1>1, <1>2, <1>5, BeginDoes DEF Visit, Building
<1>6. CASE Build(t)
  <2>1. pc[t] \in Building /\ pc'[t] \in Building
    BY <1>6, BuildDoes DEF Built, Building
  <2>2. QED
    BY <1>1, <1>2, <1>6, <2>1, BuildDoes
<1>7. CASE Post(t)
  BY <1>1, <1>2, <1>7, PostDoes DEF Receiver, Building
<1>8. QED
  BY <1>4, <1>5, <1>6, <1>7 DEF Loop

\* Only thread t goes on, to a step.
OnlyMoves(t, step) == \A u \in Threads : pc'[u] = IF u = t THEN step ELSE pc[u]

\* The thread that fetches the questions, outside the loop.
LEMMA FetchDoes ==
  ASSUME TypeOK, Fetch
  PROVE  /\ UNCHANGED <<currQuestion, sessionVars, header, page, fault>>
         /\ \/ /\ pc["fetch"] = "change" /\ OnlyMoves("fetch", "visit")
               /\ state' = "CREATED" /\ Begins("fetch")
            \/ /\ pc["fetch"] = "change" /\ OnlyMoves("fetch", "done")
               /\ UNCHANGED <<state, rest>>
            \/ /\ pc["fetch"] = "visit" /\ OnlyMoves("fetch", "done")
               /\ rest["fetch"] = << >> /\ UNCHANGED <<state, rest>>
<1>1. "fetch" \in Threads /\ rest \in [Threads -> Seq(Sessions)]
  BY WhoRuns DEF TypeOK
<1>2. \A step : Goto("fetch", step) => OnlyMoves("fetch", step)
  BY <1>1, GotoMoves DEF OnlyMoves
<1>3. CASE ChangeState("fetch", "CREATED")
  BY <1>1, <1>2, <1>3 DEF ChangeState, Begins, Registered
<1>4. CASE FetchFails \/ FetchDone
  BY <1>2, <1>4 DEF FetchFails, FetchDone, gameVars
<1>5. QED
  BY <1>3, <1>4 DEF Fetch

\* The game thread, outside the loop.
LEMMA PlayDoes ==
  ASSUME TypeOK, Play
  PROVE  /\ UNCHANGED <<sessionVars, header, page, fault>>
         /\ \/ /\ pc["game"] = "change" /\ OnlyMoves("game", "visit")
               /\ state' = NextState /\ UNCHANGED currQuestion /\ Begins("game")
            \/ /\ pc["game"] = "visit"
               /\ OnlyMoves("game", IF state = "FINISHED" THEN "done" ELSE "change")
               /\ rest["game"] = << >> /\ UNCHANGED <<state, rest>>
               /\ currQuestion' =
                    IF state = "PREPARE" THEN currQuestion + 1 ELSE currQuestion
<1>1. "game" \in Threads /\ rest \in [Threads -> Seq(Sessions)]
  BY WhoRuns DEF TypeOK
<1>2. \A step : Goto("game", step) => OnlyMoves("game", step)
  BY <1>1, GotoMoves DEF OnlyMoves
<1>3. CASE ChangeState("game", NextState)
  BY <1>1, <1>2, <1>3 DEF ChangeState, Begins, Registered
<1>4. CASE GameGoesOn
  BY <1>2, <1>4 DEF GameGoesOn
<1>5. QED
  BY <1>3, <1>4 DEF Play

\* Only the session s is given the number of a game, or of none.
OnlyEnters(s, number) ==
  \A r \in Sessions : gameID'[r] = IF r = s THEN number ELSE gameID[r]

\* The handler of a scoreboard's gameInit, up to the answer.
LEMMA BoardDoes ==
  ASSUME TypeOK, NEW b \in Boards, Board(b)
  PROVE  /\ UNCHANGED <<gameVars, webSessions, isPlayer, rest, header, page, fault>>
         /\ \/ /\ pc[b] = "open" /\ pc["fetch"] = "off"
               /\ \A u \in Threads : pc'[u] = CASE u = b -> "assign"
                                              [] u = "fetch" -> "change"
                                              [] OTHER -> pc[u]
               /\ UNCHANGED gameID
            \/ /\ pc[b] = "assign" /\ OnlyMoves(b, "answer")
               /\ OnlyEnters(b, "game")
<1>1. b \in Sessions /\ b \in Threads /\ "fetch" \in Threads /\ b # "fetch"
  BY WhoRuns
<1>2. CASE CreateGame(b)
  BY <1>1, <1>2 DEF TypeOK, CreateGame, gameVars, sessionVars
<1>3. CASE AssignGameID(b)
  BY <1>1, <1>3, GotoMoves DEF TypeOK, AssignGameID, OnlyMoves, OnlyEnters
<1>4. QED
  BY <1>2, <1>3 DEF Board

\* The handlers of a player's gameInit, up to the answer, and of start.
LEMMA PhoneDoes ==
  ASSUME TypeOK, NEW p \in Phones, Phone(p)
  PROVE  /\ UNCHANGED <<gameVars, webSessions, header, page, fault>>
         /\ \/ /\ pc[p] = "open" /\ OnlyMoves(p, "visit")
               /\ \E b \in Boards : page[b].state # "NULL"
               /\ setting.lateJoins \/ pc["game"] = "off"
               /\ OnlyEnters(p, "game") /\ Begins(p) /\ UNCHANGED isPlayer
            \/ /\ pc[p] = "open" /\ OnlyMoves(p, "answer")
               /\ OnlyEnters(p, "other") /\ UNCHANGED <<isPlayer, rest>>
            \/ /\ pc[p] = "idle" /\ OnlyMoves("game", "change")
               /\ state = "CREATED" /\ pc["game"] = "off"
               /\ setting.lateJoins \/ \A s \in Sessions : pc[s] \in Resting
               /\ setting.earlyStart \/ pc["fetch"] = "done"
               /\ UNCHANGED <<gameID, isPlayer, rest>>
            \/ /\ pc[p] = "visit" /\ rest[p] = << >> /\ OnlyMoves(p, "answer")
               /\ \A s \in Sessions : isPlayer'[s] <=> s = p \/ isPlayer[s]
               /\ UNCHANGED <<gameID, rest>>
<1>1. p \in Sessions /\ p \in Threads /\ "game" \in Threads
  BY WhoRuns
<1>2. \A t \in Threads : \A step : Goto(t, step) => OnlyMoves(t, step)
  BY GotoMoves DEF OnlyMoves
<1>3. /\ rest \in [Threads -> Seq(Sessions)]
      /\ gameID \in [Sessions -> {"game", "chance", "other"}]
      /\ isPlayer \in [Sessions -> BOOLEAN]
  BY DEF TypeOK
<1>4. CASE EnterRoom(p)
  BY <1>1, <1>2, <1>3, <1>4 DEF EnterRoom, Begins, Registered, OnlyEnters
<1>5. CASE EnterWrongRoom(p)
  BY <1>1, <1>2, <1>3, <1>5 DEF EnterWrongRoom, OnlyEnters
<1>6. CASE StartGame(p)
  BY <1>1, <1>2, <1>6 DEF StartGame, sessionVars
<1>7. CASE PlayerAdded(p)
  BY <1>1, <1>2, <1>3, <1>7 DEF PlayerAdded
<1>8. QED
  BY <1>4, <1>5, <1>6, <1>7 DEF Phone

\* A session is registered, or its gameInit is answered.
LEMMA SessionDoes ==
  ASSUME TypeOK, NEW s \in Sessions, Session(s)
  PROVE  /\ UNCHANGED <<gameVars, gameID, isPlayer, rest>>
         /\ \A u \in Threads : u # s => pc'[u] = pc[u] /\ header'[u] = header[u]
         /\ \A r \in Sessions : r # s => page'[r] = page[r]
         /\ Elems(webSessions) \subseteq Elems(webSessions')
         /\ \/ /\ pc[s] = "off" /\ pc'[s] = "open"
               /\ s \in Elems(webSessions') /\ UNCHANGED <<header, page>>
            \/ /\ pc[s] = "answer" /\ pc'[s] = "count"
               /\ Begun(s, IF s \in Phones THEN "player" ELSE "game")
               /\ UNCHANGED page
            \/ /\ Replying(s) /\ Built(s) /\ pc'[s] \in Building
               /\ UNCHANGED page
            \/ /\ pc[s] = "post" /\ Replying(s) /\ pc'[s] = "idle"
               /\ header'[s] = Blank
               /\ page'[s] = IF Shows(s, header[s]) THEN header[s] ELSE page[s]
<1>1. s \in Threads
  BY WhoRuns
<1>2. CASE Connect(s)
  <2>1. /\ Elems(webSessions) \subseteq Elems(webSessions')
        /\ s \in Elems(webSessions')
    BY <1>2, ElemsAppend DEF TypeOK, Connect
  <2>2. QED
    BY <1>1, <1>2, <2>1, GotoMoves DEF Connect
<1>3. CASE Answer(s)
  BY <1>1, <1>3, BeginDoes DEF Answer, OnlyRuns, sessionVars
<1>4. CASE rest[s] = << >> /\ Build(s)
  <2>1. Replying(s) /\ pc'[s] \in Building
    BY <1>1, <1>4, BuildDoes DEF Built, Building, Replying
  <2>2. QED
    BY <1>1, <1>4, <2>1, BuildDoes DEF OnlyRuns, sessionVars
<1>5. CASE rest[s] = << >> /\ Post(s)
  <2>1. rest' = rest
    BY <1>5 DEF Post
  <2>2. QED
    BY <1>1, <1>5, <2>1, PostDoes DEF OnlyRuns, sessionVars, Receiver, Replying, Building
<1>6. QED
  BY <1>2, <1>3, <1>4, <1>5 DEF Session

-------------------------------------------------------------------------------
(* The type invariant. *)

\* The registry is empty, the pages are blank, the game has not been created.
LEMMA TypeInit == Init => TypeOK /\ StepsOK /\ StateOK
<1> SUFFICES ASSUME Init PROVE TypeOK /\ StepsOK /\ StateOK
  OBVIOUS
<1>1. TypeOK
  <2>1. Blank \in Status
    BY DEF Blank, Status, States
  <2>2. << >> \in Seq(Sessions)
    BY EmptySeq
  <2>3. 0 \in 0 .. setting.questions
    BY SettingOK DEF Init
  <2>4. QED
    BY <2>1, <2>2, <2>3 DEF Init, TypeOK, States
<1>2. StepsOK /\ StateOK
  BY WhoRuns DEF Init, StepsOK, StateOK, Building, Telling
<1>3. QED
  BY <1>1, <1>2

\* The loop keeps the types.
LEMMA LoopTyped ==
  ASSUME TypeOK, StepsOK, NEW t \in Threads, Loop(t), UNCHANGED setting
  PROVE  TypeOK'
<1>1. rest[t] # << >> /\ rest[t] \in Seq(Sessions)
  BY DEF TypeOK, Loop
<1>2. Head(rest[t]) \in Sessions /\ Tail(rest[t]) \in Seq(Sessions)
  BY <1>1, ElemsTail
<1>3. UNCHANGED <<gameVars, sessionVars>>
  BY LoopDoes DEF OnlyRuns
<1>4. CASE Skip(t)
  BY <1>2, <1>3, <1>4 DEF TypeOK, Skip, gameVars, sessionVars
<1>5. CASE Visit(t)
  <2>1. /\ UNCHANGED <<rest, page, fault>>
        /\ header' \in [Threads -> Status]
        /\ pc' = [pc EXCEPT ![t] = "count"]
    BY <1>5, BeginDoes DEF Visit
  <2>2. QED
    BY <1>3, <2>1 DEF TypeOK, gameVars, sessionVars, Building
<1>6. CASE Build(t)
  BY <1>3, <1>6, BuildDoes DEF TypeOK, gameVars, sessionVars
<1>7. CASE Post(t)
  <2>1. Receiver(t) \in Sessions
    BY <1>1, <1>2 DEF Receiver
  <2>2. /\ UNCHANGED fault
        /\ header' \in [Threads -> Status]
        /\ page' \in [Sessions -> Status]
        /\ rest' \in [Threads -> Seq(Sessions)]
        /\ \E step \in {"visit", "idle"} : pc' = [pc EXCEPT ![t] = step]
    BY <1>2, <1>7, <2>1, PostDoes
  <2>3. QED
    BY <1>3, <2>2 DEF TypeOK, gameVars, sessionVars
<1>8. QED
  BY <1>4, <1>5, <1>6, <1>7 DEF Loop

\* Every other step keeps the types, too.
LEMMA TypeNext ==
  ASSUME TypeOK, StepsOK, StateOK, [Next]_vars
  PROVE  TypeOK'
<1> USE DEF TypeOK
<1>1. UNCHANGED setting
  BY Steps
<1>2. currQuestion \in Nat /\ setting.questions \in Nat \ {0}
  BY SettingOK
<1>4. ASSUME NEW t \in Threads, Loop(t) PROVE TypeOK'
  BY <1>1, <1>4, LoopTyped
<1>5. CASE Fetch
  <2>1. "fetch" \in Threads
    BY WhoRuns
  <2>2. rest' \in [Threads -> Seq(Sessions)]
    BY <1>5, <2>1 DEF Fetch, ChangeState, FetchFails, FetchDone, Registered
  <2>3. pc' \in [Threads -> {"off", "open", "idle", "change", "assign", "visit",
                            "answer", "done"} \cup Building]
    BY <1>5, <2>1 DEF Fetch, ChangeState, FetchFails, FetchDone, Goto
  <2>4. state' \in States /\ UNCHANGED <<currQuestion, sessionVars, header, page, fault>>
    BY <1>5 DEF Fetch, ChangeState, FetchFails, FetchDone, States, gameVars
  <2>5. QED
    BY <1>1, <2>2, <2>3, <2>4 DEF sessionVars
<1>6. CASE Play
  <2>1. CASE GameGoesOn
    <3>1. currQuestion' \in 0 .. setting.questions
      BY <1>2, <2>1 DEF GameGoesOn, StateOK
    <3>2. pc' \in [Threads -> {"off", "open", "idle", "change", "assign", "visit",
                            "answer", "done"} \cup Building]
      BY <2>1 DEF GameGoesOn, Goto
    <3>3. QED
      BY <1>1, <2>1, <3>1, <3>2 DEF GameGoesOn, sessionVars
  <2>2. CASE ChangeState("game", NextState)
    <3>1. state \in {"CREATED", "PREPARE", "PLAYING", "PAUSED"}
      BY <2>2 DEF ChangeState, StateOK, States
    <3>2. NextState \in States
      BY <3>1 DEF NextState, States
    <3>3. /\ pc' \in [Threads -> {"off", "open", "idle", "change", "assign", "visit",
                            "answer", "done"} \cup Building]
          /\ rest' \in [Threads -> Seq(Sessions)]
      BY <2>2 DEF ChangeState, Goto, Registered
    <3>4. QED
      BY <1>1, <2>2, <3>2, <3>3 DEF ChangeState, sessionVars
  <2>3. QED
    BY <1>6, <2>1, <2>2 DEF Play
<1>7. ASSUME NEW b \in Boards, Board(b) PROVE TypeOK'
  BY <1>1, <1>7, WhoRuns DEF Board, CreateGame, AssignGameID, Goto, gameVars,
     sessionVars
<1>8. ASSUME NEW p \in Phones, Phone(p) PROVE TypeOK'
  <2>1. p \in Sessions /\ p \in Threads /\ "game" \in Threads
    BY WhoRuns
  <2>2. rest' \in [Threads -> Seq(Sessions)]
    BY <1>8, <2>1 DEF Phone, EnterRoom, EnterWrongRoom, StartGame, PlayerAdded,
       Registered
  <2>3. pc' \in [Threads -> {"off", "open", "idle", "change", "assign", "visit",
                            "answer", "done"} \cup Building]
    BY <1>8, <2>1 DEF Phone, EnterRoom, EnterWrongRoom, StartGame, PlayerAdded, Goto
  <2>4. /\ gameID' \in [Sessions -> {"game", "chance", "other"}]
        /\ isPlayer' \in [Sessions -> BOOLEAN]
    BY <1>8, <2>1 DEF Phone, EnterRoom, EnterWrongRoom, StartGame, PlayerAdded,
       sessionVars
  <2>5. UNCHANGED <<gameVars, webSessions, header, page, fault>>
    BY <1>8 DEF Phone, EnterRoom, EnterWrongRoom, StartGame, PlayerAdded, sessionVars
  <2>6. QED
    BY <1>1, <2>2, <2>3, <2>4, <2>5 DEF gameVars
<1>9. ASSUME NEW s \in Sessions, Session(s) PROVE TypeOK'
  <2>1. s \in Threads
    BY WhoRuns
  <2>2. CASE Connect(s)
    <3>1. webSessions' \in Seq(Sessions)
      BY <2>2, ElemsAppend DEF Connect
    <3>2. fault' \in {"none", "registry", "index"}
      BY <2>2 DEF Connect
    <3>3. QED
      BY <1>1, <2>1, <2>2, <3>1, <3>2 DEF Connect, Goto, gameVars
  <2>3. CASE Answer(s)
    <3>1. /\ UNCHANGED <<rest, page, fault, gameVars, sessionVars>>
          /\ header' \in [Threads -> Status]
          /\ pc' = [pc EXCEPT ![s] = "count"]
      BY <2>1, <2>3, BeginDoes DEF Answer, OnlyRuns
    <3>2. QED
      BY <1>1, <2>1, <3>1 DEF gameVars, sessionVars, Building
  <2>4. CASE Build(s)
    <3>1. UNCHANGED <<rest, page, gameVars, sessionVars>>
      BY <2>1, <2>4, BuildDoes DEF OnlyRuns
    <3>2. /\ header' \in [Threads -> Status]
          /\ \E step \in Building : pc' = [pc EXCEPT ![s] = step]
          /\ fault' \in {fault, "index"}
      BY <2>1, <2>4, BuildDoes
    <3>3. QED
      BY <1>1, <2>1, <3>1, <3>2 DEF gameVars, sessionVars
  <2>5. CASE rest[s] = << >> /\ Post(s)
    <3>1. UNCHANGED <<gameVars, sessionVars, fault>>
      BY <2>5 DEF Post
    <3>2. /\ header' \in [Threads -> Status]
          /\ page' \in [Sessions -> Status]
          /\ rest' \in [Threads -> Seq(Sessions)]
          /\ \E step \in {"visit", "idle"} : pc' = [pc EXCEPT ![s] = step]
      BY <2>1, <2>5, PostDoes DEF Receiver
    <3>3. QED
      BY <1>1, <2>1, <3>1, <3>2 DEF gameVars, sessionVars
  <2>6. QED
    BY <1>9, <2>2, <2>3, <2>4, <2>5 DEF Session
<1>10. CASE UNCHANGED vars
  BY <1>10 DEF vars, gameVars, sessionVars
<1>11. QED
  BY <1>4, <1>5, <1>6, <1>7, <1>8, <1>9, <1>10, Steps

\* Every step leaves every thread at a place of its kind.
LEMMA StepsNext ==
  ASSUME TypeOK, StepsOK, MembersOK, [Next]_vars
  PROVE  StepsOK'
<1> USE WhoRuns DEF StepsOK, OnlyMoves, Begins, Telling, Building
<1>1. ASSUME NEW t \in Threads, Loop(t) PROVE StepsOK'
  <2>1. \A s : s \in Elems(Tail(rest[t])) => s \in Elems(rest[t])
    BY <1>1, LoopDoes
  <2>2. /\ OnlyRuns(t) /\ rest[t] # << >>
        /\ pc[t] \in {"visit"} \cup Building /\ pc'[t] \in {"visit"} \cup Building
        /\ pc'[t] \in Building => rest'[t] = rest[t]
    BY <1>1, LoopDoes DEF Built
  <2>3. QED
    BY <2>2 DEF OnlyRuns, sessionVars
<1>2. CASE Fetch
  BY <1>2, FetchDoes DEF sessionVars
<1>3. CASE Play
  BY <1>3, PlayDoes DEF sessionVars
<1>4. ASSUME NEW b \in Boards, Board(b) PROVE StepsOK'
  BY <1>4, BoardDoes
<1>5. ASSUME NEW p \in Phones, Phone(p) PROVE StepsOK'
  BY <1>5, PhoneDoes
<1>6. ASSUME NEW s \in Sessions, Session(s) PROVE StepsOK'
  BY <1>6, SessionDoes DEF Replying
<1>7. CASE UNCHANGED vars
  BY <1>7 DEF vars, gameVars, sessionVars
<1>8. QED
  BY <1>1, <1>2, <1>3, <1>4, <1>5, <1>6, <1>7, Steps

-------------------------------------------------------------------------------
(* The game and who is in it. *)

\* A question that is asked exists, and the state changes as the threads say.
LEMMA StateNext ==
  ASSUME TypeOK, StepsOK, StateOK, MembersOK, [Next]_vars
  PROVE  StateOK'
<1> USE WhoRuns DEF StateOK, OnlyMoves, Building
<1>1. UNCHANGED setting
  BY Steps
<1>2. currQuestion \in Nat /\ setting.questions \in Nat
  BY SettingOK DEF TypeOK
<1>3. ASSUME NEW t \in Threads, Loop(t) PROVE StateOK'
  BY <1>1, <1>3, LoopDoes DEF gameVars, OnlyRuns, Telling
<1>4. CASE Fetch
  BY <1>1, <1>2, <1>4, FetchDoes
<1>5. CASE Play
  <2>1. state \in States
    BY DEF TypeOK
  <2>2. CASE pc["game"] = "change"
    <3>1. state \in {"CREATED", "PREPARE", "PLAYING", "PAUSED"}
      BY <2>1, <2>2 DEF States
    <3>2. /\ state' = NextState /\ UNCHANGED currQuestion
          /\ pc'["game"] = "visit" /\ pc'["fetch"] = pc["fetch"]
      BY <1>5, <2>2, PlayDoes
    <3>3. \/ state' \in {"PLAYING", "PAUSED", "PREPARE"}
                /\ currQuestion < setting.questions
          \/ state' = "FINISHED"
      BY <3>1, <3>2, <1>2 DEF NextState
    <3>4. QED
      BY <1>1, <2>2, <3>1, <3>2, <3>3
  <2>3. CASE pc["game"] # "change"
    BY <1>1, <1>2, <1>5, <2>3, PlayDoes
  <2>4. QED
    BY <2>2, <2>3
<1>6. ASSUME NEW b \in Boards, Board(b) PROVE StateOK'
  BY <1>1, <1>6, BoardDoes DEF gameVars
<1>7. ASSUME NEW p \in Phones, Phone(p) PROVE StateOK'
  BY <1>1, <1>2, <1>7, PhoneDoes DEF gameVars
<1>8. ASSUME NEW s \in Sessions, Session(s) PROVE StateOK'
  BY <1>1, <1>8, SessionDoes DEF gameVars, Replying, StepsOK
<1>9. CASE UNCHANGED vars
  BY <1>1, <1>9 DEF vars, gameVars
<1>10. QED
  BY <1>3, <1>4, <1>5, <1>6, <1>7, <1>8, <1>9, Steps

\* Somebody sees the game whose room is entered.
LEMMA MembersNext ==
  ASSUME TypeOK, StepsOK, StateOK, MembersOK, BlankOK, [Next]_vars
  PROVE  MembersOK'
<1> USE WhoRuns DEF MembersOK, OnlyMoves, OnlyEnters, Telling, Replying, Building
<1>1. ASSUME NEW t \in Threads, Loop(t) PROVE MembersOK'
  <2>1. OnlyRuns(t) /\ Telling(t) /\ pc'[t] \in {"visit"} \cup Building
    BY <1>1, LoopDoes
  <2>2. pc[t] # "visit" => rest[t] # << >>
    BY <2>1
  <2>3. QED
    BY <2>1, <2>2 DEF OnlyRuns, gameVars, sessionVars, StepsOK
<1>2. CASE Fetch
  BY <1>2, FetchDoes DEF sessionVars, Begins, StepsOK
<1>3. CASE Play
  <2>1. state' # "NULL"
    <3>1. state \in {"CREATED", "PREPARE", "PLAYING", "PAUSED"}
             \/ (state # "NULL" /\ state' = state)
      BY <1>3, PlayDoes DEF StateOK, TypeOK, States
    <3>2. QED
      BY <1>3, <3>1, PlayDoes DEF NextState
  <2>2. QED
    BY <1>3, <2>1, PlayDoes DEF sessionVars, Begins, StepsOK
<1>4. ASSUME NEW b \in Boards, Board(b) PROVE MembersOK'
  BY <1>4, BoardDoes DEF gameVars
<1>5. ASSUME NEW p \in Phones, Phone(p) PROVE MembersOK'
  <2>1. pc[p] = "open" /\ (\E b \in Boards : page[b].state # "NULL") => state # "NULL"
    BY DEF BlankOK
  <2>2. QED
    BY <1>5, <2>1, PhoneDoes DEF gameVars, Begins, StepsOK
<1>6. ASSUME NEW s \in Sessions, Session(s) PROVE MembersOK'
  BY <1>6, SessionDoes DEF gameVars, StepsOK, Built
<1>7. CASE UNCHANGED vars
  BY <1>7 DEF vars, gameVars, sessionVars
<1>8. QED
  BY <1>1, <1>2, <1>3, <1>4, <1>5, <1>6, <1>7, Steps

\* A status is meant for the page it is sent to: a scoreboard is no player.
LEMMA KindNext ==
  ASSUME TypeOK, StepsOK, MembersOK, KindOK, [Next]_vars
  PROVE  KindOK'
<1> USE WhoRuns DEF KindOK, OnlyMoves, Telling, Replying
<1>1. ASSUME NEW t \in Threads, Loop(t) PROVE KindOK'
  <2>1. /\ \A u \in Threads : u # t => UNCHANGED <<pc[u], header[u], rest[u]>>
        /\ rest[t] # << >>
    BY <1>1, LoopDoes DEF OnlyRuns
  <2>2. pc'[t] \in Building =>
          \/ header'[t].kind = "player" /\ Head(rest'[t]) \in Phones
          \/ header'[t].kind = "game"
    BY <1>1, LoopDoes DEF Begun, Built, MembersOK, Building
  <2>3. pc'[t] \in Building => rest'[t] # << >>
    BY <1>1, <2>1, LoopDoes DEF Building
  <2>4. QED
    BY <2>1, <2>2, <2>3
<1>2. CASE Fetch
  BY <1>2, FetchDoes DEF Begins, Building
<1>3. CASE Play
  BY <1>3, PlayDoes DEF Begins, Building
<1>4. ASSUME NEW b \in Boards, Board(b) PROVE KindOK'
  BY <1>4, BoardDoes DEF Building
<1>5. ASSUME NEW p \in Phones, Phone(p) PROVE KindOK'
  BY <1>5, PhoneDoes DEF Begins, Building
<1>6. ASSUME NEW s \in Sessions, Session(s) PROVE KindOK'
  <2>1. /\ \A u \in Threads : u # s => UNCHANGED <<pc[u], header[u]>>
        /\ UNCHANGED rest
    BY <1>6, SessionDoes
  <2>2. pc'[s] \in Building =>
          /\ rest[s] = << >>
          /\ header'[s].kind = IF s \in Phones THEN "player" ELSE "game"
    BY <1>6, SessionDoes DEF Begun, Built, StepsOK, Building
  <2>3. QED
    BY <2>1, <2>2
<1>7. CASE UNCHANGED vars
  BY <1>7 DEF vars
<1>8. QED
  BY <1>1, <1>2, <1>3, <1>4, <1>5, <1>6, <1>7, Steps

\* A question that is put into a status exists, and is the one counted before
\* or a later one.
LEMMA ReadsNext ==
  ASSUME TypeOK, StepsOK, StateOK, MembersOK, ReadsOK, [Next]_vars
  PROVE  ReadsOK'
<1> USE WhoRuns DEF ReadsOK, OnlyMoves
<1>1. UNCHANGED setting
  BY Steps
<1>2. /\ currQuestion \in Nat /\ setting.questions \in Nat
      /\ \A t \in Threads : header[t] \in Status
  BY SettingOK DEF TypeOK
<1>3. NoQuestion \notin Nat /\ Blank.text = NoQuestion
  BY NoQuestionAssumption DEF Blank
\* A status is begun, grows, or is posted.
<1>4. ASSUME NEW t \in Threads,
             \A u \in Threads : u # t => UNCHANGED <<pc[u], header[u]>>,
             UNCHANGED gameVars,
             \/ pc'[t] = "count" /\ header'[t].text = NoQuestion
             \/ Built(t)
             \/ pc'[t] \in {"visit", "idle"} /\ header'[t].text = NoQuestion,
             \/ UNCHANGED page
             \/ /\ pc[t] = "post"
                /\ \A s \in Sessions : page'[s] = page[s] \/ page'[s] = header[t]
      PROVE  ReadsOK'
  <2>1. /\ pc'[t] \in {"test", "ask", "past", "post"} => header'[t].question <= currQuestion
        /\ header'[t].text # NoQuestion => pc'[t] = "post"
        /\ TextOK(header[t])'
    <3>1. header[t] \in Status
      BY <1>2
    <3>2. CASE Built(t)
      BY <1>1, <1>2, <1>3, <3>1, <3>2 DEF Built, TextOK, Status
    <3>3. CASE ~Built(t)
      BY <1>3, <1>4, <3>3 DEF TextOK
    <3>4. QED
      BY <3>2, <3>3
  <2>2. \A s \in Sessions : TextOK(page[s])'
    BY <1>1, <1>4 DEF TextOK
  <2>3. UNCHANGED <<currQuestion, state>>
    BY <1>4 DEF gameVars
  <2>4. /\ pc'["game"] = "ask" => state \in {"PLAYING", "PAUSED"}
        /\ pc'["game"] # "past"
    <3>1. CASE t = "game"
      <4>1. Built(t) /\ pc'["game"] = "ask" => state \in {"PLAYING", "PAUSED"}
        BY <3>1 DEF Built, ShownIn
      <4>2. Built(t) /\ pc'["game"] = "past" => FALSE
        BY <3>1, <1>2 DEF Built, StateOK
      <4>3. QED
        BY <1>4, <3>1, <4>1, <4>2
    <3>2. CASE t # "game"
      BY <1>4, <3>2
    <3>3. QED
      BY <3>1, <3>2
  <2>5. ASSUME NEW u \in Threads, u # t
        PROVE  /\ pc'[u] \in {"test", "ask", "past", "post"} => header'[u].question <= currQuestion
               /\ header'[u].text # NoQuestion => pc'[u] = "post"
               /\ TextOK(header[u])'
    BY <1>1, <1>4, <2>5 DEF TextOK
  <2>6. QED
    BY <2>1, <2>2, <2>3, <2>4, <2>5
\* A thread goes on elsewhere.
<1>5. ASSUME UNCHANGED <<header, page>>,
             currQuestion' \in Nat, currQuestion <= currQuestion',
             \A t \in Threads :
               \/ pc'[t] = pc[t] /\ (t = "game" /\ pc[t] = "ask" => state' = state)
               \/ /\ pc'[t] \notin {"test", "ask", "past", "post"}
                  /\ pc[t] # "post"
      PROVE  ReadsOK'
  <2>1. ASSUME NEW t \in Threads
        PROVE  /\ pc'[t] \in {"test", "ask", "past", "post"} => header'[t].question <= currQuestion'
               /\ header'[t].text # NoQuestion => pc'[t] = "post"
               /\ TextOK(header[t])'
    <3>1. header[t] \in Status
      BY <1>2
    <3>2. QED
      BY <1>1, <1>2, <1>5, <3>1 DEF TextOK, Status
  <2>2. \A s \in Sessions : TextOK(page[s])'
    BY <1>1, <1>5 DEF TextOK
  <2>3. QED
    BY <1>5, <2>1, <2>2
<1>6. ASSUME NEW t \in Threads, Loop(t) PROVE ReadsOK'
  <2>1. /\ UNCHANGED gameVars
        /\ \A u \in Threads : u # t => UNCHANGED <<pc[u], header[u]>>
    BY <1>6, LoopDoes DEF OnlyRuns
  <2>2. header[t].text # NoQuestion => pc[t] = "post"
    OBVIOUS
  <2>3. \/ pc'[t] = "count" /\ header'[t].text = NoQuestion
        \/ Built(t)
        \/ pc'[t] \in {"visit", "idle"} /\ header'[t].text = NoQuestion
    BY <1>3, <1>6, <2>2, LoopDoes DEF Begun
  <2>4. \/ UNCHANGED page
        \/ /\ pc[t] = "post"
           /\ \A s \in Sessions : page'[s] = page[s] \/ page'[s] = header[t]
    BY <1>6, LoopDoes
  <2>5. QED
    BY <1>4, <2>1, <2>3, <2>4
<1>7. CASE Fetch
  <2>1. pc["fetch"] \in {"change", "visit"}
          /\ (pc["game"] = "ask" => state' = state)
    BY <1>7, FetchDoes DEF StateOK
  <2>2. QED
    BY <1>2, <1>5, <1>7, <2>1, FetchDoes
<1>8. CASE Play
  <2>1. currQuestion' \in Nat /\ currQuestion <= currQuestion'
    BY <1>2, <1>8, PlayDoes
  <2>2. QED
    BY <1>5, <1>8, <2>1, PlayDoes
<1>9. ASSUME NEW b \in Boards, Board(b) PROVE ReadsOK'
  BY <1>2, <1>5, <1>9, BoardDoes DEF gameVars
<1>10. ASSUME NEW p \in Phones, Phone(p) PROVE ReadsOK'
  BY <1>2, <1>5, <1>10, PhoneDoes DEF gameVars
<1>11. ASSUME NEW s \in Sessions, Session(s) PROVE ReadsOK'
  <2>1. UNCHANGED gameVars
    BY <1>11, SessionDoes
  <2>2. CASE pc[s] = "off"
    BY <1>2, <1>5, <1>11, <2>1, <2>2, SessionDoes DEF gameVars, Built, Replying, Building
  <2>3. CASE pc[s] # "off"
    <3>1. /\ \A u \in Threads : u # s => UNCHANGED <<pc[u], header[u]>>
          /\ \/ pc'[s] = "count" /\ header'[s].text = NoQuestion
             \/ Built(s)
             \/ pc'[s] \in {"visit", "idle"} /\ header'[s].text = NoQuestion
          /\ \/ UNCHANGED page
             \/ /\ pc[s] = "post"
                /\ \A r \in Sessions : page'[r] = page[r] \/ page'[r] = header[s]
      BY <1>3, <1>11, <2>3, SessionDoes DEF Begun
    <3>2. QED
      BY <1>4, <2>1, <3>1
  <2>4. QED
    BY <2>2, <2>3
<1>12. CASE UNCHANGED vars
  BY <1>2, <1>5, <1>12 DEF vars, gameVars
<1>13. QED
  BY <1>6, <1>7, <1>8, <1>9, <1>10, <1>11, <1>12, Steps

\* Who is in the game.
LEMMA WhoIsMember ==
  \A m : m \in Members <=> \/ m \in Boards /\ gameID[m] = "game"
                           \/ m \in Phones /\ isPlayer[m]
  BY DEF Members

-------------------------------------------------------------------------------
(* Nobody is left with a blank page. *)

\* A broadcast is about a game that has a state.
LEMMA LoopHasState ==
  ASSUME StepsOK, StateOK, MembersOK, NEW t \in Threads, Telling(t)
  PROVE  state # "NULL"
  BY WhoRuns DEF StepsOK, StateOK, MembersOK, Telling, Building

\* A status that fits the page of a member is shown on it.
LEMMA FitsShows ==
  ASSUME NEW m \in Sessions, NEW h, h.state # "NULL",
         h.kind = IF m \in Phones THEN "player" ELSE "game"
  PROVE  Shows(m, h)
  BY WhoRuns DEF Shows

\* One step of the loop: whoever has to be told still has, or shows it now.
LEMMA LoopTells ==
  ASSUME TypeOK, StepsOK, MembersOK, KindOK, NEW t \in Threads, Loop(t),
         NEW m \in Members, ToBeTold(t, m),
         pc[t] = "post" => header[t].state # "NULL"
  PROVE  \/ ToBeTold(t, m)'
         \/ pc[t] = "post" /\ m = Head(rest[t]) /\ page'[m] = header[t]
<1> USE WhoRuns, LoopDoes DEF ToBeTold
<1>1. m \in Sessions /\ (m \in Phones <=> isPlayer[m]) /\ gameID[m] = "game"
  BY WhoIsMember DEF MembersOK
<1>2. CASE pc[t] = "visit" /\ pc'[t] = "visit"
  <2>1. rest'[t] = Tail(rest[t]) /\ m # Head(rest[t])
    BY <1>1, <1>2 DEF Built, Building
  <2>2. m \in Elems(rest'[t])
    BY <2>1
  <2>3. QED
    BY <1>2, <2>2 DEF Building
<1>3. CASE pc[t] = "visit" /\ pc'[t] = "count"
  BY <1>1, <1>3 DEF Begun, Built
<1>4. CASE rest' = rest /\ Built(t) /\ pc[t] \in Building
  BY <1>4 DEF Built
<1>5. CASE pc[t] = "post" /\ pc'[t] = "visit"
  <2>1. CASE m = Head(rest[t])
    <3>1. Shows(m, header[t])
      BY <1>1, <1>5, <2>1, FitsShows DEF Building
    <3>2. QED
      BY <1>5, <2>1, <3>1 DEF Built
  <2>2. CASE m # Head(rest[t])
    BY <1>5, <2>2 DEF Building, Built
  <2>3. QED
    BY <2>1, <2>2
<1>6. QED
  BY <1>2, <1>3, <1>4, <1>5 DEF Built

\* Whoever the broadcast has passed has been told, or is not in the game.
LEMMA LoopBlank ==
  ASSUME TypeOK, StepsOK, StateOK, MembersOK, KindOK, BlankOK,
         NEW t \in Threads, Loop(t)
  PROVE  BlankOK'
<1> USE WhoRuns
<1>1. /\ state # "NULL" /\ UNCHANGED <<gameVars, sessionVars>>
      /\ \A u \in Threads : u # t => UNCHANGED <<pc[u], header[u], rest[u]>>
      /\ Telling(t)
  BY LoopHasState, LoopDoes DEF OnlyRuns
<1>2. UNCHANGED state /\ \A m : m \in Members' <=> m \in Members
  BY <1>1 DEF Members, gameVars, sessionVars
<1>3. pc[t] = "post" => header[t].state # "NULL"
  BY <1>1 DEF BlankOK, Building
<1>4. pc'[t] \in Building => rest'[t] # << >> /\ header'[t].state # "NULL"
  BY <1>1, LoopDoes DEF Begun, Built, BlankOK, Building, Telling
<1>5. \A u \in Threads :
        pc'[u] \in Building /\ Telling(u)' => header'[u].state # "NULL"
  BY <1>1, <1>4 DEF BlankOK, Telling
<1>6. \A s \in Sessions : isPlayer'[s] /\ Replying(s)' => header'[s].state # "NULL"
  BY <1>1, <1>4 DEF BlankOK, Replying, sessionVars
<1>7. ASSUME NEW m \in Members
      PROVE  \/ page'[m].state # "NULL"
             \/ ToBeTold("fetch", m)'
             \/ pc'[m] = "answer"
             \/ Replying(m)' /\ header'[m].state # "NULL"
  <2>1. m \in Sessions /\ m \in Threads
    BY WhoIsMember
  <2>2. m # t /\ UNCHANGED <<pc[m], header[m], rest[m]>>
    <3>1. m # t
      BY <1>1, <2>1, WhoIsMember DEF Telling, MembersOK, Replying, StepsOK, Building
    <3>2. QED
      BY <1>1, <2>1, <3>1
  <2>3. page[m].state # "NULL" => page'[m].state # "NULL"
    BY <1>3, <2>1, LoopDoes
  <2>4. CASE ToBeTold("fetch", m)
    <3>1. CASE t = "fetch"
      BY <1>3, <2>4, <3>1, LoopTells
    <3>2. CASE t # "fetch"
      BY <1>1, <2>4, <3>2 DEF ToBeTold
    <3>3. QED
      BY <3>1, <3>2
  <2>5. QED
    BY <1>1, <2>2, <2>3, <2>4 DEF BlankOK, Replying
<1>8. QED
  BY <1>1, <1>2, <1>5, <1>6, <1>7 DEF BlankOK

\* No other step leaves anybody with a blank page, either: those who join are
\* answered, and those who have joined when the game gets its state are told.
LEMMA BlankNext ==
  ASSUME TypeOK, StepsOK, StateOK, MembersOK, KindOK, BlankOK, [Next]_vars
  PROVE  BlankOK'
<1> USE WhoRuns, WhoIsMember DEF OnlyMoves, OnlyEnters
<1>1. ASSUME NEW t \in Threads, Loop(t) PROVE BlankOK'
  BY <1>1, LoopBlank
\* What is told about a game is said by nobody else.
<1>2. ASSUME UNCHANGED <<header, page>>,
             \A t \in Threads : pc'[t] \in Building =>
               pc'[t] = pc[t] /\ rest'[t] = rest[t]
      PROVE  /\ \A t \in Threads :
                  pc'[t] \in Building /\ Telling(t)' => header'[t].state # "NULL"
             /\ \A s \in Sessions : isPlayer[s] /\ Replying(s)' => header'[s].state # "NULL"
  BY <1>2 DEF BlankOK, Telling, Replying
<1>3. CASE Fetch
  <2>1. /\ UNCHANGED <<sessionVars, header, page>>
        /\ \A t \in Threads : t # "fetch" => UNCHANGED <<pc[t], rest[t]>>
        /\ pc'["fetch"] \in {"visit", "done"}
    BY <1>3, FetchDoes DEF Begins
  <2>2. /\ \A t \in Threads : pc'[t] \in Building => pc'[t] = pc[t] /\ rest'[t] = rest[t]
        /\ \A s \in Sessions : isPlayer'[s] <=> isPlayer[s]
        /\ \A m : m \in Members' <=> m \in Members
    BY <2>1 DEF Building, sessionVars, Members
  <2>3. CASE pc'["fetch"] = "visit"
    <3>1. /\ state' = "CREATED"
          /\ \A m \in Members : m \in Elems(rest'["fetch"])
      BY <1>3, <2>3, FetchDoes DEF Begins, StepsOK, MembersOK, Replying, Building
    <3>2. \A m \in Members' : ToBeTold("fetch", m)'
      BY <2>2, <2>3, <3>1 DEF ToBeTold, Building
    <3>3. QED
      BY <1>2, <2>1, <2>2, <3>1, <3>2 DEF BlankOK
  <2>4. CASE pc'["fetch"] = "done"
    <3>1. UNCHANGED <<state, rest>> /\ \A m : ~ToBeTold("fetch", m)
      BY <1>3, <2>4, FetchDoes, ElemsEmpty DEF ToBeTold, StepsOK, Telling, Building
    <3>2. \A m \in Members : UNCHANGED pc[m] /\ (Replying(m)' <=> Replying(m))
      BY <2>1, <3>1 DEF Replying
    <3>3. QED
      BY <1>2, <2>1, <2>2, <3>1, <3>2 DEF BlankOK
  <2>5. QED
    BY <2>1, <2>3, <2>4
<1>4. CASE Play
  <2>1. state # "NULL" /\ state' # "NULL"
    <3>1. state # "NULL"
      BY <1>4, PlayDoes DEF StateOK
    <3>2. QED
      BY <1>4, <3>1, PlayDoes, StateNext DEF StateOK
  <2>2. /\ UNCHANGED <<sessionVars, header, page>>
        /\ \A t \in Threads : t # "game" => UNCHANGED <<pc[t], rest[t]>>
        /\ pc'["game"] \notin Building
    BY <1>4, PlayDoes DEF Begins, Building
  <2>3. /\ \A t \in Threads : pc'[t] \in Building => pc'[t] = pc[t] /\ rest'[t] = rest[t]
        /\ \A s \in Sessions : isPlayer'[s] <=> isPlayer[s]
        /\ \A m : m \in Members' <=> m \in Members
    BY <2>2 DEF sessionVars, Members
  <2>4. \A m \in Members : /\ UNCHANGED pc[m] /\ (Replying(m)' <=> Replying(m))
                           /\ ToBeTold("fetch", m)' <=> ToBeTold("fetch", m)
    BY <2>2 DEF Replying, ToBeTold
  <2>5. QED
    BY <1>2, <2>1, <2>2, <2>3, <2>4 DEF BlankOK
<1>5. ASSUME NEW b \in Boards, Board(b) PROVE BlankOK'
  <2>1. /\ UNCHANGED <<state, isPlayer, rest, header, page>>
        /\ \A u \in Threads : u # b /\ u # "fetch" => UNCHANGED pc[u]
        /\ pc'[b] \in {"assign", "answer"} /\ pc[b] \in {"open", "assign"}
        /\ pc'["fetch"] \notin Building \/ UNCHANGED pc["fetch"]
        /\ pc["fetch"] = "off" \/ UNCHANGED pc["fetch"]
    BY <1>5, BoardDoes DEF Building, gameVars
  <2>2. \A t \in Threads : pc'[t] \in Building => pc'[t] = pc[t] /\ rest'[t] = rest[t]
    BY <2>1 DEF Building
  <2>3. \A m \in Members' : m \in Members \/ pc'[m] = "answer"
    BY <1>5, BoardDoes DEF Members
  <2>4. \A m \in Members : /\ m # b \/ pc'[b] = "answer"
                           /\ m # b => Replying(m)' <=> Replying(m)
                           /\ ToBeTold("fetch", m) => ToBeTold("fetch", m)'
    BY <2>1 DEF Replying, ToBeTold, MembersOK, StepsOK, Building
  <2>5. QED
    BY <1>2, <2>1, <2>2, <2>3, <2>4 DEF BlankOK
<1>6. ASSUME NEW p \in Phones, Phone(p) PROVE BlankOK'
  <2>1. /\ UNCHANGED <<state, header, page>>
        /\ \A u \in Threads : u # p /\ u # "game" => UNCHANGED <<pc[u], rest[u]>>
        /\ \A u \in Threads : UNCHANGED pc[u] \/ pc'[u] \notin Building
        /\ UNCHANGED pc[p] \/ pc'[p] = "answer" \/ (pc'[p] = "visit" /\ pc[p] = "open")
        /\ \A u \in Threads : pc'[u] \in Building => UNCHANGED rest[u]
    BY <1>6, PhoneDoes DEF Building, gameVars, Begins
  <2>2. \A s \in Sessions : isPlayer'[s] /\ Replying(s)' => isPlayer[s]
    BY <1>6, PhoneDoes DEF Replying, Building
  <2>3. \A m \in Members' : m \in Members \/ pc'[m] = "answer"
    BY <1>6, PhoneDoes DEF Members
  <2>4. \A m \in Members : /\ ~isPlayer[p] => m # p
                           /\ m # p => UNCHANGED pc[m] /\ (Replying(m)' <=> Replying(m))
                           /\ ToBeTold("fetch", m)' <=> ToBeTold("fetch", m)
    BY <2>1 DEF Replying, ToBeTold
  <2>5. p \in Members => UNCHANGED <<pc[p], rest[p]>> \/ pc'[p] = "answer"
    BY <1>6, PhoneDoes DEF MembersOK, Replying, Building
  <2>6. \A m \in Members : pc'[m] = "answer"
           \/ (UNCHANGED pc[m] /\ (Replying(m)' <=> Replying(m)))
    BY <2>4, <2>5 DEF Replying
  <2>7. QED
    BY <1>2, <2>1, <2>2, <2>3, <2>4, <2>6 DEF BlankOK
<1>7. ASSUME NEW s \in Sessions, Session(s) PROVE BlankOK'
  <2>1. /\ UNCHANGED <<state, currQuestion, gameID, isPlayer, rest>>
        /\ \A m : m \in Members' <=> m \in Members
        /\ \A u \in Threads : u # s => UNCHANGED <<pc[u], header[u]>>
        /\ \A r \in Sessions : r # s => UNCHANGED page[r]
    BY <1>7, SessionDoes DEF Members, gameVars
  <2>2. /\ \A u \in Threads : u # s => (Telling(u)' <=> Telling(u))
        /\ \A u \in Sessions : u # s => (Replying(u)' <=> Replying(u))
        /\ \A m : ToBeTold("fetch", m)' <=> ToBeTold("fetch", m)
    BY <2>1 DEF Telling, Replying, ToBeTold
  <2>3. pc'[s] \in Building => rest[s] = << >>
    BY <1>7, SessionDoes DEF StepsOK, Telling, Replying, Building
  <2>4. state = "NULL" => header'[s].state = "NULL" /\ page'[s].state = "NULL"
    BY <1>7, SessionDoes DEF BlankOK, Begun, Built, Blank
  <2>5. isPlayer[s] /\ Replying(s)' => header'[s].state # "NULL"
    BY <1>7, <2>1, SessionDoes DEF BlankOK, Begun, Built, MembersOK, Replying, Building
  <2>6. ASSUME state # "NULL", s \in Members
        PROVE  \/ page'[s].state # "NULL"
               \/ ToBeTold("fetch", s)'
               \/ pc'[s] = "answer"
               \/ Replying(s)' /\ header'[s].state # "NULL"
    <3>1. CASE pc[s] = "off"
      BY <3>1, <2>6 DEF MembersOK, Replying, Building
    <3>2. CASE pc[s] = "answer"
      BY <1>7, <2>1, <2>3, <2>6, <3>2, SessionDoes DEF Begun, Replying, Built, Building
    <3>3. CASE Replying(s) /\ Built(s) /\ pc'[s] \in Building /\ UNCHANGED page
      BY <2>1, <2>2, <2>6, <3>3 DEF BlankOK, Built, Replying, Building
    <3>4. CASE Replying(s) /\ pc'[s] = "idle" /\
               page'[s] = IF Shows(s, header[s]) THEN header[s] ELSE page[s]
      <4>1. header[s].kind = IF s \in Phones THEN "player" ELSE "game"
        BY <3>4 DEF KindOK
      <4>2. CASE header[s].state # "NULL"
        <5>1. page'[s] = header[s]
          BY <3>4, <4>1, <4>2, FitsShows
        <5>2. QED
          BY <4>2, <5>1
      <4>3. CASE header[s].state = "NULL"
        <5>1. s \in Boards
          BY <2>6, <3>4, <4>3 DEF BlankOK
        <5>2. page'[s] = page[s]
          BY <3>4, <4>3, <5>1 DEF Shows
        <5>3. page[s].state # "NULL" \/ ToBeTold("fetch", s)
          BY <2>6, <3>4, <4>3 DEF BlankOK, Replying, Building
        <5>4. QED
          BY <2>2, <5>2, <5>3
      <4>4. QED
        BY <4>2, <4>3
    <3>5. QED
      BY <1>7, <3>1, <3>2, <3>3, <3>4, SessionDoes
  <2>7. QED
    BY <2>1, <2>2, <2>3, <2>4, <2>5, <2>6 DEF BlankOK, Telling
<1>8. CASE UNCHANGED vars
  BY <1>8 DEF BlankOK, Members, Telling, Replying, ToBeTold, vars, gameVars, sessionVars
<1>9. QED
  BY <1>1, <1>3, <1>4, <1>5, <1>6, <1>7, <1>8, Steps

\* The invariant that nobody's page stays blank rests on.
LEMMA BlankInit == Init => BlankInv
<1> SUFFICES ASSUME Init PROVE MembersOK /\ KindOK /\ BlankOK /\ ReadsOK
  BY TypeInit DEF BlankInv
<1>1. \A m : m \notin Members
  BY WhoRuns DEF Init, Members
<1>2. \A t \in Threads : pc[t] = "off" /\ header[t] = Blank
  BY DEF Init
<1>3. KindOK /\ ReadsOK
  BY <1>2, WhoRuns DEF Init, KindOK, ReadsOK, Replying, Building, TextOK, Blank
<1>4. MembersOK /\ BlankOK
  BY <1>1, <1>2, WhoRuns DEF Init, MembersOK, BlankOK, Replying, Telling, Building, Blank
<1>5. QED
  BY <1>3, <1>4

\* It is inductive.
LEMMA BlankInductive == BlankInv /\ [Next]_vars => BlankInv'
  BY TypeNext, StepsNext, StateNext, MembersNext, KindNext, BlankNext, ReadsNext
  DEF BlankInv

\* Every variable has its type (TypeOK): in particular no question is counted
\* that the site has not sent.
THEOREM BroadcastTyped == Spec => []TypeOK
<1>1. BlankInv => TypeOK
  BY DEF BlankInv
<1>2. QED
  BY <1>1, BlankInit, BlankInductive, PTL DEF Spec

\* Nobody is left out (NobodyLeftBlank): whoever joins at whatever moment,
\* before, during or after any of the broadcasts and with any number of io
\* threads, when nothing is being pushed any more the page shows a game.
THEOREM NobodyIsLeftOut == Spec => []NobodyLeftBlank
<1>1. BlankInv => NobodyLeftBlank
  <2> SUFFICES ASSUME BlankInv, Quiet, state # "NULL", NEW m \in Members
               PROVE  page[m].state # "NULL"
    BY DEF NobodyLeftBlank
  <2>1. m \in Sessions /\ pc[m] \in Resting
    BY WhoIsMember, WhoRuns DEF Quiet
  <2>2. rest["fetch"] = << >>
    BY WhoRuns DEF BlankInv, StepsOK, Telling, Building, Quiet
  <2>3. QED
    BY <2>1, <2>2, ElemsEmpty DEF BlankInv, BlankOK, ToBeTold, Replying, Building,
       Resting
<1>2. QED
  BY <1>1, BlankInit, BlankInductive, PTL DEF Spec

-------------------------------------------------------------------------------
(* If nobody joins late, the pages follow the game. *)

\* Before the game starts there are two states only.
LEMMA LobbyNext ==
  ASSUME BlankInv, LobbyOK, [Next]_vars
  PROVE  LobbyOK'
<1> SUFFICES ASSUME pc'["game"] = "off" PROVE LobbyOK'
  BY DEF LobbyOK
<1> USE WhoRuns DEF BlankInv, OnlyMoves
<1>1. ASSUME pc["game"] = "off"
      PROVE  state \in {"NULL", "CREATED"} /\ LobbyOK
  BY <1>1 DEF StateOK
<1>2. ASSUME NEW t \in Threads, Loop(t) PROVE LobbyOK'
  <2>1. pc["game"] = "off"
    BY <1>2, LoopDoes DEF OnlyRuns, Telling, Building
  <2>2. \A u \in Threads : header'[u].state \in {"NULL", "CREATED"}
    BY <1>1, <1>2, <2>1, LoopDoes DEF LobbyOK, OnlyRuns, Blank, Begun, Built
  <2>3. \A s \in Sessions : page'[s].state \in {"NULL", "CREATED"}
    BY <1>2, <2>1, LoopDoes DEF LobbyOK
  <2>4. \A u \in Threads : pc'[u] \notin {"ask", "past"}
    BY <1>1, <1>2, <2>1, LoopDoes DEF LobbyOK, OnlyRuns, Built, ShownIn
  <2>5. QED
    BY <2>2, <2>3, <2>4 DEF LobbyOK
<1>3. CASE Fetch
  BY <1>3, FetchDoes DEF LobbyOK
<1>4. CASE Play
  BY <1>4, PlayDoes
<1>5. ASSUME NEW b \in Boards, Board(b) PROVE LobbyOK'
  BY <1>5, BoardDoes DEF LobbyOK
<1>6. ASSUME NEW p \in Phones, Phone(p) PROVE LobbyOK'
  BY <1>6, PhoneDoes DEF LobbyOK
<1>7. ASSUME NEW s \in Sessions, Session(s) PROVE LobbyOK'
  <2>1. pc["game"] = "off"
    BY <1>7, SessionDoes
  <2>2. \A u \in Threads : header'[u].state \in {"NULL", "CREATED"}
    BY <1>1, <1>7, <2>1, SessionDoes DEF LobbyOK, Blank, Begun, Built
  <2>3. \A r \in Sessions : page'[r].state \in {"NULL", "CREATED"}
    BY <1>7, <2>1, SessionDoes DEF LobbyOK
  <2>4. \A u \in Threads : pc'[u] \notin {"ask", "past"}
    BY <1>1, <1>7, <2>1, SessionDoes DEF LobbyOK, Built, ShownIn
  <2>5. QED
    BY <2>2, <2>3, <2>4 DEF LobbyOK
<1>8. CASE UNCHANGED vars
  BY <1>8 DEF LobbyOK, vars
<1>9. QED
  BY <1>2, <1>3, <1>4, <1>5, <1>6, <1>7, <1>8, Steps

\* Ranks are numbers, and depend on the state and the number of the question.
LEMMA RankTyped ==
  ASSUME NEW h, h.state \in States, h.question \in Nat
  PROVE  Rank(h) \in Nat
  BY DEF Rank, States

LEMMA RankSame ==
  ASSUME NEW h, NEW g, h.state \in States,
         h.state = g.state, h.question = g.question
  PROVE  Rank(h) = Rank(g)
  BY DEF Rank, States

\* The rank of the status of the game as it is.
LEMMA RankOfHeader ==
  ASSUME TypeOK
  PROVE  /\ Header.state = state /\ Header.question = currQuestion
         /\ currQuestion \in Nat /\ state \in States
         /\ Rank(Header) = CASE state = "NULL" -> 0
                             [] state = "CREATED" -> 1
                             [] state = "PLAYING" -> 2 + 3 * currQuestion
                             [] state = "PAUSED" -> 3 + 3 * currQuestion
                             [] state = "PREPARE" -> 4 + 3 * currQuestion
                             [] state = "FINISHED" -> 5 + 3 * currQuestion
<1>1. Header.state = state /\ Header.question = currQuestion
  BY DEF Header
<1>2. currQuestion \in Nat /\ state \in States
  BY SettingOK DEF TypeOK
<1>3. QED
  BY <1>1, <1>2 DEF Rank, States

\* Everybody has joined, and sees the lobby, when the first presses start.
LEMMA StartInTime ==
  ASSUME BlankInv, LobbyOK, InTime, NEW p \in Phones, Phone(p),
         pc["game"] = "off", pc'["game"] # "off", UNCHANGED setting
  PROVE  InTimeOK'
<1> USE WhoRuns, WhoIsMember DEF BlankInv, OnlyMoves
<1>1. /\ UNCHANGED <<gameVars, sessionVars, header, page, rest>>
      /\ state = "CREATED" /\ \A u \in Threads : pc'[u] = IF u = "game" THEN "change" ELSE pc[u]
      /\ \A s \in Sessions : pc[s] \in Resting
      /\ pc["fetch"] = "done"
  BY PhoneDoes DEF sessionVars, InTime
<1>2. currQuestion = 0 /\ rest["fetch"] = << >>
  BY <1>1 DEF StateOK, StepsOK, Telling, Building
<1>3. ASSUME NEW m \in Members PROVE page[m].state = "CREATED"
  <2>1. m \in Sessions /\ ~ToBeTold("fetch", m) /\ pc[m] # "answer" /\ ~Replying(m)
    BY <1>1, <1>2, ElemsEmpty DEF ToBeTold, Replying, Resting, Building
  <2>2. QED
    BY <1>1, <2>1 DEF BlankOK, LobbyOK
<1>4. \A m : m \in Members' <=> m \in Members
  BY <1>1 DEF Members, sessionVars
<1>5. LastTold' = 1
  BY <1>1, <1>2 DEF LastTold, Rank, Header, gameVars
<1>6. ASSUME NEW m \in Members PROVE Rank(page[m])' = 1 /\ Current(m)'
  BY <1>1, <1>3 DEF Rank, Current, gameVars
<1>7. QED
  BY <1>1, <1>3, <1>4, <1>5, <1>6 DEF InTimeOK, Apart, GameStatusOK, Building

\* What the game thread puts together is the status of the game as it is.
LEMMA GameStatusNext ==
  ASSUME BlankInv, GameStatusOK, Loop("game")
  PROVE  /\ GameStatusOK'
         /\ pc["game"] = "post" =>
              /\ header["game"].state = state
              /\ header["game"].question = currQuestion
              /\ state = "PLAYING" => header["game"].text = currQuestion
<1> USE WhoRuns DEF BlankInv
<1>1. UNCHANGED <<state, currQuestion>>
  BY LoopDoes DEF OnlyRuns, gameVars
<1>2. CASE Begun("game", IF isPlayer[Head(rest["game"])] THEN "player" ELSE "game")
              /\ pc'["game"] = "count"
  BY <1>1, <1>2 DEF GameStatusOK, Begun, Building
<1>3. CASE Built("game")
  <2>1. pc["game"] \in Building
    BY <1>3 DEF Built, Building
  <2>2. header'["game"].state = state /\ header["game"].state = state
    BY <1>3, <2>1 DEF Built, GameStatusOK
  <2>3. pc'["game"] \in {"test", "ask", "post"} => header'["game"].question = currQuestion
    BY <1>3 DEF Built, GameStatusOK
  <2>4. pc'["game"] = "post" /\ state = "PLAYING" => header'["game"].text = currQuestion
    BY <1>3 DEF Built, ShownIn
  <2>5. QED
    BY <1>1, <2>2, <2>3, <2>4 DEF GameStatusOK, Building
<1>4. CASE pc'["game"] = "visit"
  BY <1>1, <1>4 DEF GameStatusOK, Building
<1>5. GameStatusOK'
  BY <1>2, <1>3, <1>4, LoopDoes
<1>6. QED
  BY <1>5 DEF GameStatusOK, Building

\* What the game thread pushes is the state of the game.
LEMMA PushInTime ==
  ASSUME BlankInv, InTimeOK, InTime, Loop("game"), UNCHANGED setting
  PROVE  /\ InTimeOK'
         /\ \A m \in Members : Rank(page'[m]) >= Rank(page[m])
<1> USE WhoRuns, WhoIsMember DEF BlankInv
<1>1. /\ UNCHANGED <<gameVars, sessionVars>>
      /\ pc["game"] \in {"visit"} \cup Building /\ pc'["game"] \in {"visit"} \cup Building
      /\ \A u \in Threads : u # "game" => UNCHANGED <<pc[u], rest[u]>>
      /\ \A s \in Sessions : s # Head(rest["game"]) => page'[s] = page[s]
  BY LoopDoes DEF OnlyRuns, Telling
<1>2. \A m : m \in Members' <=> m \in Members
  BY <1>1 DEF Members, sessionVars
<1>3. Header' = Header /\ LastTold' = Rank(Header) /\ LastTold = Rank(Header)
  BY <1>1 DEF Header, LastTold, Rank, gameVars, Building
<1>4. /\ GameStatusOK'
      /\ pc["game"] = "post" =>
           /\ header["game"].state = state
           /\ header["game"].question = currQuestion
           /\ state = "PLAYING" => header["game"].text = currQuestion
  BY <1>1, GameStatusNext DEF InTimeOK, Building
<1>5. /\ state # "NULL"
      /\ pc["game"] = "post" => header["game"].state # "NULL"
  BY <1>1, <1>4, LoopHasState, LoopDoes
<1>6. ASSUME NEW m \in Members
      PROVE  /\ ToBeTold("game", m)' \/ Current(m)'
             /\ page'[m].state = "PLAYING" => page'[m].text = page'[m].question
             /\ Rank(page'[m]) <= LastTold'
             /\ Rank(page'[m]) >= Rank(page[m])
  <2>1. m \in Sessions /\ page[m] \in Status
    BY DEF TypeOK
  <2>2. Rank(page[m]) \in Nat /\ Rank(Header) \in Nat
    BY <2>1, RankTyped, RankOfHeader DEF Status
  <2>3. /\ ToBeTold("game", m) \/ Current(m)
        /\ page[m].state = "PLAYING" => page[m].text = page[m].question
        /\ Rank(page[m]) <= LastTold
    BY <1>1 DEF InTimeOK, Building
  <2>4. CASE page'[m] = page[m] /\ (ToBeTold("game", m) => ToBeTold("game", m)')
    <3>1. Current(m)' <=> Current(m)
      BY <1>1, <2>4 DEF Current, gameVars
    <3>2. QED
      BY <1>3, <2>2, <2>3, <2>4, <3>1
  <2>5. CASE pc["game"] = "post" /\ page'[m] = header["game"]
    <3>1. page'[m].state = state /\ page'[m].question = currQuestion
          /\ (state = "PLAYING" => page'[m].text = currQuestion)
      BY <1>4, <2>5
    <3>2. Rank(page'[m]) = Rank(Header)
      BY <3>1, RankOfHeader, RankSame
    <3>3. Current(m)'
      BY <1>1, <3>1 DEF Current, gameVars
    <3>4. QED
      BY <1>3, <2>2, <2>3, <3>1, <3>2, <3>3
  <2>6. page'[m] = page[m] \/ (pc["game"] = "post" /\ page'[m] = header["game"])
    BY <2>1, LoopDoes
  <2>7. CASE ToBeTold("game", m)
    BY <1>5, <2>4, <2>5, <2>6, <2>7, LoopTells
  <2>8. CASE ~ToBeTold("game", m)
    BY <2>4, <2>5, <2>6, <2>8
  <2>9. QED
    BY <2>7, <2>8
<1>7. \A s \in Sessions : Apart(s)'
  BY <1>1, <1>2 DEF InTimeOK, Apart, Replying, Building
<1>8. pc'["fetch"] = "done"
  BY <1>1 DEF InTimeOK, Building
<1>9. QED
  BY <1>2, <1>4, <1>6, <1>7, <1>8 DEF InTimeOK

\* The game thread goes on only when it has told everybody.
LEMMA PlayInTime ==
  ASSUME BlankInv, InTimeOK, InTime, Play, UNCHANGED setting
  PROVE  InTimeOK'
<1> USE WhoRuns, WhoIsMember DEF BlankInv, OnlyMoves
<1>1. /\ UNCHANGED <<sessionVars, header, page>>
      /\ pc["game"] \in {"change", "visit"} /\ pc'["game"] \notin Building
      /\ \A u \in Threads : u # "game" => UNCHANGED <<pc[u], rest[u]>>
      /\ \A s \in Sessions : Apart(s) => Apart(s)'
  <2>1. /\ UNCHANGED <<sessionVars, header, page>>
        /\ pc["game"] \in {"change", "visit"} /\ pc'["game"] \notin Building
        /\ \A u \in Threads : u # "game" => UNCHANGED <<pc[u], rest[u]>>
    BY PlayDoes DEF Begins, Building
  <2>2. \A s \in Sessions : Apart(s) => Apart(s)'
    BY <2>1 DEF Apart, Replying, Members, sessionVars
  <2>3. QED
    BY <2>1, <2>2
<1>2. \A m : m \in Members' <=> m \in Members
  BY <1>1 DEF Members, sessionVars
<1>3. /\ currQuestion \in Nat /\ state \in States
      /\ Header.state = state /\ Header.question = currQuestion
  BY RankOfHeader
<1>4. ASSUME NEW m \in Members
      PROVE  page[m] \in Status /\ Rank(page[m]) \in Nat /\ Rank(page[m])' = Rank(page[m])
  <2>1. page[m] \in Status
    BY DEF TypeOK
  <2>2. Rank(page[m]) \in Nat
    BY <2>1, RankTyped DEF Status
  <2>3. Rank(page[m])' = Rank(page[m])
    BY <1>1 DEF Rank
  <2>4. QED
    BY <2>1, <2>2, <2>3
<1>5. CASE pc["game"] = "change"
  <2>1. /\ state' = NextState /\ UNCHANGED currQuestion /\ Begins("game")
        /\ pc'["game"] = "visit"
    BY <1>5, PlayDoes
  <2>2. state \in {"CREATED", "PREPARE", "PLAYING", "PAUSED"}
    BY <1>3, <1>5 DEF StateOK, States
  <2>3. LastTold' >= LastTold /\ LastTold \in Nat /\ LastTold' \in Nat
    <3>1. LastTold' = Rank(Header)'
      BY <2>1 DEF LastTold
    <3>2. Header'.state = state' /\ Header'.question = currQuestion
      BY <2>1 DEF Header
    <3>3. LastTold = IF state = "PREPARE" THEN 1 + 3 * currQuestion
                     ELSE Rank(Header)
      BY <1>5 DEF LastTold
    <3>4. CASE state = "CREATED"
      BY <1>3, <2>1, <3>1, <3>2, <3>3, <3>4 DEF NextState, Rank
    <3>5. CASE state = "PREPARE"
      BY <1>3, <2>1, <3>1, <3>2, <3>3, <3>5 DEF NextState, Rank
    <3>6. CASE state = "PLAYING"
      BY <1>3, <2>1, <3>1, <3>2, <3>3, <3>6 DEF NextState, Rank
    <3>7. CASE state = "PAUSED"
      BY <1>3, <2>1, <3>1, <3>2, <3>3, <3>7 DEF NextState, Rank
    <3>8. QED
      BY <2>2, <3>4, <3>5, <3>6, <3>7
  <2>4. \A m \in Members : ToBeTold("game", m)'
    BY <2>1 DEF Begins, StepsOK, MembersOK, Replying, Building, ToBeTold
  <2>5. \A m \in Members : Rank(page[m])' <= LastTold'
    BY <1>4, <1>5, <2>3 DEF InTimeOK
  <2>6. \A m \in Members : page'[m].state = "PLAYING" => page'[m].text = page'[m].question
    BY <1>1, <1>5 DEF InTimeOK
  <2>7. QED
    BY <1>1, <1>2, <1>5, <2>1, <2>4, <2>5, <2>6 DEF InTimeOK, GameStatusOK, Building
<1>6. CASE pc["game"] = "visit"
  <2>1. /\ rest["game"] = << >> /\ UNCHANGED <<state, rest>>
        /\ pc'["game"] = (IF state = "FINISHED" THEN "done" ELSE "change")
        /\ currQuestion' =
             IF state = "PREPARE" THEN currQuestion + 1 ELSE currQuestion
    BY <1>6, PlayDoes
  <2>2. ASSUME NEW m \in Members PROVE Current(m)'
    BY <1>1, <1>6, <2>1, ElemsEmpty DEF InTimeOK, Current, ToBeTold
  <2>3. LastTold' = LastTold
    <3>1. LastTold = Rank(Header)
      BY <1>6 DEF LastTold
    <3>2. Header'.state = state /\ Header'.question = currQuestion'
      BY <2>1 DEF Header
    <3>3. CASE state = "PREPARE"
      <4>1. LastTold' = 1 + 3 * (currQuestion + 1)
        BY <2>1, <3>3 DEF LastTold
      <4>2. Rank(Header) = 4 + 3 * currQuestion
        BY <1>3, <3>3 DEF Rank
      <4>3. QED
        BY <1>3, <3>1, <4>1, <4>2
    <3>4. CASE state # "PREPARE"
      <4>1. LastTold' = Rank(Header)'
        BY <2>1, <3>4 DEF LastTold
      <4>2. Rank(Header)' = Rank(Header)
        BY <2>1, <3>4 DEF Rank, Header
      <4>3. QED
        BY <3>1, <4>1, <4>2
    <3>5. QED
      BY <3>3, <3>4
  <2>4. \A m \in Members : Rank(page[m])' <= LastTold'
    BY <1>4, <1>6, <2>3 DEF InTimeOK
  <2>5. \A m \in Members : page'[m].state = "PLAYING" => page'[m].text = page'[m].question
    BY <1>1, <1>6 DEF InTimeOK
  <2>6. QED
    BY <1>1, <1>2, <1>6, <2>1, <2>2, <2>4, <2>5 DEF InTimeOK, GameStatusOK, Building
<1>7. QED
  BY <1>1, <1>5, <1>6

\* Nothing is told to anybody in the game by anybody else.
LEMMA InTimeNext ==
  ASSUME BlankInv, LobbyOK, InTimeOK, [Next]_vars
  PROVE  InTimeOK'
<1> USE WhoRuns DEF BlankInv, OnlyMoves
<1>1. UNCHANGED setting
  BY Steps
<1> SUFFICES ASSUME InTime, pc'["game"] # "off" PROVE InTimeOK'
  BY <1>1 DEF InTimeOK, InTime
<1>2. ASSUME NEW t \in Threads, Loop(t) PROVE InTimeOK'
  <2>1. pc["game"] # "off"
    BY <1>2, LoopDoes DEF OnlyRuns, Telling, Building
  <2>2. t = "game"
    BY <1>2, <2>1, LoopDoes DEF InTimeOK, Apart, Telling, Replying, Building, Resting
  <2>3. QED
    BY <1>1, <1>2, <2>2, PushInTime
<1>3. CASE Fetch
  BY <1>3, FetchDoes DEF InTimeOK
<1>4. CASE Play
  BY <1>1, <1>4, PlayInTime
<1>5. ASSUME NEW b \in Boards, Board(b) PROVE InTimeOK'
  BY <1>5, BoardDoes DEF InTimeOK, Apart, Replying, Building, Resting
<1>6. ASSUME UNCHANGED <<gameVars, rest>>,
             UNCHANGED <<pc["game"], pc["fetch"], header["game"]>>,
             \A s \in Sessions : Apart(s)',
             \A m : m \in Members' <=> m \in Members,
             \A m \in Members : page'[m] = page[m]
      PROVE  InTimeOK'
  <2>1. Header' = Header /\ LastTold' = LastTold /\ (GameStatusOK' <=> GameStatusOK)
    BY <1>6 DEF Header, LastTold, Rank, GameStatusOK, gameVars
  <2>2. \A m \in Members :
          /\ Rank(page[m])' = Rank(page[m])
          /\ Current(m)' <=> Current(m)
          /\ ToBeTold("game", m)' <=> ToBeTold("game", m)
    BY <1>6 DEF Rank, Current, ToBeTold, gameVars
  <2>3. QED
    BY <1>1, <1>6, <2>1, <2>2 DEF InTimeOK
<1>7. ASSUME NEW p \in Phones, Phone(p) PROVE InTimeOK'
  <2>1. CASE pc["game"] = "off"
    BY <1>1, <1>7, <2>1, StartInTime
  <2>2. CASE pc["game"] # "off"
    <3>1. Apart(p) /\ pc["fetch"] = "done"
      BY <2>2 DEF InTimeOK
    <3>2. pc[p] = "open" /\ OnlyMoves(p, "answer")
          /\ OnlyEnters(p, "other") /\ UNCHANGED <<isPlayer, rest, page, header>>
          /\ UNCHANGED gameVars
      BY <1>7, <2>2, <3>1, PhoneDoes DEF Apart, InTime, Replying, Building, Resting
    <3>3. p \notin Members /\ \A m : m \in Members' <=> m \in Members
      BY <3>2 DEF Members, OnlyEnters, MembersOK, Replying, Building
    <3>4. \A s \in Sessions : Apart(s)'
      BY <2>2, <3>2, <3>3 DEF InTimeOK, Apart, Replying
    <3>5. QED
      BY <1>6, <3>2, <3>3, <3>4
  <2>3. QED
    BY <2>1, <2>2
<1>8. ASSUME NEW s \in Sessions, Session(s) PROVE InTimeOK'
  <2>1. pc["game"] # "off" /\ UNCHANGED <<pc["game"], pc["fetch"], header["game"]>>
    BY <1>8, SessionDoes
  <2>2. UNCHANGED <<gameVars, rest>> /\ \A m : m \in Members' <=> m \in Members
    BY <1>8, SessionDoes DEF Members
  <2>3. \A r \in Sessions : r # s => Apart(r)'
    BY <1>8, <2>1, <2>2, SessionDoes DEF InTimeOK, Apart, Replying
  <2>4. Apart(s)'
    <3>1. Apart(s)
      BY <2>1 DEF InTimeOK
    <3>2. pc'[s] \in Resting \/ (Replying(s)' /\ s \notin Members)
      BY <1>8, <2>2, <3>1, SessionDoes
      DEF Apart, Replying, Building, Resting, StepsOK, Telling
    <3>3. QED
      BY <2>2, <3>2 DEF Apart
  <2>5. \A m \in Members : page'[m] = page[m]
    <3>1. CASE s \in Members
      <4>1. pc[s] \in Resting
        BY <2>1, <3>1 DEF InTimeOK, Apart
      <4>2. QED
        BY <1>8, <4>1, WhoIsMember, SessionDoes DEF Replying, Building, Resting
    <3>2. CASE s \notin Members
      BY <1>8, <3>2, WhoIsMember, SessionDoes
    <3>3. QED
      BY <3>1, <3>2
  <2>6. QED
    BY <1>6, <2>1, <2>2, <2>3, <2>4, <2>5
<1>9. CASE UNCHANGED vars
  BY <1>6, <1>9
  DEF InTimeOK, Apart, Replying, vars, gameVars, sessionVars, Members
<1>10. QED
  BY <1>2, <1>3, <1>4, <1>5, <1>7, <1>8, <1>9, Steps

\* The invariant that the pages follow the game by rests on.
LEMMA InTimeInit == Init => InTimeInv
  BY BlankInit, WhoRuns DEF InTimeInv, LobbyOK, InTimeOK, Init, Blank

\* It is inductive.
LEMMA InTimeInductive == InTimeInv /\ [Next]_vars => InTimeInv'
  BY BlankInductive, LobbyNext, InTimeNext DEF InTimeInv

\* A thread that tells a member something tells it something newer.
LEMMA RanksGrow ==
  ASSUME InTimeInv, [Next]_vars, InTime, NEW m \in Members
  PROVE  Rank(page'[m]) >= Rank(page[m])
<1> USE WhoRuns DEF InTimeInv, BlankInv
<1>1. UNCHANGED setting
  BY Steps
<1>2. m \in Sessions /\ page[m] \in Status /\ Rank(page[m]) \in Nat
  <2>1. m \in Sessions
    BY WhoIsMember
  <2>2. page[m] \in Status
    BY <2>1 DEF TypeOK
  <2>3. QED
    BY <2>1, <2>2, RankTyped DEF Status
<1>3. CASE page'[m] = page[m]
  BY <1>2, <1>3
<1>4. ASSUME pc["game"] = "off", page'[m].state \in {"NULL", "CREATED"},
             page'[m].state = "NULL" => page[m].state = "NULL"
      PROVE  Rank(page'[m]) >= Rank(page[m])
  BY <1>2, <1>4 DEF LobbyOK, Rank
<1>5. ASSUME NEW t \in Threads, Loop(t) PROVE Rank(page'[m]) >= Rank(page[m])
  <2>1. CASE pc["game"] = "off"
    <3>1. page'[m] = page[m] \/ (pc[t] = "post" /\ Telling(t) /\ page'[m] = header[t])
      BY <1>2, <1>5, LoopDoes
    <3>2. QED
      BY <1>3, <1>4, <2>1, <3>1 DEF LobbyOK, BlankOK, Building
  <2>2. CASE pc["game"] # "off"
    <3>1. t = "game"
      BY <1>5, <2>2, LoopDoes DEF InTimeOK, Apart, Telling, Replying, Building, Resting
    <3>2. QED
      BY <1>1, <1>5, <3>1, PushInTime
  <2>3. QED
    BY <2>1, <2>2
<1>6. ASSUME NEW s \in Sessions, Session(s) PROVE Rank(page'[m]) >= Rank(page[m])
  <2>1. CASE pc["game"] = "off"
    <3>1. \/ page'[m] = page[m]
          \/ /\ m = s /\ Replying(s) /\ page'[m] = header[s]
             /\ Shows(s, header[s])
      BY <1>2, <1>6, SessionDoes
    <3>2. CASE m = s /\ Replying(s) /\ page'[m] = header[s] /\ Shows(s, header[s])
      <4>1. header[s].state # "NULL"
        BY <3>2, WhoIsMember DEF BlankOK, Shows
      <4>2. QED
        BY <1>4, <2>1, <3>2, <4>1 DEF LobbyOK
    <3>3. QED
      BY <1>3, <3>1, <3>2
  <2>2. CASE pc["game"] # "off"
    BY <1>2, <1>3, <1>6, <2>2, SessionDoes DEF InTimeOK, Apart, Replying, Building, Resting
  <2>3. QED
    BY <2>1, <2>2
<1>7. CASE Fetch
  BY <1>3, <1>7, FetchDoes
<1>8. CASE Play
  BY <1>3, <1>8, PlayDoes
<1>9. ASSUME NEW b \in Boards, Board(b) PROVE Rank(page'[m]) >= Rank(page[m])
  BY <1>3, <1>9, BoardDoes
<1>10. ASSUME NEW p \in Phones, Phone(p) PROVE Rank(page'[m]) >= Rank(page[m])
  BY <1>3, <1>10, PhoneDoes
<1>11. CASE UNCHANGED vars
  BY <1>3, <1>11 DEF vars
<1>12. QED
  BY <1>5, <1>6, <1>7, <1>8, <1>9, <1>10, <1>11, Steps

\* The pages keep up (PagesCurrent): if everybody has joined when the first
\* presses start, everybody in the game is shown its state whenever nothing is
\* being pushed, and its question while it is asked.
THEOREM PagesKeepUp == Spec => []PagesCurrent
<1>1. InTimeInv => PagesCurrent
  <2> SUFFICES ASSUME InTimeInv, InTime, Quiet, NEW m \in Members
               PROVE  Current(m)
    BY DEF PagesCurrent, Current
  <2> USE WhoRuns DEF InTimeInv, BlankInv
  <2>1. m \in Sessions /\ pc[m] \in Resting
    BY WhoIsMember DEF Quiet
  <2>2. CASE pc["game"] = "off"
    <3>1. page[m].state # "NULL" \/ state = "NULL"
      BY <2>1, ElemsEmpty
      DEF Quiet, StepsOK, BlankOK, Telling, ToBeTold, Replying, Building, Resting
    <3>2. page[m].state = state /\ state \in {"NULL", "CREATED"}
      BY <2>1, <2>2, <3>1 DEF LobbyOK, StateOK, BlankOK
    <3>3. QED
      BY <3>2 DEF Current
  <2>3. CASE pc["game"] # "off"
    <3>1. rest["game"] = << >>
      BY <2>3 DEF Quiet, StepsOK, Telling, Building
    <3>2. QED
      BY <2>3, <3>1, ElemsEmpty DEF InTimeOK, ToBeTold
  <2>4. QED
    BY <2>2, <2>3
<1>2. QED
  BY <1>1, InTimeInit, InTimeInductive, PTL DEF Spec

\* A page that is told that a question is asked is told which (QuestionsMatch):
\* whoever joins whenever, the question sent is the one counted or a later one
\* and exists, and the game thread never asks for one past the end; if everybody
\* has joined in time, number and question agree on the members' pages, and no
\* status for a member asks for one past the end either.
THEOREM TheQuestionIsTheRounds == Spec => []QuestionsMatch
<1>1. InTimeInv => QuestionsMatch
  <2> SUFFICES ASSUME InTimeInv PROVE QuestionsMatch
    OBVIOUS
  <2> USE WhoRuns DEF InTimeInv, BlankInv
  <2>1. /\ \A s \in Sessions : page[s].text # NoQuestion =>
             page[s].question <= page[s].text /\ page[s].text < setting.questions
        /\ pc["game"] # "past"
    BY DEF ReadsOK, TextOK
  <2>2. ASSUME InTime, NEW m \in Members, page[m].state = "PLAYING"
        PROVE  page[m].text = page[m].question
    <3>1. pc["game"] # "off"
      BY <2>2, WhoIsMember DEF LobbyOK
    <3>2. QED
      BY <2>2, <3>1 DEF InTimeOK
  <2>3. ASSUME InTime, NEW t \in Members \cup {"fetch"}, pc[t] = "past"
        PROVE  FALSE
    <3>1. t \in Threads
      BY WhoIsMember
    <3>2. CASE pc["game"] # "off"
      BY <2>3, <3>2, WhoIsMember DEF InTimeOK, Apart, Resting
    <3>3. CASE pc["game"] = "off"
      BY <2>3, <3>1, <3>3 DEF LobbyOK
    <3>4. QED
      BY <3>2, <3>3
  <2>4. QED
    BY <2>1, <2>2, <2>3 DEF QuestionsMatch
<1>2. QED
  BY <1>1, InTimeInit, InTimeInductive, PTL DEF Spec

\* No page goes back to an earlier state of the game (PagesGoForward), unless
\* somebody joins late.
THEOREM NoPageGoesBack == Spec => PagesGoForward
<1>1. InTimeInv /\ [Next]_vars =>
        [InTime => \A s \in Members : Rank(page'[s]) >= Rank(page[s])]_vars
  BY RanksGrow
<1>2. QED
  BY <1>1, InTimeInit, InTimeInductive, PTL DEF Spec, PagesGoForward

===============================================================================
