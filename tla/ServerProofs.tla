------------------------------ MODULE ServerProofs ------------------------------
(***************************************************************************)
(* Proofs about Server and one connection, from HTTP to the WebSocket, for *)
(* any number of threads, browsers, requests and texts.  No thread leaves  *)
(* ioc_.run() before the program is told to stop: the wait for a signal is *)
(* outstanding from before the first thread is started until the signal    *)
(* comes.  A connection has one operation at a time, and what its handlers *)
(* call, change and answer goes together.                                  *)
(***************************************************************************)
EXTENDS Server, FiniteSetTheorems, SequenceTheorems, TLAPS

Started == main \in {"spawn", "accept", "join", "returned"}

Threads == io \in [IoThreads -> {"new", "run", "guest", "other", "left"}]

Serving ==
  ~signal =>
    /\ ~stopped
    /\ Started => waiting
    /\ ~Started => \A t \in IoThreads : io[t] = "new"
    /\ \A t \in IoThreads : io[t] # "left"

IInv == Threads /\ Serving

\* A thread that runs goes over to another handler or back to waiting for one.
LEMMA Runs ==
  ASSUME IInv, NEW t \in IoThreads,
         NEW old \in {"run", "guest", "other"}, NEW new \in {"run", "guest", "other"},
         io[t] = old, io' = [io EXCEPT ![t] = new], mainVars' = mainVars
  PROVE  IInv'
<1>1. /\ main' = main /\ waiting' = waiting /\ signal' = signal /\ stopped' = stopped
  BY DEF mainVars
<1>2. io[t] # "new"
  OBVIOUS
<1>3. Threads'
  BY DEF IInv, Threads
<1>4. Serving'
  <2> SUFFICES ASSUME ~signal
               PROVE  ~stopped /\ Started /\ waiting /\ \A s \in IoThreads : io'[s] # "left"
    BY <1>1 DEF Serving, Started
  <2>1. Started /\ waiting /\ ~stopped
    BY <1>2 DEF IInv, Serving
  <2>2. \A s \in IoThreads : io'[s] # "left"
    BY DEF IInv, Serving, Threads
  <2> QED
    BY <2>1, <2>2
<1> QED
  BY <1>3, <1>4 DEF IInv

LEMMA Same ==
  ASSUME IInv, io' = io, main' = main, waiting' = waiting, signal' = signal,
         stopped' = stopped
  PROVE  IInv'
BY DEF IInv, Threads, Serving, Started

LEMMA MainStep ==
  ASSUME IInv, Main
  PROVE  IInv'
<1>1. CASE CheckArguments \/ FindAddress \/ InitAcceptor
  BY <1>1 DEF CheckArguments, FindAddress, InitAcceptor, Proceed,
              IInv, Threads, Serving, Started
<1>2. CASE WaitForSignals
  BY <1>2 DEF WaitForSignals, Proceed, IInv, Threads, Serving, Started
<1>3. ASSUME NEW t \in IoThreads, SpawnThread(t) PROVE IInv'
  <2>1. /\ main' \in {"spawn", "accept"} /\ main = "spawn"
        /\ io' = [io EXCEPT ![t] = "run"]
        /\ waiting' = waiting /\ signal' = signal /\ stopped' = stopped
    BY <1>3 DEF SpawnThread
  <2>2. Threads'
    BY <2>1 DEF IInv, Threads
  <2>3. Serving'
    BY <2>1 DEF IInv, Threads, Serving, Started
  <2> QED
    BY <2>2, <2>3 DEF IInv
<1>4. CASE StartAccepting \/ Join
  BY <1>4 DEF StartAccepting, Join, Proceed, IInv, Threads, Serving, Started
<1> QED
  BY <1>1, <1>2, <1>3, <1>4 DEF Main

LEMMA HandlerStep ==
  ASSUME IInv, Handlers
  PROVE  IInv'
<1>1. CASE OnSignal
  BY <1>1 DEF OnSignal, IInv, Threads, Serving
<1>2. ASSUME NEW b \in Browsers, OnAccept(b) \/ AcceptFails(b) PROVE IInv'
  BY <1>2, Same DEF OnAccept, AcceptFails
<1>3. ASSUME NEW t \in IoThreads, NEW whose \in {"guest", "other"},
             TakeUp(t, whose), mainVars' = mainVars
      PROVE  IInv'
  BY <1>3, Runs DEF TakeUp
<1>4. ASSUME NEW t \in IoThreads, NEW whose \in {"guest", "other"},
             PutDown(t, whose), mainVars' = mainVars
      PROVE  IInv'
  BY <1>4, Runs DEF PutDown
<1>5. ASSUME NEW t \in IoThreads, OtherHandler(t) \/ HttpOnRead(t) \/ SocketOnRead(t)
      PROVE  IInv'
  BY <1>3, <1>5 DEF OtherHandler, HttpOnRead, SocketOnRead
<1>6. ASSUME NEW t \in IoThreads, OtherReturns(t) \/ HttpHandle(t) \/ SocketHandle(t)
      PROVE  IInv'
  BY <1>4, <1>6 DEF OtherReturns, HttpHandle, SocketHandle
<1>7. CASE HttpTimeout \/ HttpGoesOn \/ HttpUpgrade \/ SocketTimeout \/ SocketGoesOn
  BY <1>7, Same DEF HttpTimeout, HttpGoesOn, HttpUpgrade, SocketTimeout, SocketGoesOn, mainVars
<1> QED
  BY <1>1, <1>2, <1>5, <1>6, <1>7 DEF Handlers

\* The wait for a signal is something outstanding, so no thread is out of work.
LEMMA LeaveRunStep ==
  ASSUME IInv, NEW t \in IoThreads, LeaveRun(t)
  PROVE  IInv'
<1>1. signal
  <2> SUFFICES ASSUME ~signal PROVE FALSE
    OBVIOUS
  <2>1. io[t] # "new" /\ (stopped \/ ~waiting)
    BY DEF LeaveRun, Outstanding
  <2> QED
    BY <2>1 DEF IInv, Serving
<1> QED
  BY <1>1 DEF LeaveRun, IInv, Threads, Serving

LEMMA WorldStep ==
  ASSUME IInv, World
  PROVE  IInv'
<1>1. CASE RaiseSignal
  BY <1>1 DEF RaiseSignal, IInv, Threads, Serving
<1>2. CASE (\E b \in Browsers : Connect(b)) \/ GuestGoes
  BY <1>2, Same DEF Connect, GuestGoes, mainVars
<1> QED
  BY <1>1, <1>2 DEF World

LEMMA Initially ==
  Init => IInv
BY DEF Init, IInv, Threads, Serving, Started

LEMMA Step ==
  IInv /\ [Next]_vars => IInv'
<1> SUFFICES ASSUME IInv, [Next]_vars PROVE IInv'
  OBVIOUS
<1>1. CASE Main
  BY <1>1, MainStep
<1>2. CASE Handlers
  BY <1>2, HandlerStep
<1>3. ASSUME NEW t \in IoThreads, LeaveRun(t) PROVE IInv'
  BY <1>3, LeaveRunStep
<1>4. CASE World
  BY <1>4, WorldStep
<1>5. CASE UNCHANGED vars
  BY <1>5, Same DEF vars, mainVars
<1> QED
  BY <1>1, <1>2, <1>3, <1>4, <1>5 DEF Next

\* The server does not run out of threads: before SIGINT or SIGTERM no thread
\* returns from run(), not even in the time between its start and the first accept,
\* whatever the connections do.
THEOREM ThreadsServeUntilSignal ==
  Spec => []ServesUntilSignal
<1>1. IInv => ServesUntilSignal
  BY DEF IInv, Serving, ServesUntilSignal
<1> QED
  BY <1>1, Initially, Step, PTL DEF Spec

-------------------------------------------------------------------------------
(* What the handlers of HttpSession make of a request. *)

\* The calls of the game and the responses go together, for any request.
LEMMA OutcomesMatch ==
  ASSUME NEW r, NEW o \in Http!Outcomes(r), o.reply # "terminate"
  PROVE  o.call # "none" <=> r.method = "post" /\ o.reply = "json"
<1> USE DEF Http!Reply
<1>1. CASE ~Http!Legal(r)
  BY <1>1 DEF Http!Outcomes
<1>2. CASE Http!Legal(r) /\ r.path = "player" /\ r.method = "get"
  BY <1>2 DEF Http!Outcomes, Http!PlayerGet, Http!StatusPoll, Http!File
<1>3. CASE Http!Legal(r) /\ r.path = "player" /\ r.method # "get"
  BY <1>3 DEF Http!Outcomes, Http!PlayerPost, Http!GiveAnswer, Http!Login, Http!Legal
<1>4. CASE Http!Legal(r) /\ r.path # "player" /\ Http!IsScoreboardRequest(r)
  BY <1>4 DEF Http!Outcomes, Http!ScoreboardGet, Http!StatusPoll, Http!ScoreboardPost, Http!ScoreboardQuery,
     Http!File, Http!Legal
<1>5. CASE Http!Legal(r) /\ r.path # "player" /\ ~Http!IsScoreboardRequest(r)
  BY <1>5 DEF Http!Outcomes, Http!File
<1>6. QED
  BY <1>1, <1>2, <1>3, <1>4, <1>5

\* An outcome is one of those that a session can have.
LEMMA OutcomesTyped ==
  ASSUME NEW r
  PROVE  Http!Outcomes(r) \subseteq Http!Outcome
<1> USE DEF Http!Reply, Http!Outcome
<1>1. Http!PlayerGet(r) \subseteq Http!Outcome
  BY DEF Http!PlayerGet, Http!StatusPoll, Http!File
<1>2. Http!PlayerPost(r) \subseteq Http!Outcome
  BY DEF Http!PlayerPost, Http!GiveAnswer, Http!Login
<1>3. Http!ScoreboardGet(r) \subseteq Http!Outcome
  BY DEF Http!ScoreboardGet, Http!StatusPoll, Http!ScoreboardQuery, Http!File
<1>4. Http!ScoreboardPost(r) \subseteq Http!Outcome
  BY DEF Http!ScoreboardPost
<1>5. Http!File(r, FALSE) \subseteq Http!Outcome
  BY DEF Http!File
<1>6. {[reply |-> "badRequest", call |-> "none"]} \subseteq Http!Outcome
  OBVIOUS
<1>7. QED
  BY <1>1, <1>2, <1>3, <1>4, <1>5, <1>6 DEF Http!Outcomes

\* The fields of a request that is made up of one kind of them.
LEMMA FieldsTyped ==
  ASSUME NEW names \in SUBSET Http!FieldNames, NEW f \in [names -> {"number", "text"}]
  PROVE  f \in Http!Fields
  BY DEF Http!Fields

Paths == {"root", "scoreboard", "player", "file", "missing", "illegal"}

\* A request is one, and a query that a scoreboard page is loaded with says
\* something that the server knows, or something else only.
SentOK(r) ==
  /\ r \in Http!Request
  /\ r.method = "get" /\ r.path \in {"root", "scoreboard"} =>
       DOMAIN r.fields \in {{}, {"other"}, {"status"}, {"gameStart"}, {"scores"}}

\* What a browser asks for, and what it posts.
LEMMA GetTyped ==
  ASSUME NEW path \in Paths, NEW query \in BOOLEAN,
         NEW names \in SUBSET Http!FieldNames, NEW f \in [names -> {"number", "text"}],
         path \in {"root", "scoreboard"} =>
           names \in {{}, {"other"}, {"status"}, {"gameStart"}, {"scores"}},
         NEW r \in Http!Get(path, query, f)
  PROVE  SentOK(r)
<1>1. /\ r = [method |-> "get", path |-> path, query |-> query, fields |-> f,
              cookie |-> r.cookie, keepAlive |-> r.keepAlive]
      /\ r.cookie \in {"none", "number", "text"} /\ r.keepAlive \in BOOLEAN
  BY DEF Http!Get, Http!Cookies
<1>2. r.path = path /\ r.fields = f /\ DOMAIN r.fields = names
  BY <1>1
<1>3. QED
  BY <1>1, <1>2, FieldsTyped DEF SentOK, Http!Request, Paths

LEMMA PostTyped ==
  ASSUME NEW path \in Paths,
         NEW names \in SUBSET Http!FieldNames, NEW f \in [names -> {"number", "text"}],
         NEW r \in Http!Post(path, f)
  PROVE  SentOK(r)
<1>1. f \in Http!Fields
  BY FieldsTyped
<1>2. /\ {f} \subseteq Http!Fields /\ {path} \subseteq Paths /\ {FALSE} \subseteq BOOLEAN
      /\ Http!Cookies(f) \subseteq {"none", "number", "text"}
      /\ {"post"} \subseteq {"get", "post", "other"}
  BY <1>1 DEF Http!Cookies
<1>3. r \in Http!Request
  BY <1>2 DEF Http!Post, Http!Request, Paths
<1>4. r.method = "post"
  BY DEF Http!Post
<1>5. QED
  BY <1>3, <1>4 DEF SentOK

\* Everything that browsers send is like that.
LEMMA WhatIsSent ==
  ASSUME NEW r \in Http!Sent
  PROVE  SentOK(r)
<1> USE DEF Http!FieldNames, Paths
<1>1. Http!NoFields \in [{} -> {"number", "text"}]
  BY DEF Http!NoFields
<1>2. ASSUME r \in Http!Loads PROVE SentOK(r)
  <2>1. ASSUME NEW path \in {"root", "scoreboard", "player", "file", "missing"},
               r \in Http!Get(path, FALSE, Http!NoFields)
        PROVE  SentOK(r)
    <3>1. path \in Paths /\ {} \in SUBSET Http!FieldNames
      OBVIOUS
    <3>2. QED
      BY <1>1, <2>1, <3>1, GetTyped
  <2>2. ASSUME r \in Http!Get("player", TRUE, [n \in {"roomNumber"} |-> "number"])
        PROVE  SentOK(r)
    <3>1. [n \in {"roomNumber"} |-> "number"] \in [{"roomNumber"} -> {"number", "text"}]
      OBVIOUS
    <3>2. QED
      BY <2>2, <3>1, GetTyped
  <2>3. ASSUME NEW path \in {"root", "scoreboard", "player", "file"},
               r \in Http!Get(path, TRUE, [n \in {"other"} |-> "text"])
        PROVE  SentOK(r)
    <3>1. [n \in {"other"} |-> "text"] \in [{"other"} -> {"number", "text"}]
      OBVIOUS
    <3>2. QED
      BY <2>3, <3>1, GetTyped
  <2>4. \/ \E path \in {"root", "scoreboard", "player", "file", "missing"} :
              r \in Http!Get(path, FALSE, Http!NoFields)
        \/ r \in Http!Get("player", TRUE, [n \in {"roomNumber"} |-> "number"])
        \/ \E path \in {"root", "scoreboard", "player", "file"} :
              r \in Http!Get(path, TRUE, [n \in {"other"} |-> "text"])
    BY <1>2 DEF Http!Loads
  <2>5. QED
    BY <2>1, <2>2, <2>3, <2>4
<1>3. ASSUME r \in Http!LoginForm PROVE SentOK(r)
  <2> DEFINE f(kind) == [n \in {"roomNumber", "username"} |->
                           IF n = "roomNumber" THEN kind ELSE "text"]
  <2>1. PICK kind \in {"number", "text"} : r \in Http!Post("player", f(kind))
    BY <1>3 DEF Http!LoginForm
  <2>2. f(kind) \in [{"roomNumber", "username"} -> {"number", "text"}]
    OBVIOUS
  <2>3. QED
    BY <2>1, <2>2, PostTyped
<1>4. ASSUME r \in Http!AnswerForm PROVE SentOK(r)
  <2>1. [n \in {"answer", "playerID"} |-> "number"]
          \in [{"answer", "playerID"} -> {"number", "text"}]
    OBVIOUS
  <2>2. QED
    BY <1>4, <2>1, PostTyped DEF Http!AnswerForm
<1>5. ASSUME r \in Http!StartForm PROVE SentOK(r)
  <2>1. [n \in {"playerID"} |-> "number"] \in [{"playerID"} -> {"number", "text"}]
    OBVIOUS
  <2>2. QED
    BY <1>5, <2>1, PostTyped DEF Http!StartForm
<1>6. ASSUME r \in Http!PlayerPoll PROVE SentOK(r)
  <2>1. [n \in {"status"} |-> "number"] \in [{"status"} -> {"number", "text"}]
    OBVIOUS
  <2>2. QED
    BY <1>6, <2>1, GetTyped DEF Http!PlayerPoll
<1>7. ASSUME r \in Http!CreateForm PROVE SentOK(r)
  BY <1>1, <1>7, PostTyped DEF Http!CreateForm
<1>8. ASSUME r \in Http!ScoreboardPolls PROVE SentOK(r)
  <2>1. PICK name \in {"status", "gameStart", "scores"} :
          r \in Http!Get("scoreboard", TRUE, [n \in {name} |-> "number"])
    BY <1>8 DEF Http!ScoreboardPolls
  <2>2. [n \in {name} |-> "number"] \in [{name} -> {"number", "text"}]
    OBVIOUS
  <2>3. QED
    BY <2>1, <2>2, GetTyped
<1>9. ASSUME r \in Http!Odd PROVE SentOK(r)
  <2>1. CASE r \in Http!Get("illegal", FALSE, Http!NoFields)
    BY <1>1, <2>1, GetTyped
  <2>2. CASE r \notin Http!Get("illegal", FALSE, Http!NoFields)
    <3>1. r \in [method : {"other"}, path : {"file"}, query : {FALSE},
                 fields : {Http!NoFields}, cookie : {"none"}, keepAlive : BOOLEAN]
      BY <1>9, <2>2 DEF Http!Odd
    <3>2. Http!NoFields \in Http!Fields
      BY <1>1, FieldsTyped
    <3>3. QED
      BY <3>1, <3>2 DEF SentOK, Http!Request
  <2>3. QED
    BY <2>1, <2>2
<1>10. QED
  BY <1>2, <1>3, <1>4, <1>5, <1>6, <1>7, <1>8, <1>9 DEF Http!Sent

\* Only a scoreboard page whose query says nothing known is left without a
\* response.
LEMMA OnlyUnknownQueries ==
  ASSUME NEW r \in Http!Sent, NEW o \in Http!Outcomes(r), o.reply = "nothing"
  PROVE  Http!UnknownQuery(r)
<1> USE DEF Http!Reply
<1>1. /\ r.method = "get" /\ Http!IsScoreboardRequest(r)
      /\ o \in Http!ScoreboardQuery(r)
      /\ DOMAIN r.fields # {} /\ "status" \notin DOMAIN r.fields
  <2>1. CASE ~Http!Legal(r)
    BY <2>1 DEF Http!Outcomes
  <2>2. CASE Http!Legal(r) /\ r.path = "player"
    BY <2>2 DEF Http!Outcomes, Http!PlayerGet, Http!StatusPoll, Http!PlayerPost, Http!File,
       Http!GiveAnswer, Http!Login
  <2>3. CASE Http!Legal(r) /\ r.path # "player" /\ ~Http!IsScoreboardRequest(r)
    BY <2>3 DEF Http!Outcomes, Http!File
  <2>4. CASE Http!Legal(r) /\ r.path # "player" /\ Http!IsScoreboardRequest(r)
    <3>1. Http!Outcomes(r) = IF r.method = "get" THEN Http!ScoreboardGet(r)
                              ELSE Http!ScoreboardPost(r)
      BY <2>4 DEF Http!Outcomes
    <3>2. r.method = "get"
      BY <3>1, <2>4 DEF Http!ScoreboardPost, Http!Legal
    <3>3. o \notin Http!File(r, FALSE) /\ o \notin Http!StatusPoll(r, {"json", "badRequest"})
      BY DEF Http!File, Http!StatusPoll
    <3>4. QED
      BY <2>4, <3>1, <3>2, <3>3 DEF Http!ScoreboardGet
  <2>5. QED
    BY <2>1, <2>2, <2>3, <2>4
<1>2. DOMAIN r.fields \cap {"gameStart", "scores"} = {}
  BY <1>1 DEF Http!ScoreboardQuery
<1>3. QED
  BY <1>1, <1>2, WhatIsSent DEF SentOK, Http!UnknownQuery, Http!IsScoreboardRequest

-------------------------------------------------------------------------------
(* The connection of the guest: one operation at a time, over HTTP until the *)
(* socket is upgraded, and a thread for it while a handler runs.             *)

Guests == {t \in IoThreads : io[t] = "guest"}

\* A request that is handled was sent, and its outcome is one it may have.
RequestOK ==
  /\ request # NoRequest => request \in Http!Sent
  /\ step \in {"handle", "write"} =>
       request # NoRequest /\ outcome \in Http!Outcomes(request)
  /\ step = "handle" /\ outcome.reply = "terminate" => terminated
  /\ step = "write" => outcome.reply \notin {"nothing", "terminate"}

\* A thread handles at most one thing of the guest's, and nothing comes over
\* the WebSocket before the upgrade.
OneThread ==
  /\ \A t, u \in Guests : t = u
  /\ Guests # {} <=> "handle" \in {step, reading}
  /\ reading # "none" => step = "upgraded"

ProgramTyped ==
  /\ main \in {"arguments", "address", "init", "wait", "spawn", "accept", "join",
               "returned", "failed"}
  /\ io \in [IoThreads -> {"new", "run", "guest", "other", "left"}]
  /\ waiting \in BOOLEAN
  /\ signal \in BOOLEAN
  /\ stopped \in BOOLEAN
  /\ accepting \in BOOLEAN
  /\ browser \in [Browsers -> {"away", "waiting", "accepted"}]

\* A text is kept while it is handled, no longer.
BufferOK == reading # "handle" => buffer = << >>

GuestInv == ProgramTyped /\ Http!TypeOK /\ Socket!TypeOK /\ RequestOK /\ BufferOK /\ OneThread

\* Counting the threads that handle something of the guest's.
LEMMA GuestInvTypes == GuestInv => TypeOK
<1> SUFFICES ASSUME GuestInv
             PROVE  Cardinality(Guests) = IF "handle" \in {step, reading} THEN 1 ELSE 0
  BY DEF GuestInv, ProgramTyped, TypeOK, Guests
<1>1. CASE "handle" \in {step, reading}
  <2>1. PICK t \in Guests : TRUE
    BY <1>1 DEF GuestInv, OneThread
  <2>2. Guests = {t}
    BY <2>1 DEF GuestInv, OneThread
  <2>3. QED
    BY <1>1, <2>2, FS_Singleton
<1>2. CASE "handle" \notin {step, reading}
  <2>1. Guests = {}
    BY <1>2 DEF GuestInv, OneThread
  <2>2. QED
    BY <1>2, <2>1, FS_EmptySet
<1>3. QED
  BY <1>1, <1>2

\* No request has been made, no thread has been started.
LEMMA GuestInit == Init => GuestInv
<1> SUFFICES ASSUME Init PROVE GuestInv
  OBVIOUS
<1>1. ProgramTyped
  BY DEF Init, ProgramTyped
<1>2. Http!TypeOK
  <2>1. 0 \in 0 .. MaxRequests
    BY BoundsAssumption
  <2>2. Http!NoOutcome \in Http!Outcome
    BY DEF Http!NoOutcome, Http!Outcome
  <2>3. QED
    BY <2>1, <2>2 DEF Init, Http!Init, Http!TypeOK
<1>3. Socket!TypeOK
  <2>1. 0 \in 0 .. MaxTexts
    BY BoundsAssumption
  <2>2. << >> \in Seq(Socket!Text)
        /\ << >> \in Seq({"Bad json file given", "Invalid ID", "status", "scores"})
    BY EmptySeq
  <2>3. QED
    BY <2>1, <2>2 DEF Init, Socket!Init, Socket!TypeOK
<1>4. Guests = {}
  BY DEF Init, Guests
<1>5. RequestOK /\ BufferOK /\ OneThread
  BY <1>4 DEF Init, Http!Init, Socket!Init, RequestOK, BufferOK, OneThread
<1>6. QED
  BY <1>1, <1>2, <1>3, <1>5 DEF GuestInv

\* The connection is not touched.
LEMMA GuestLeftAlone ==
  ASSUME GuestInv, ProgramTyped', UNCHANGED <<httpVars, socketVars>>,
         terminated' \in {terminated, TRUE},
         \A t \in IoThreads : io'[t] = "guest" <=> io[t] = "guest"
  PROVE  GuestInv'
<1>1. Http!TypeOK' /\ Socket!TypeOK'
  <2>1. UNCHANGED <<step, deadline, request, outcome, asked, reading, buffer, gameID,
                    isPlayer, called, replies, texts, gone>>
    BY DEF httpVars, socketVars
  <2>2. terminated' \in BOOLEAN
    BY DEF GuestInv, Http!TypeOK
  <2>3. Http!TypeOK'
    BY <2>1, <2>2 DEF GuestInv, Http!TypeOK
  <2>4. Socket!TypeOK'
    BY <2>1, <2>2 DEF GuestInv, Socket!TypeOK
  <2>5. QED
    BY <2>3, <2>4
<1>2. Guests' = Guests
  BY DEF Guests
<1>3. RequestOK' /\ BufferOK' /\ OneThread'
  BY <1>2 DEF GuestInv, RequestOK, BufferOK, OneThread, httpVars, socketVars
<1>4. QED
  BY <1>1, <1>3 DEF GuestInv

\* main, the signal, the other browsers and the threads that serve them.
LEMMA ProgramStep ==
  ASSUME GuestInv,
         \/ Main \/ RaiseSignal \/ OnSignal
         \/ \E b \in Browsers : Connect(b) \/ OnAccept(b) \/ AcceptFails(b)
         \/ \E t \in IoThreads : OtherHandler(t) \/ OtherReturns(t) \/ LeaveRun(t)
  PROVE  GuestInv'
<1> USE DEF GuestInv, ProgramTyped
<1>1. CASE \/ CheckArguments \/ FindAddress \/ InitAcceptor \/ WaitForSignals
           \/ StartAccepting \/ Join \/ RaiseSignal \/ OnSignal
  <2>1. terminated' \in {terminated, TRUE}
    BY <1>1 DEF CheckArguments, FindAddress, InitAcceptor, WaitForSignals,
       StartAccepting, Join, RaiseSignal, OnSignal
  <2>2. ProgramTyped' /\ UNCHANGED <<io, httpVars, socketVars>>
    BY <1>1 DEF CheckArguments, FindAddress, InitAcceptor, WaitForSignals,
       StartAccepting, Join, RaiseSignal, OnSignal, Proceed
  <2>3. QED
    BY <2>1, <2>2, GuestLeftAlone
<1>2. ASSUME NEW t \in IoThreads, SpawnThread(t) PROVE GuestInv'
  <2>1. ProgramTyped' /\ UNCHANGED <<httpVars, socketVars, terminated>>
    BY <1>2 DEF SpawnThread
  <2>2. \A u \in IoThreads : io'[u] = "guest" <=> io[u] = "guest"
    BY <1>2 DEF SpawnThread
  <2>3. QED
    BY <2>1, <2>2, GuestLeftAlone
<1>3. ASSUME NEW b \in Browsers, Connect(b) \/ OnAccept(b) \/ AcceptFails(b) PROVE GuestInv'
  <2>1. ProgramTyped' /\ UNCHANGED <<io, httpVars, socketVars, terminated>>
    BY <1>3 DEF Connect, OnAccept, AcceptFails
  <2>2. QED
    BY <2>1, GuestLeftAlone
<1>4. ASSUME NEW t \in IoThreads, OtherHandler(t) \/ OtherReturns(t) \/ LeaveRun(t)
      PROVE  GuestInv'
  <2>1. ProgramTyped' /\ UNCHANGED <<httpVars, socketVars, terminated>>
    BY <1>4 DEF OtherHandler, OtherReturns, LeaveRun, TakeUp, PutDown, mainVars
  <2>2. \A u \in IoThreads : io'[u] = "guest" <=> io[u] = "guest"
    BY <1>4 DEF OtherHandler, OtherReturns, LeaveRun, TakeUp, PutDown
  <2>3. QED
    BY <2>1, <2>2, GuestLeftAlone
<1>5. QED
  BY <1>1, <1>2, <1>3, <1>4 DEF Main

\* One step over HTTP: a request is read with an outcome it may have, and
\* forgotten when the connection ends.
LEMMA HttpStep ==
  ASSUME Http!TypeOK, RequestOK, ~terminated,
         \/ Http!OnRead \/ Http!Handle \/ Http!ReadFails \/ Http!OnWrite
         \/ Http!LastWrite \/ Http!Timeout \/ Http!Upgrade
  PROVE  Http!TypeOK' /\ RequestOK'
<1>1. ASSUME NEW how \in {"gone", "upgraded"}, Http!End(how)
      PROVE  Http!TypeOK' /\ RequestOK'
  <2>1. Http!NoOutcome \in Http!Outcome
    BY DEF Http!NoOutcome, Http!Outcome
  <2>2. QED
    BY <1>1, <2>1 DEF Http!End, Http!TypeOK, RequestOK
<1>2. CASE Http!OnRead
  <2>1. /\ request' \in Http!Sent /\ outcome' \in Http!Outcomes(request')
        /\ asked < MaxRequests /\ asked' = asked + 1 /\ step' = "handle"
        /\ terminated' = (outcome'.reply = "terminate") /\ deadline' = deadline
    BY <1>2 DEF Http!OnRead
  <2>2. request' \in Http!Request
    BY <2>1, WhatIsSent DEF SentOK
  <2>3. outcome' \in Http!Outcome
    BY <2>1, OutcomesTyped
  <2>4. request' # NoRequest
    BY <2>2, NoRequestAssumption
  <2>5. asked' \in 0 .. MaxRequests
    BY <2>1, BoundsAssumption DEF Http!TypeOK
  <2>6. Http!TypeOK'
    BY <2>1, <2>2, <2>3, <2>4, <2>5 DEF Http!TypeOK
  <2>7. RequestOK'
    BY <2>1, <2>4 DEF RequestOK
  <2>8. QED
    BY <2>6, <2>7
<1>3. CASE Http!Handle /\ outcome.reply # "nothing"
  BY <1>3 DEF Http!Handle, Http!TypeOK, RequestOK
<1>4. CASE Http!OnWrite
  BY <1>4 DEF Http!OnWrite, Http!TypeOK, RequestOK
<1>5. CASE \/ Http!ReadFails \/ Http!LastWrite \/ Http!Timeout \/ Http!Upgrade
           \/ Http!Handle /\ outcome.reply = "nothing"
  BY <1>1, <1>5 DEF Http!ReadFails, Http!LastWrite, Http!Timeout, Http!Upgrade, Http!Handle
<1>6. QED
  BY <1>2, <1>3, <1>4, <1>5

Calls == {"none", "addPlayer", "startGame", "playerAnswered", "createGame"}
Posts == {"Bad json file given", "Invalid ID", "status", "scores"}

\* What handling a text amounts to.
Answered ==
  /\ gameID' \in {"unset", "room", "created"}
  /\ isPlayer' \in BOOLEAN
  /\ called' \in Calls
  /\ replies' \in Seq(Posts)
  /\ terminated' \in BOOLEAN
  /\ replies' = <<"Bad json file given">> =>
       UNCHANGED <<gameID, isPlayer>> /\ called' = "none"

\* Whichever handler a text is for, a text that is refused changes nothing.
LEMMA TextAnswered ==
  ASSUME Socket!TypeOK, NEW text, Socket!HandleRequest(text)
  PROVE  Answered
<1>1. ASSUME NEW a \in Posts, NEW b \in Posts
      PROVE  /\ << >> \in Seq(Posts) /\ <<a>> \in Seq(Posts) /\ <<a, b>> \in Seq(Posts)
             /\ << >> # <<"Bad json file given">>
             /\ <<a, b>> # <<"Bad json file given">>
             /\ a # "Bad json file given" => <<a>> # <<"Bad json file given">>
  <2>1. << >> \in Seq(Posts) /\ <<a>> \in Seq(Posts) /\ <<a, b>> \in Seq(Posts)
    <3>1. << >> \in Seq(Posts)
      BY EmptySeq
    <3>2. <<a>> \in Seq(Posts)
      OBVIOUS
    <3>3. <<a, b>> \in Seq(Posts)
      OBVIOUS
    <3>4. QED
      BY <3>1, <3>2, <3>3
  <2>2. << >> # <<"Bad json file given">>
    BY Len(<< >>) = 0, Len(<<"Bad json file given">>) = 1
  <2>3. <<a, b>> # <<"Bad json file given">>
    BY Len(<<a, b>>) = 2, Len(<<"Bad json file given">>) = 1
  <2>4. a # "Bad json file given" => <<a>> # <<"Bad json file given">>
    BY <<a>>[1] = a
  <2>5. QED
    BY <2>1, <2>2, <2>3, <2>4
<1>2. gameID \in {"unset", "room", "created"} /\ isPlayer \in BOOLEAN
      /\ terminated \in BOOLEAN
  BY DEF Socket!TypeOK
<1> USE DEF Answered, Calls, Posts, Socket!Post
<1>3. Socket!Refuse => Answered
  BY <1>1, <1>2 DEF Socket!Refuse
<1>4. Socket!Terminate => Answered
  BY <1>1, <1>2 DEF Socket!Terminate
<1>5. ASSUME NEW call \in Calls, Socket!Silent(call) PROVE Answered
  BY <1>1, <1>2, <1>5 DEF Socket!Silent
<1>6. ASSUME NEW members, Socket!Login(members) PROVE Answered
  BY <1>1, <1>2, <1>3, <1>6 DEF Socket!Login
<1>7. ASSUME NEW members, Socket!Answer(members) PROVE Answered
  BY <1>3, <1>4, <1>5, <1>7 DEF Socket!Answer
<1>8. Socket!CreateGame \/ Socket!SendScores => Answered
  BY <1>1, <1>2 DEF Socket!CreateGame, Socket!SendScores
<1> HIDE DEF Answered, Socket!Post
<1>9. Socket!PlayerRequest(text) => Answered
  BY <1>3, <1>5, <1>6, <1>7 DEF Socket!PlayerRequest
<1>10. Socket!ScoreboardRequest(text) => Answered
  BY <1>3, <1>5, <1>8 DEF Socket!ScoreboardRequest
<1>11. QED
  BY <1>3, <1>4, <1>9, <1>10 DEF Socket!HandleRequest

\* One step of the WebSocket: a text is read into the empty buffer, and the
\* buffer is emptied again.
LEMMA SocketStep ==
  ASSUME Socket!TypeOK, BufferOK,
         \/ Socket!Accept \/ Socket!OnAccept \/ Socket!OnRead \/ Socket!Handle
         \/ Socket!Fails \/ Socket!Timeout \/ Socket!Go
  PROVE  Socket!TypeOK' /\ BufferOK'
<1> USE DEF BufferOK
<1>1. CASE Socket!OnRead
  <2>1. PICK text \in Socket!PageTexts \cup Socket!OddTexts : buffer' = Append(buffer, text)
    BY <1>1 DEF Socket!OnRead
  <2>2. text \in Socket!Text
    BY DEF Socket!PageTexts, Socket!OddTexts, Socket!Says, Socket!Text
  <2>3. buffer' \in Seq(Socket!Text) /\ Len(buffer') = 1
    <3>1. << >> \in Seq(Socket!Text) /\ Len(<< >>) = 0
      BY EmptySeq
    <3>2. buffer = << >>
      BY <1>1 DEF Socket!OnRead
    <3>3. QED
      BY <2>1, <2>2, <3>1, <3>2, AppendProperties
  <2>4. texts' \in 0 .. MaxTexts
    <3>1. texts < MaxTexts /\ texts' = texts + 1
      BY <1>1 DEF Socket!OnRead
    <3>2. texts \in 0 .. MaxTexts
      BY DEF Socket!TypeOK
    <3>3. QED
      BY <3>1, <3>2, BoundsAssumption
  <2>5. QED
    BY <1>1, <2>3, <2>4 DEF Socket!OnRead, Socket!TypeOK, Socket!sessionVars
<1>2. CASE Socket!Handle
  <2>1. Answered /\ buffer' = << >> /\ reading' = "read" /\ UNCHANGED <<texts, gone>>
    BY <1>2, TextAnswered DEF Socket!Handle
  <2>2. << >> \in Seq(Socket!Text)
    BY EmptySeq
  <2>3. QED
    BY <2>1, <2>2 DEF Answered, Calls, Posts, Socket!TypeOK
<1>3. CASE Socket!Accept \/ Socket!OnAccept \/ Socket!Fails \/ Socket!Timeout \/ Socket!Go
  BY <1>3 DEF Socket!Accept, Socket!OnAccept, Socket!Fails, Socket!Timeout, Socket!Go,
     Socket!TypeOK, Socket!sessionVars
<1>4. QED
  BY <1>1, <1>2, <1>3

\* What the guest's connection does, over HTTP or the WebSocket.
GuestSteps ==
  \/ \E t \in IoThreads : HttpOnRead(t) \/ HttpHandle(t)
  \/ \E t \in IoThreads : SocketOnRead(t) \/ SocketHandle(t)
  \/ HttpTimeout \/ HttpGoesOn \/ HttpUpgrade
  \/ SocketTimeout \/ SocketGoesOn \/ GuestGoes

LEMMA GuestStep ==
  ASSUME GuestInv, ~terminated, GuestSteps
  PROVE  GuestInv'
<1> USE DEF GuestInv
<1>1. ASSUME NEW t \in IoThreads, TakeUp(t, "guest"), Guests = {}
      PROVE  /\ io' \in [IoThreads -> {"new", "run", "guest", "other", "left"}]
             /\ Guests' = {t}
  BY <1>1 DEF TakeUp, Guests, ProgramTyped
<1>2. ASSUME NEW t \in IoThreads, PutDown(t, "guest")
      PROVE  /\ io' \in [IoThreads -> {"new", "run", "guest", "other", "left"}]
             /\ Guests' = {}
  <2>1. \A u \in IoThreads : io[u] = "guest" => u = t
    BY <1>2 DEF PutDown, Guests, OneThread
  <2>2. QED
    BY <1>2, <2>1 DEF PutDown, Guests, ProgramTyped
<1>3. ASSUME UNCHANGED mainVars,
             io' \in [IoThreads -> {"new", "run", "guest", "other", "left"}]
      PROVE  ProgramTyped'
  BY <1>3 DEF ProgramTyped, mainVars
<1>4. ASSUME UNCHANGED socketVars, Http!TypeOK'
      PROVE  Socket!TypeOK' /\ BufferOK' /\ reading' = reading
  <2>1. UNCHANGED <<reading, buffer, gameID, isPlayer, called, replies, texts, gone>>
    BY <1>4 DEF socketVars
  <2>2. terminated' \in BOOLEAN
    BY <1>4 DEF Http!TypeOK
  <2>3. QED
    BY <2>1, <2>2 DEF Socket!TypeOK, BufferOK
<1>5. ASSUME UNCHANGED httpVars, Socket!TypeOK', terminated' \in {terminated, TRUE}
      PROVE  Http!TypeOK' /\ RequestOK' /\ step' = step
  <2>1. UNCHANGED <<step, deadline, request, outcome, asked>>
    BY <1>5 DEF httpVars
  <2>2. terminated' \in BOOLEAN
    BY <1>5 DEF Socket!TypeOK
  <2>3. QED
    BY <1>5, <2>1, <2>2 DEF Http!TypeOK, RequestOK
<1>6. ASSUME NEW t \in IoThreads, HttpOnRead(t) PROVE GuestInv'
  <2>1. Http!OnRead /\ TakeUp(t, "guest") /\ UNCHANGED <<mainVars, socketVars>>
    BY <1>6 DEF HttpOnRead
  <2>2. Http!TypeOK' /\ RequestOK' /\ step = "read" /\ step' = "handle"
    BY <2>1, HttpStep DEF Http!OnRead
  <2>3. Guests = {}
    BY <2>2 DEF OneThread
  <2>4. QED
    BY <1>1, <1>3, <1>4, <2>1, <2>2, <2>3 DEF OneThread
<1>7. ASSUME NEW t \in IoThreads, HttpHandle(t) PROVE GuestInv'
  <2>1. Http!Handle /\ PutDown(t, "guest") /\ UNCHANGED <<mainVars, socketVars>>
    BY <1>7 DEF HttpHandle
  <2>2. Http!TypeOK' /\ RequestOK' /\ step = "handle" /\ step' \in {"gone", "write"}
    BY <2>1, HttpStep DEF Http!Handle, Http!End
  <2>3. QED
    BY <1>2, <1>3, <1>4, <2>1, <2>2 DEF OneThread
<1>8. CASE HttpTimeout \/ HttpGoesOn
  <2>1. /\ Http!Timeout \/ Http!ReadFails \/ Http!OnWrite \/ Http!LastWrite
        /\ UNCHANGED <<mainVars, io, socketVars>>
    BY <1>8 DEF HttpTimeout, HttpGoesOn
  <2>2. /\ Http!TypeOK' /\ RequestOK'
        /\ step \in {"read", "write"} /\ step' \in {"read", "gone"}
    BY <2>1, HttpStep DEF Http!Timeout, Http!ReadFails, Http!OnWrite, Http!LastWrite, Http!End
  <2>3. Guests' = Guests /\ ProgramTyped'
    BY <1>3, <2>1 DEF Guests, ProgramTyped
  <2>4. QED
    BY <1>4, <2>1, <2>2, <2>3 DEF OneThread
<1>9. CASE HttpUpgrade
  <2>1. Http!Upgrade /\ Socket!Accept /\ UNCHANGED <<mainVars, io>>
    BY <1>9 DEF HttpUpgrade
  <2>2. /\ Http!TypeOK' /\ RequestOK' /\ Socket!TypeOK' /\ BufferOK'
        /\ step = "read" /\ step' = "upgraded" /\ reading = "none" /\ reading' = "accept"
    BY <2>1, HttpStep, SocketStep DEF Http!Upgrade, Http!End, Socket!Accept
  <2>3. Guests' = Guests /\ ProgramTyped'
    BY <1>3, <2>1 DEF Guests, ProgramTyped
  <2>4. QED
    BY <2>2, <2>3 DEF OneThread
<1>10. ASSUME NEW t \in IoThreads, SocketOnRead(t) PROVE GuestInv'
  <2>1. Socket!OnRead /\ TakeUp(t, "guest") /\ UNCHANGED <<mainVars, httpVars>>
    BY <1>10 DEF SocketOnRead
  <2>2. /\ Socket!TypeOK' /\ BufferOK' /\ terminated' = terminated
        /\ reading = "read" /\ reading' = "handle"
    BY <2>1, SocketStep DEF Socket!OnRead
  <2>3. Guests = {} /\ step = "upgraded"
    BY <2>2 DEF OneThread
  <2>4. QED
    BY <1>1, <1>3, <1>5, <2>1, <2>2, <2>3 DEF OneThread
<1>11. ASSUME NEW t \in IoThreads, SocketHandle(t) PROVE GuestInv'
  <2>1. Socket!Handle /\ PutDown(t, "guest") /\ UNCHANGED <<mainVars, httpVars>>
    BY <1>11 DEF SocketHandle
  <2>2. /\ Socket!TypeOK' /\ BufferOK' /\ terminated' \in {terminated, TRUE}
        /\ reading = "handle" /\ reading' = "read"
    BY <2>1, SocketStep DEF Socket!Handle, Socket!TypeOK
  <2>3. step = "upgraded"
    BY <2>2 DEF OneThread
  <2>4. QED
    BY <1>2, <1>3, <1>5, <2>1, <2>2, <2>3 DEF OneThread
<1>12. CASE SocketTimeout \/ SocketGoesOn \/ GuestGoes
  <2>1. /\ Socket!Timeout \/ Socket!OnAccept \/ Socket!Fails \/ Socket!Go
        /\ UNCHANGED <<mainVars, io, httpVars>>
    BY <1>12 DEF SocketTimeout, SocketGoesOn, GuestGoes
  <2>2. /\ Socket!TypeOK' /\ BufferOK' /\ terminated' = terminated
        /\ reading' = "handle" <=> reading = "handle"
        /\ reading' # "none" <=> reading # "none"
    BY <2>1, SocketStep DEF Socket!Timeout, Socket!OnAccept, Socket!Fails, Socket!Go
  <2>3. Guests' = Guests /\ ProgramTyped'
    BY <1>3, <2>1 DEF Guests, ProgramTyped
  <2>4. QED
    BY <1>5, <2>1, <2>2, <2>3 DEF OneThread
<1>13. QED
  BY <1>6, <1>7, <1>8, <1>9, <1>10, <1>11, <1>12 DEF GuestSteps

\* Every step is one of the program's or one of the guest's.
LEMMA GuestInductive == GuestInv /\ [Next]_vars => GuestInv'
<1> SUFFICES ASSUME GuestInv, [Next]_vars PROVE GuestInv'
  OBVIOUS
<1>1. CASE UNCHANGED vars
  BY <1>1, GuestLeftAlone DEF vars, mainVars, GuestInv, ProgramTyped
<1>2. CASE Next
  <2>1. \/ Main \/ RaiseSignal \/ OnSignal
        \/ \E b \in Browsers : Connect(b) \/ OnAccept(b) \/ AcceptFails(b)
        \/ \E t \in IoThreads : OtherHandler(t) \/ OtherReturns(t) \/ LeaveRun(t)
        \/ GuestSteps
    BY <1>2 DEF Next, Handlers, World, GuestSteps
  <2>2. ~terminated
    BY <1>2 DEF Next
  <2>3. QED
    BY <2>1, <2>2, ProgramStep, GuestStep
<1>3. QED
  BY <1>1, <1>2

\* Whatever the threads do, one of them at most works for the guest, and what
\* it works on is of its type (TypeOK): the io_context runs the handlers of
\* one connection one at a time.
THEOREM ServerTyped == Spec => []TypeOK
<1>1. GuestInv => TypeOK
  BY GuestInvTypes
<1>2. QED
  BY <1>1, GuestInit, GuestInductive, PTL DEF Spec

\* A form that is refused has not changed the game, one that is accepted has,
\* and loading or polling a page never does (AcceptedMeansCalled).
THEOREM FormsCallTheGame == Spec => []AcceptedMeansCalled
<1>1. GuestInv => AcceptedMeansCalled
  <2> SUFFICES ASSUME GuestInv, step = "handle", ~terminated
               PROVE  outcome.call # "none" <=>
                        request.method = "post" /\ outcome.reply = "json"
    BY DEF AcceptedMeansCalled, Http!AcceptedMeansCalled, Http!Handled
  <2>1. outcome \in Http!Outcomes(request) /\ outcome.reply # "terminate"
    BY DEF GuestInv, RequestOK
  <2>2. QED
    BY <2>1, OutcomesMatch
<1>2. QED
  BY <1>1, GuestInit, GuestInductive, PTL DEF Spec

\* Every request is answered (RequestsAreAnswered), but for the scoreboard page
\* with a query that nobody knows: the connection goes on to a write.
THEOREM RequestsGetResponses == Spec => RequestsAreAnswered
<1>1. GuestInv /\ [Next]_vars =>
        [Http!Handled /\ step' # "handle" /\ ~Http!UnknownQuery(request)
           => step' = "write"]_(Http!vars)
  <2> SUFFICES ASSUME GuestInv, [Next]_vars, step = "handle", ~terminated,
                      step' # "handle", ~Http!UnknownQuery(request)
               PROVE  step' = "write"
    BY DEF Http!Handled
  <2>1. \E t \in IoThreads : HttpHandle(t)
    <3>1. step' # step
      OBVIOUS
    <3>2. QED
      BY <3>1 DEF Next, Main, Handlers, World, vars, httpVars,
         CheckArguments, FindAddress, InitAcceptor, WaitForSignals, SpawnThread,
         StartAccepting, Join, LeaveRun, RaiseSignal, OnSignal, OnAccept, AcceptFails,
         Connect, OtherHandler, OtherReturns, HttpOnRead, HttpTimeout, HttpGoesOn,
         HttpUpgrade, SocketOnRead, SocketHandle, SocketTimeout, SocketGoesOn, GuestGoes,
         Http!OnRead, Http!Timeout, Http!ReadFails, Http!OnWrite, Http!LastWrite,
         Http!Upgrade
  <2>2. Http!Handle
    BY <2>1 DEF HttpHandle
  <2>3. request \in Http!Sent /\ outcome \in Http!Outcomes(request)
    BY DEF GuestInv, RequestOK
  <2>4. outcome.reply # "nothing"
    BY <2>3, OnlyUnknownQueries
  <2>5. QED
    BY <2>2, <2>4 DEF Http!Handle
<1>2. QED
  BY <1>1, GuestInit, GuestInductive, PTL
  DEF Spec, RequestsAreAnswered, Http!RequestsAreAnswered

\* A text over the WebSocket that is answered with "Bad json file given" has
\* changed nothing (BadTextChangesNothing), whichever member it was refused for.
THEOREM RefusedTextsChangeNothing == Spec => BadTextChangesNothing
<1>1. GuestInv /\ [Next]_vars =>
        [reading = "handle" /\ replies' = <<"Bad json file given">> /\ reading' # "handle"
           => UNCHANGED <<gameID, isPlayer>> /\ called' = "none"]_(Socket!vars)
  <2> SUFFICES ASSUME GuestInv, [Next]_vars, reading = "handle", reading' # "handle",
                      replies' = <<"Bad json file given">>
               PROVE  UNCHANGED <<gameID, isPlayer>> /\ called' = "none"
    OBVIOUS
  <2>1. \E t \in IoThreads : SocketHandle(t)
    <3>1. reading' # reading
      OBVIOUS
    <3>2. QED
      BY <3>1 DEF Next, Main, Handlers, World, vars, socketVars,
         CheckArguments, FindAddress, InitAcceptor, WaitForSignals, SpawnThread,
         StartAccepting, Join, LeaveRun, RaiseSignal, OnSignal, OnAccept, AcceptFails,
         Connect, OtherHandler, OtherReturns, HttpOnRead, HttpHandle, HttpTimeout,
         HttpGoesOn, HttpUpgrade, SocketOnRead, SocketTimeout, SocketGoesOn, GuestGoes,
         Socket!Accept, Socket!OnAccept, Socket!OnRead, Socket!Fails, Socket!Timeout,
         Socket!Go
  <2>2. Socket!HandleRequest(Head(buffer)) /\ Socket!TypeOK
    BY <2>1 DEF SocketHandle, Socket!Handle, GuestInv
  <2>3. QED
    BY <2>2, TextAnswered DEF Answered
<1>2. QED
  BY <1>1, GuestInit, GuestInductive, PTL
  DEF Spec, BadTextChangesNothing, Socket!BadTextChangesNothing

===============================================================================
