------------------------------ MODULE HttpSession ------------------------------
(***************************************************************************)
(* One HTTP connection: the class HttpSession (http_session.h,             *)
(* http_session.cpp), from the first read to the end of the connection or  *)
(* its upgrade to a WebSocket.  Browsers without WebSockets play the whole *)
(* game through it.                                                        *)
(*                                                                         *)
(* The session has one asynchronous operation outstanding at a time, a     *)
(* read or a write, whose completion handler keeps the object alive; when  *)
(* a handler returns without starting another one, the object and with it  *)
(* the connection are gone.                                                *)
(*                                                                         *)
(* A request is what the routing and the handlers look at.  What the game  *)
(* does with a call is in Game; here it is remembered which one was made.  *)
(***************************************************************************)
EXTENDS Naturals, FiniteSets

CONSTANTS
  MaxRequests,   \* bound on the number of requests sent on the connection
  NoRequest      \* no request has been read yet

(* Requests.  path: "scoreboard" is index.html or scoreboard.html, "player" *)
(* is player.html, "file" any other file of the pages and "missing" none;   *)
(* query: the target has a '?'; fields: those of the query or the body,     *)
(* with the kind of text they have; cookie: the kind of the sessionID, if   *)
(* the request has one; "text" is what std::stoi finds no int in.           *)

FieldNames == {"status", "gameStart", "scores", "other",
               "roomNumber", "username", "answer", "playerID"}

Fields == UNION {[names -> {"number", "text"}] : names \in SUBSET FieldNames}

Request == [method : {"get", "post", "other"},
            path : {"root", "scoreboard", "player", "file", "missing", "illegal"},
            query : BOOLEAN,
            fields : Fields,
            cookie : {"none", "number", "text"},
            keepAlive : BOOLEAN]

\* The outcomes of a handler: how it replies and what it asks of the game.
Outcome == [reply : {"page", "json", "badRequest", "notFound", "serverError",
                     "nothing", "terminate"},
            call : {"none", "createGame", "addPlayer", "playerAnswered", "startGame"}]

VARIABLES
  step,        \* the operation outstanding: "read" or "write"; "handle" while
               \* a request is handled; "upgraded"; "gone"
  deadline,    \* the stream's timer is armed
  request,     \* the request read last
  outcome,     \* of the request read last
  asked,       \* number of requests read
  terminated   \* an exception has left a handler and ended the program

vars == <<step, deadline, request, outcome, asked, terminated>>

NoOutcome == [reply |-> "nothing", call |-> "none"]

TypeOK ==
  /\ step \in {"read", "handle", "write", "upgraded", "gone"}
  /\ deadline \in BOOLEAN
  /\ request \in Request \cup {NoRequest}
  /\ outcome \in Outcome
  /\ asked \in 0..MaxRequests
  /\ terminated \in BOOLEAN
  /\ step \in {"handle", "write"} => request # NoRequest
  /\ step = "write" => outcome.reply # "nothing"

\* run(), dispatched to do_read.
Init ==
  /\ step = "read"
  /\ deadline = TRUE
  /\ request = NoRequest
  /\ outcome = NoOutcome
  /\ asked = 0
  /\ terminated = FALSE

-------------------------------------------------------------------------------
(* What browsers send.  The sessionID is there or not, and need not be one   *)
(* that this server has set; it is looked at with a poll of the status and   *)
(* with an answer.                                                           *)

NoFields == [n \in {} |-> "text"]

Cookies(fields) ==
  IF DOMAIN fields \cap {"status", "answer"} = {} THEN {"none"} ELSE {"none", "number", "text"}

Get(path, query, fields) ==
  [method : {"get"}, path : {path}, query : {query}, fields : {fields},
   cookie : Cookies(fields), keepAlive : BOOLEAN]

Post(path, fields) ==
  [method : {"post"}, path : {path}, query : {FALSE}, fields : {fields},
   cookie : Cookies(fields), keepAlive : BOOLEAN]

\* Pages, scripts and the player page behind the QR code of a scoreboard.
Loads ==
  (UNION {Get(path, FALSE, NoFields) :
            path \in {"root", "scoreboard", "player", "file", "missing"}})
  \cup Get("player", TRUE, [n \in {"roomNumber"} |-> "number"])
  \cup (UNION {Get(path, TRUE, [n \in {"other"} |-> "text"]) :
                 path \in {"root", "scoreboard", "player", "file"}})

\* player.js without WebSockets.  parseInt makes NaN of an empty room number.
LoginForm ==
  UNION {Post("player", [n \in {"roomNumber", "username"} |->
                           IF n = "roomNumber" THEN kind ELSE "text"]) :
           kind \in {"number", "text"}}
AnswerForm ==
  Post("player", [n \in {"answer", "playerID"} |-> "number"])
StartForm == Post("player", [n \in {"playerID"} |-> "number"])
PlayerPoll == Get("player", TRUE, [n \in {"status"} |-> "number"])

\* scoreboard.js without WebSockets.
CreateForm == Post("scoreboard", NoFields)
ScoreboardPolls ==
  UNION {Get("scoreboard", TRUE, [n \in {name} |-> "number"]) :
           name \in {"status", "gameStart", "scores"}}

\* Other clients.
Odd == [method : {"other"}, path : {"file"}, query : {FALSE}, fields : {NoFields},
        cookie : {"none"}, keepAlive : BOOLEAN]
       \cup Get("illegal", FALSE, NoFields)

Sent == Loads \cup LoginForm \cup AnswerForm \cup StartForm \cup PlayerPoll
        \cup CreateForm \cup ScoreboardPolls \cup Odd

-------------------------------------------------------------------------------
(* Faulty variants of definitions below, to check that the properties notice *)
(* them.                                                                     *)

\* the player is added before the room is looked at
Login_Anyway(r) ==
  {[reply |-> "badRequest", call |-> "addPlayer"], [reply |-> "json", call |-> "addPlayer"]}

\* no timer for the next request
OnWrite_NoDeadline ==
  /\ step = "write"
  /\ request.keepAlive
  /\ step' = "read"
  /\ deadline' = FALSE
  /\ UNCHANGED <<request, outcome, asked, terminated>>

\* the query for the scores is tested in the wrong place
ScoreboardQuery_NoScores(r) ==
  IF "gameStart" \in DOMAIN r.fields THEN {[reply |-> "json", call |-> "none"]}
  ELSE {[reply |-> "nothing", call |-> "none"]}

-------------------------------------------------------------------------------
(* The handlers: the sets of outcomes a request may have.                   *)

Reply(what) == [reply |-> what, call |-> "none"]

\* checkRequest
Legal(r) == r.method \in {"get", "post"} /\ r.path # "illegal"

\* returnRequestedPage: the file named by the target with its query, if that
\* has not been cut off.  Opening it may also fail for another reason.
File(r, cut) ==
  {Reply(IF r.path # "missing" /\ (r.query => cut) THEN "page" ELSE "notFound"),
   Reply("serverError")}

\* A poll of the status, by the number in the cookie: std::stoi throws if
\* there is none in it.
StatusPoll(r, replies) ==
  IF r.cookie = "none" THEN {Reply("badRequest")}
  ELSE IF r.cookie = "text" THEN {Reply("terminate")}
  ELSE {Reply(what) : what \in replies}

\* handlePlayerRequest, GET.  The player page is also found with a query.
PlayerGet(r) ==
  IF "status" \notin DOMAIN r.fields THEN File(r, TRUE)
  ELSE StatusPoll(r, {"json"})

ValidForm(r) ==
  /\ Cardinality(DOMAIN r.fields) = 2
  /\ \/ {"roomNumber", "username"} \subseteq DOMAIN r.fields
     \/ {"answer", "playerID"} \subseteq DOMAIN r.fields

\* std::stoi throws if there is no number, also for a missing cookie.
GiveAnswer(r) ==
  IF r.fields["answer"] = "number" /\ r.cookie = "number"
    THEN {[reply |-> "json", call |-> "playerAnswered"]}
    ELSE {Reply("terminate")}

\* playerEntered: the room exists or not.
Login(r) ==
  IF r.fields["roomNumber"] = "number"
    THEN {[reply |-> "json", call |-> "addPlayer"], Reply("badRequest")}
    ELSE {Reply("terminate")}

\* handlePlayerRequest, POST.
PlayerPost(r) ==
  IF ~ValidForm(r) THEN {Reply("badRequest")}
  ELSE IF "answer" \in DOMAIN r.fields THEN GiveAnswer(r)
  ELSE Login(r)

\* What a query other than status does.
ScoreboardQuery(r) ==
  IF DOMAIN r.fields \cap {"gameStart", "scores"} # {}
    THEN {Reply("json")}
    ELSE {Reply("nothing")}

\* handleScoreboardRequest, GET: the game may be another one by now.
ScoreboardGet(r) ==
  IF DOMAIN r.fields = {} THEN File(r, FALSE)
  ELSE IF "status" \notin DOMAIN r.fields THEN ScoreboardQuery(r)
  ELSE StatusPoll(r, {"json", "badRequest"})

\* handleScoreboardRequest, POST.
ScoreboardPost(r) == {[reply |-> "json", call |-> "createGame"]}

\* handle_request
IsScoreboardRequest(r) == r.path = "scoreboard" \/ (r.path = "root" /\ ~r.query)

Outcomes(r) ==
  IF ~Legal(r) THEN {Reply("badRequest")}
  ELSE IF r.path = "player" THEN IF r.method = "get" THEN PlayerGet(r) ELSE PlayerPost(r)
  ELSE IF IsScoreboardRequest(r)
    THEN IF r.method = "get" THEN ScoreboardGet(r) ELSE ScoreboardPost(r)
  ELSE File(r, FALSE)

-------------------------------------------------------------------------------
(* The connection. *)

\* on_read with a request.
OnRead ==
  /\ step = "read"
  /\ asked < MaxRequests
  /\ request' \in Sent
  /\ outcome' \in Outcomes(request')
  /\ asked' = asked + 1
  /\ terminated' = (outcome'.reply = "terminate")
  /\ step' = "handle"
  /\ UNCHANGED deadline

\* A handler returns without having started an operation: the session object
\* is destroyed.
End(how) ==
  /\ step' = how
  /\ deadline' = FALSE
  /\ request' = NoRequest
  /\ outcome' = NoOutcome
  /\ UNCHANGED <<asked, terminated>>

\* on_read with the request for an upgrade: the socket leaves this session.
Upgrade == step = "read" /\ End("upgraded")

\* on_read with an error: the client closed, or the network failed.
ReadFails == step = "read" /\ End("gone")

\* The handler sends its response, or returns without having done anything.
Handle ==
  /\ step = "handle"
  /\ IF outcome.reply = "nothing"
       THEN End("gone")
       ELSE /\ step' = "write"
            /\ UNCHANGED <<deadline, request, outcome, asked, terminated>>

\* on_write, with do_read after it.
OnWrite ==
  /\ step = "write"
  /\ request.keepAlive
  /\ step' = "read"
  /\ deadline' = TRUE
  /\ UNCHANGED <<request, outcome, asked, terminated>>

\* on_write with the end of the connection: the response said so, or it
\* could not be sent.
LastWrite == step = "write" /\ End("gone")

\* 30 s after the last do_read the stream's timer ends whatever operation is
\* outstanding.
Timeout == deadline /\ step \in {"read", "write"} /\ End("gone")

-------------------------------------------------------------------------------
(* Properties *)

Handled == step = "handle" /\ ~terminated

\* The game is called by a request if and only if that is a form and is
\* accepted: a form refused has changed nothing, none accepted was lost, and
\* loading or polling a page, which browsers repeat as they like, never
\* changes the game.
AcceptedMeansCalled ==
  Handled => (outcome.call # "none" <=> request.method = "post" /\ outcome.reply = "json")

\* "This function produces an HTTP response for the given request": whatever
\* way a request takes through the handlers, a response is written, or the
\* program has ended.  The code keeps this except for a scoreboard page whose
\* query has none of the fields the handler knows.
UnknownQuery(r) ==
  /\ r.method = "get"
  /\ IsScoreboardRequest(r)
  /\ DOMAIN r.fields = {"other"}

RequestsAreAnswered ==
  [][Handled /\ step' # "handle" /\ ~UnknownQuery(request) => step' = "write"]_vars

===============================================================================
