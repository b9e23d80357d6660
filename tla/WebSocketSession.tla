---------------------------- MODULE WebSocketSession ----------------------------
(***************************************************************************)
(* The requests of one WebSocket: the class WebSocketSession from the      *)
(* handshake to the end of its read loop (websocket_session.cpp).  What it *)
(* writes goes through WriteQueue; what the game does with a call is in    *)
(* Game, and who is told of it in Broadcast.  Here it is remembered which  *)
(* call a message made and what was posted in reply.                       *)
(*                                                                         *)
(* One operation is outstanding at a time, the handshake or a read, whose  *)
(* handler starts the next.  When a handler returns without, nothing of    *)
(* what the browser sends is read any more; the object lives on in         *)
(* Server::webSessions.                                                    *)
(***************************************************************************)
EXTENDS Naturals, Sequences

CONSTANT MaxTexts   \* bound on the number of texts the browser sends


(* A text is what the handlers look at.  shape: "garbled" is no JSON, "value" *)
(* is JSON but no object; type and method: "none" if the member is missing    *)
(* or no string, "unknown" if no handler knows it; members: the ones that are *)
(* there with the type asked for.  An "answer" may be a number but no int.    *)

Text == [shape : {"garbled", "value", "object"},
         type : {"none", "unknown", "player", "scoreboard"},
         method : {"none", "unknown", "gameInit", "startGame", "giveAnswer", "getScores"},
         members : SUBSET {"roomNumber", "username", "answer", "int"}]

VARIABLES
  reading,     \* the operation outstanding: "accept" or "read"; "none" before
               \* do_accept, "handle" in handle_request, "over" at the end
  buffer,      \* texts read and not consumed
  gameID,      \* "unset" until a gameInit has set it
  isPlayer,    \* playerID is not 0
  called,      \* what the text handled last made of the game
  replies,     \* what was posted in reply to it
  texts,       \* number of texts read
  gone,        \* the browser has gone without closing the connection
  terminated   \* the program has ended in a handler

sessionVars == <<gameID, isPlayer, called, replies>>
vars == <<reading, buffer, sessionVars, texts, gone, terminated>>

TypeOK ==
  /\ reading \in {"none", "accept", "read", "handle", "over"}
  /\ buffer \in Seq(Text)
  /\ reading = "handle" => Len(buffer) = 1
  /\ gameID \in {"unset", "room", "created"}
  /\ isPlayer \in BOOLEAN
  /\ called \in {"none", "addPlayer", "startGame", "playerAnswered", "createGame"}
  /\ replies \in Seq({"Bad json file given", "Invalid ID", "status", "scores"})
  /\ texts \in 0..MaxTexts
  /\ gone \in BOOLEAN
  /\ terminated \in BOOLEAN

Init ==
  /\ reading = "none"
  /\ buffer = << >>
  /\ gameID = "unset"
  /\ isPlayer = FALSE
  /\ called = "none"
  /\ replies = << >>
  /\ texts = 0
  /\ gone = FALSE
  /\ terminated = FALSE

(* What browsers send. *)

Says(type, method, members) ==
  [shape |-> "object", type |-> type, method |-> method, members |-> members]

\* player.js and scoreboard.js.  The room number may be NaN, sent as null.
PageTexts ==
  {Says("player", "gameInit", {"roomNumber", "username"}),
   Says("player", "gameInit", {"username"}),
   Says("player", "startGame", {}),
   Says("player", "giveAnswer", {"answer", "int"}),
   Says("scoreboard", "gameInit", {}),
   Says("scoreboard", "getScores", {})}

\* Other clients.
OddTexts ==
  {[Says("none", "none", {}) EXCEPT !.shape = shape] : shape \in {"garbled", "value"}}
  \cup {Says(type, method, {}) :
          type \in {"none", "unknown", "player", "scoreboard"}, method \in {"none", "unknown"}}
  \cup {Says("player", "gameInit", {"roomNumber"}),
        Says("player", "giveAnswer", {}),
        Says("player", "giveAnswer", {"answer"})}

-------------------------------------------------------------------------------
(* handle_request.  Each handler is an action on what the session keeps.    *)

Post(call, posted) == called' = call /\ replies' = posted

Silent(call) ==
  /\ Post(call, << >>)
  /\ UNCHANGED <<gameID, isPlayer, terminated>>

Refuse ==
  /\ Post("none", <<"Bad json file given">>)
  /\ UNCHANGED <<gameID, isPlayer, terminated>>

\* An assertion of rapidjson fails.
Terminate ==
  /\ terminated' = TRUE
  /\ Post("none", << >>)
  /\ UNCHANGED <<gameID, isPlayer>>

(* A faulty variant, to check that the properties notice it.                *)

\* the room is taken over before the name is looked at
Login_RoomFirst(members) ==
  IF "roomNumber" \notin members THEN Refuse
  ELSE /\ gameID' = "room"
       /\ UNCHANGED terminated
       /\ IF "username" \notin members
            THEN Post("none", <<"Bad json file given">>) /\ UNCHANGED isPlayer
            ELSE /\ isPlayer' = TRUE
                 /\ Post("addPlayer", <<"status">>)

\* gameInit of a player, in the room of the game or another.
Login(members) ==
  IF {"roomNumber", "username"} \subseteq members
    THEN /\ gameID' = "room"
         /\ \/ isPlayer' = TRUE  /\ Post("addPlayer", <<"status">>)
            \/ isPlayer' = FALSE /\ Post("none", <<"Invalid ID", "status">>)
         /\ UNCHANGED terminated
    ELSE Refuse

\* GetInt of a number that is no int fails an assertion or yields some int.
Answer(members) ==
  \/ "answer" \notin members /\ Refuse
  \/ "answer" \in members /\ Silent("playerAnswered")
  \/ "answer" \in members /\ "int" \notin members /\ Terminate

PlayerRequest(text) ==
  CASE text.method = "none"       -> Refuse
    [] text.method = "gameInit"   -> Login(text.members)
    [] text.method = "startGame"  -> Silent("startGame")
    [] text.method = "giveAnswer" -> Answer(text.members)
    [] OTHER                      -> Silent("none")

CreateGame ==
  /\ gameID' = "created"
  /\ Post("createGame", <<"status">>)
  /\ UNCHANGED <<isPlayer, terminated>>

SendScores ==
  /\ Post("none", <<"scores">>)
  /\ UNCHANGED <<gameID, isPlayer, terminated>>

ScoreboardRequest(text) ==
  CASE text.method = "none"      -> Refuse
    [] text.method = "gameInit"  -> CreateGame
    [] text.method = "getScores" -> SendScores
    [] OTHER                     -> Silent("none")

\* HasMember of a value that is no object fails an assertion or finds nothing.
HandleRequest(text) ==
  \/ text.shape = "value" /\ Terminate
  \/ IF text.shape # "object" THEN Refuse
     ELSE CASE text.type = "player"     -> PlayerRequest(text)
            [] text.type = "scoreboard" -> ScoreboardRequest(text)
            [] OTHER                    -> Refuse

-------------------------------------------------------------------------------
(* The read loop. *)

\* do_accept
Accept ==
  /\ reading = "none"
  /\ reading' = "accept"
  /\ UNCHANGED <<buffer, sessionVars, texts, gone, terminated>>

\* on_accept
OnAccept ==
  /\ reading = "accept"
  /\ reading' = "read"
  /\ UNCHANGED <<buffer, sessionVars, texts, gone, terminated>>

\* on_read with a text: the beginning.
OnRead ==
  /\ reading = "read"
  /\ ~gone
  /\ texts < MaxTexts
  /\ \E text \in PageTexts \cup OddTexts : buffer' = Append(buffer, text)
  /\ reading' = "handle"
  /\ texts' = texts + 1
  /\ UNCHANGED <<sessionVars, gone, terminated>>

\* ... the buffer is not emptied (a faulty variant)
Handle_KeepsBuffer ==
  /\ reading = "handle"
  /\ HandleRequest(Head(buffer))
  /\ reading' = "read"
  /\ UNCHANGED <<buffer, texts, gone>>

\* ... handle_request, the buffer emptied, and the next read.
Handle ==
  /\ reading = "handle"
  /\ HandleRequest(Head(buffer))
  /\ buffer' = << >>
  /\ reading' = "read"
  /\ UNCHANGED <<texts, gone>>

\* on_accept or on_read with an error: closed by the browser, or by the timer
\* of the stream: 30 s for the handshake, 300 s without a word of the browser,
\* who answers pings as long as it is there.
Fails ==
  /\ reading \in {"accept", "read"}
  /\ reading' = "over"
  /\ UNCHANGED <<buffer, sessionVars, texts, gone, terminated>>

Timeout == gone /\ Fails

\* The browser goes: out of range, out of power.
Go ==
  /\ ~gone
  /\ gone' = TRUE
  /\ UNCHANGED <<reading, buffer, sessionVars, texts, terminated>>

-------------------------------------------------------------------------------
(* Properties *)

\* A text answered with "Bad json file given" has changed nothing, whichever
\* of its members it was refused for: the session is in no other room than
\* before and the game was not called.
BadTextChangesNothing ==
  [][reading = "handle" /\ replies' = <<"Bad json file given">> /\ reading' # "handle"
       => UNCHANGED <<gameID, isPlayer>> /\ called' = "none"]_vars

===============================================================================
