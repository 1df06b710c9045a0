------------------------------ MODULE TgClient ------------------------------
(***************************************************************************)
(* One chat of the Telegram client: the coroutine clientEntry with the     *)
(* tasks it awaits, the queue and the event that resume it, its pending    *)
(* read, and the stream from its thread in the server (tg_client/).        *)
(*                                                                         *)
(* Two threads share it.  The long-poll thread ("poll") hands the user's   *)
(* messages to the chat and blocks in the coroutine's own reads.  The io   *)
(* thread ("io") runs the handler of the pending read.  Each resumes the   *)
(* coroutine on its own stack, until the coroutine suspends again.  Both   *)
(* read the socket, a message in two parts: its length and its body.       *)
(***************************************************************************)
EXTENDS Integers, Sequences, FiniteSets, Functions

CONSTANT MaxInfos  \* InfoMessages that a connection brings besides the query

ASSUME TgClientAssumption == MaxInfos \in Nat

VARIABLES
  place,       \* where clientEntry stands, or the task it awaits
  by,          \* the thread that is running the coroutine, or "none"
  isLeader,    \* clientEntry's isLeader
  queue,       \* how many of the user's messages MessageQueue::queue_ holds
  m_awaiter,   \* the frame MessageQueue::m_awaiter points to
  e_awaiter,   \* the frame SignallingEvent::e_awaiter points to
  flag,        \* SignallingEvent::flag
  reads,       \* async_reads of subscribeToInfo that still wait for a header
  taken,       \* who has the length of the first message and not its body;
               \* "torn" once somebody has taken bytes of a body for a length
  handler,     \* what the io thread is in the middle of
  inbox,       \* what the server has sent and nobody has read
  server,      \* where the connection's thread in the server stands
  infos,       \* InfoMessages the server may still send
  uninvited,   \* the user has written something no prompt asked for
  hasty,       \* the user has answered before the coroutine awaits an answer
  quit,        \* the user has sent "/quit"
  fault        \* why the process has died, "none" while it runs

frame == <<place, by, isLeader>>
awaiters == <<queue, m_awaiter, e_awaiter, flag>>
socket == <<reads, taken, handler>>
stream == <<inbox, server, infos>>
user == <<uninvited, hasty, quit>>
vars == <<frame, awaiters, socket, stream, user, fault>>

(* The coroutine's places from its arrival in the loop of turns on.        *)
Asking == {"prompted", "register"}
InLoop == {"loop", "suspend", "event", "prompt", "action"} \cup Asking
AckPlaces == {"request", "create", "startAck"}
Places == {"none", "command", "garbage"} \cup AckPlaces \cup InLoop
Messages == {"info", "break", "existing", "new", "created", "failed", "started", "eof"}

(* A new frame's queue, event and socket.                                  *)
Fresh ==
  /\ queue' = 0 /\ flag' = FALSE /\ e_awaiter' = "null"
  /\ reads' = 0 /\ taken' = "nobody" /\ inbox' = <<>>
  /\ isLeader' = FALSE /\ infos' = MaxInfos

Init ==
  /\ place = "none" /\ by = "none" /\ isLeader = FALSE
  /\ queue = 0 /\ flag = FALSE /\ m_awaiter = "null" /\ e_awaiter = "null"
  /\ reads = 0 /\ taken = "nobody" /\ handler = "idle"
  /\ inbox = <<>> /\ server = "none" /\ infos = MaxInfos
  /\ uninvited = FALSE /\ hasty = FALSE /\ quit = FALSE
  /\ fault = "none"

Alive == fault = "none"

Die(why) ==
  /\ fault' = why
  /\ UNCHANGED <<frame, awaiters, socket, stream>>
-----------------------------------------------------------------------------
(***************************************************************************)
(* The server's end of the stream, as module Lobby and module Game have    *)
(* it: what its thread sends next, and where that leaves the thread.       *)
(***************************************************************************)
(* The acks of a random join.                                              *)
RequestReplies ==
  {<<"joining", "new", "creating">>, <<"creating", "created", "leading">>,
   <<"entered", "existing", "member">>}

(* The acks of a StartGameMsg.                                             *)
StartReplies == {<<"starting", "failed", "leading">>, <<"starting", "started", "first">>}

UnansweredQuery == {<<"first", "break", "first">>}

(* The one turn is the leader's, player 0.  requestQuery then waits for a  *)
(* response, which the client does not send yet.                           *)
TurnQuery == {<<"first", "break", "asked">>}

Send(from, msg, to) ==
  /\ Alive /\ server = from /\ server' = to
  /\ inbox' = Append(inbox, msg)
  /\ UNCHANGED <<frame, awaiters, socket, user, fault>>

Reply ==
  /\ \E r \in RequestReplies \cup StartReplies : Send(r[1], r[2], r[3])
  /\ UNCHANGED infos

Ask == (\E r \in TurnQuery : Send(r[1], r[2], r[3])) /\ UNCHANGED infos

(* Other threads broadcast to whoever is in the session, acked or not; the *)
(* session ends with its leader, the game with any of its players.         *)
Informed == {"entered", "creating", "member", "leading", "starting", "first", "playing"}

Inform ==
  /\ infos > 0 /\ infos' = infos - 1
  /\ \E at \in Informed : Send(at, "info", at)

Hangup == \E at \in {"member", "first", "playing"} : Send(at, "eof", "closed") /\ UNCHANGED infos

(* The joiner's Player is in the session; the leader has started the game. *)
EnterSession ==
  /\ Alive /\ server = "joining" /\ server' = "entered"
  /\ UNCHANGED <<frame, awaiters, socket, inbox, infos, user, fault>>

EnterGame ==
  /\ Alive /\ server = "member" /\ server' = "playing"
  /\ UNCHANGED <<frame, awaiters, socket, inbox, infos, user, fault>>
-----------------------------------------------------------------------------
(***************************************************************************)
(* The primitives.                                                         *)
(***************************************************************************)

(* handle.resume() on clientEntry by thread t, with q messages queued: the *)
(* await it is suspended at takes what it waits for, whoever resumed it.   *)
(* Resuming a frame that runs, or popping an empty queue, is undefined.    *)
Resume(t, q) ==
  \/ /\ by = "none" /\ place = "event"
     /\ flag' = FALSE /\ queue' = q
     /\ place' = "prompt" /\ by' = t
     /\ UNCHANGED <<m_awaiter, e_awaiter, isLeader, fault>>
  \/ /\ by = "none" /\ place = "action" /\ q > 0
     /\ flag' = IF t = "io" THEN TRUE ELSE flag
     /\ queue' = q - 1
     /\ place' = "loop" /\ by' = t
     /\ UNCHANGED <<m_awaiter, e_awaiter, isLeader, fault>>
  \/ /\ by # "none" \/ (place = "action" /\ q = 0)
     /\ fault' = IF by # "none" THEN "twice" ELSE "empty"
     /\ UNCHANGED <<frame, awaiters>>

(* SignallingEvent::set.                                                   *)
Set ==
  \/ flag /\ fault' = "assert" /\ UNCHANGED <<frame, awaiters>>
  \/ /\ ~flag /\ e_awaiter = "null" /\ flag' = TRUE
     /\ UNCHANGED <<frame, queue, m_awaiter, e_awaiter, fault>>
  \/ ~flag /\ e_awaiter # "null" /\ Resume("io", queue)
-----------------------------------------------------------------------------
(***************************************************************************)
(* ChatSessions: the long-poll thread hands over a message of the user.    *)
(***************************************************************************)

(* createNewSession, and passMessage takes clientEntry from its first      *)
(* co_await to the request it sends and the ack it waits for.  (A failed   *)
(* connect or greeting ends the new coroutine and changes nothing else.)   *)
FirstMessage ==
  /\ Alive /\ place = "none"
  /\ Fresh
  /\ m_awaiter' = "entry"
  /\ place' = "request" /\ by' = "poll" /\ server' = "joining"
  /\ UNCHANGED <<handler, user, fault>>

(* cancel() ends a read that still waits, and no other.                    *)
KeepRead == UNCHANGED reads

CancelRead == reads' = 0

(* "/start" at the leader's prompt: waitUntilStartCommand ends, its read   *)
(* is cancelled and StartGameMsg is sent.  Anything else repeats the       *)
(* prompt and changes nothing.                                             *)
StartCommand ==
  /\ Alive /\ place = "command"
  /\ place' = "startAck" /\ by' = "poll"
  /\ CancelRead
  /\ server' = "starting"
  /\ UNCHANGED <<isLeader, awaiters, taken, handler, inbox, infos, user, fault>>

(* A message at any other place: pushMessage resumes the frame that waited *)
(* for a message last.  waitUntilStartCommand's is gone once it has ended. *)
ChatMessage ==
  /\ Alive /\ place \in InLoop /\ by # "poll"
  /\ uninvited' = (uninvited \/ place \notin {"action"} \cup Asking)
  /\ hasty' = (hasty \/ place \in Asking)
  /\ \/ m_awaiter = "task" /\ fault' = "dangling" /\ UNCHANGED <<frame, awaiters>>
     \/ m_awaiter = "entry" /\ Resume("poll", queue + 1)
  /\ UNCHANGED <<socket, stream, quit>>

(* deleteSession destroys the frame with its socket, event and queue.  A   *)
(* waiting read is aborted and its handler only logs that; a handler that  *)
(* has its header goes on with what it refers to.                          *)
Destroy ==
  /\ Fresh
  /\ m_awaiter' = "null"
  /\ place' = "none" /\ by' = "none" /\ server' = "none"
  /\ handler' = IF taken = "io" \/ handler = "resubscribe" THEN "orphan" ELSE handler

Quit ==
  /\ Alive /\ place # "none" /\ by # "poll"
  /\ quit' = TRUE /\ UNCHANGED <<uninvited, hasty>>
  /\ \/ by = "none" /\ Destroy /\ UNCHANGED fault
     \/ by = "io" /\ Die("dangling")
-----------------------------------------------------------------------------
(***************************************************************************)
(* The coroutine on the long-poll thread: readBytes takes the next message *)
(* for the ack that is due, its length first and then its body.            *)
(***************************************************************************)

(* Bytes of a body taken for a length: the io thread dies of what it       *)
(* parses, or never gets the rest of its body.                             *)
Tear == taken' = "torn" /\ handler' = "dead"

ReadLength ==
  /\ Alive /\ by = "poll" /\ place \in AckPlaces /\ inbox # <<>>
  /\ \/ taken = "nobody" /\ Head(inbox) # "eof" /\ taken' = "poll" /\ UNCHANGED handler
     \/ taken = "io" /\ Tear
  /\ UNCHANGED <<frame, awaiters, reads, stream, user, fault>>

ReadBody(at, msg) ==
  /\ Alive /\ by = "poll" /\ taken = "poll"
  /\ place = at /\ Head(inbox) = msg
  /\ inbox' = Tail(inbox) /\ taken' = "nobody"

ReadAck(at, msg) ==
  /\ ReadBody(at, msg)
  /\ UNCHANGED <<queue, e_awaiter, flag, handler, server, infos, user, fault>>

GoOnUnsubscribed == place' = "loop" /\ UNCHANGED <<by, isLeader, m_awaiter, reads>>

(* subscribeToInfo, and on to the loop of turns.                           *)
SubscribeAndGoOn ==
  /\ reads' = reads + 1
  /\ place' = "loop"
  /\ UNCHANGED <<by, isLeader, m_awaiter>>

(* leaderTask subscribes and awaits waitUntilStartCommand.                 *)
AwaitStartCommand ==
  /\ reads' = reads + 1
  /\ place' = "command" /\ by' = "none"
  /\ m_awaiter' = "task"
  /\ UNCHANGED isLeader

JoinedExisting == ReadAck("request", "existing") /\ SubscribeAndGoOn

JoinedNew ==
  /\ ReadAck("request", "new")
  /\ place' = "create" /\ isLeader' = TRUE
  /\ UNCHANGED <<by, m_awaiter, reads>>

SessionCreated == ReadAck("create", "created") /\ AwaitStartCommand

StartFailed == ReadAck("startAck", "failed") /\ AwaitStartCommand

StartSucceeded == ReadAck("startAck", "started") /\ SubscribeAndGoOn

(* Another message parses as an ack without text, which Telegram refuses   *)
(* to send.  Promise swallows the exception, and clientEntry is done.      *)
MisreadAck ==
  /\ Alive /\ by = "poll" /\ taken = "poll"
  /\ place \in {"request", "create"} /\ Head(inbox) = "info"
  /\ Destroy
  /\ UNCHANGED <<user, fault>>

(* It swallows leaderTask's as well: clientEntry takes it for finished and *)
(* goes on.  A closed connection throws, and bytes of anything may.        *)
LeaderTaskFails ==
  /\ Alive /\ by = "poll"
  /\ \/ \E msg \in Messages \ {"failed", "started"} : ReadBody("startAck", msg)
     \/ /\ place = "startAck" /\ taken = "nobody"
        /\ inbox # <<>> /\ Head(inbox) = "eof"
        /\ UNCHANGED <<inbox, taken>>
     \/ /\ taken = "torn"
        /\ place = "startAck" \/ (place = "garbage" /\ "eof" \in Range(inbox))
        /\ UNCHANGED <<inbox, taken>>
  /\ place' = "loop"
  /\ UNCHANGED <<by, isLeader, awaiters, reads, handler, server, infos, user, fault>>

(* The thread waits for as many bytes as the torn stream said.             *)
ReadTorn ==
  /\ Alive /\ by = "poll" /\ place = "startAck" /\ taken = "torn"
  /\ place' = "garbage"
  /\ UNCHANGED <<by, isLeader, awaiters, socket, stream, user, fault>>
-----------------------------------------------------------------------------
(***************************************************************************)
(* The loop of turns, on whichever thread has resumed the coroutine.       *)
(***************************************************************************)

(* co_await clientEvent: await_ready, and then await_suspend.              *)
CheckSignal ==
  /\ Alive /\ place = "loop"
  /\ place' = IF flag THEN "prompt" ELSE "suspend"
  /\ flag' = FALSE
  /\ UNCHANGED <<by, isLeader, queue, m_awaiter, e_awaiter, socket, stream, user, fault>>

SuspendOnEvent ==
  /\ Alive /\ place = "suspend"
  /\ place' = "event" /\ by' = "none"
  /\ e_awaiter' = "entry"
  /\ UNCHANGED <<isLeader, queue, m_awaiter, flag, socket, stream, user, fault>>

(* The user can see the prompt and answer it from here on.                 *)
PromptAction ==
  /\ Alive /\ place = "prompt"
  /\ place' = "prompted"
  /\ UNCHANGED <<by, isLeader, awaiters, socket, stream, user, fault>>

(* co_await msgQueue: await_ready, and then await_suspend.                 *)
AwaitUnlooked == place' = "register" /\ UNCHANGED queue

PopUnlooked == place' = "loop" /\ queue' = queue - 1

TakeAction ==
  \/ queue = 0 /\ place' = "register" /\ UNCHANGED queue
  \/ queue > 0 /\ place' = "loop" /\ queue' = queue - 1

CheckQueue ==
  /\ Alive /\ place = "prompted"
  /\ TakeAction
  /\ UNCHANGED <<by, isLeader, m_awaiter, e_awaiter, flag, socket, stream, user, fault>>

AwaitUnregistered ==
  /\ place' = "action" /\ by' = "none"
  /\ UNCHANGED m_awaiter

AwaitAction == place' = "action" /\ by' = "none" /\ m_awaiter' = "entry"

SuspendOnAction ==
  /\ Alive /\ place = "register"
  /\ AwaitAction
  /\ UNCHANGED <<isLeader, queue, e_awaiter, flag, socket, stream, user, fault>>
-----------------------------------------------------------------------------
(***************************************************************************)
(* The io thread and the handler that subscribeToInfo leaves with it.      *)
(***************************************************************************)
Polling == Alive /\ handler = "idle" /\ by # "io"

(* A waiting read gets its length, or the end of the stream, on which its  *)
(* handler gives up; or it takes bytes of a body that is being read.       *)
TakeHeader ==
  /\ Polling /\ reads > 0 /\ inbox # <<>>
  /\ reads' = reads - 1
  /\ \/ /\ taken = "nobody"
        /\ taken' = IF Head(inbox) = "eof" THEN "nobody" ELSE "io"
        /\ UNCHANGED handler
     \/ taken \in {"io", "poll"} /\ Tear
  /\ UNCHANGED <<frame, awaiters, stream, user, fault>>

(* The body decides: forward an InfoMessage and subscribe again, or set    *)
(* the event.  An ack parses as an InfoMessage without text, which         *)
(* Telegram refuses: the exception ends the io thread.                     *)
ForgetToResubscribe(msg) ==
  IF msg = "break" THEN Set /\ UNCHANGED handler ELSE UNCHANGED <<handler, frame, awaiters, fault>>

SignalAlways(msg) == Set /\ UNCHANGED handler

HandleInfo(msg) ==
  IF msg = "break" THEN Set /\ UNCHANGED handler
    ELSE /\ handler' = IF msg = "info" THEN "resubscribe" ELSE "dead"
         /\ UNCHANGED <<frame, awaiters, fault>>

RunHandler ==
  /\ Polling /\ taken = "io"
  /\ taken' = "nobody" /\ inbox' = Tail(inbox)
  /\ HandleInfo(Head(inbox))
  /\ UNCHANGED <<reads, server, infos, user>>

Resubscribe ==
  /\ Alive /\ handler = "resubscribe"
  /\ handler' = "idle" /\ reads' = reads + 1
  /\ UNCHANGED <<frame, awaiters, taken, stream, user, fault>>

(* The chat was deleted under the handler.                                 *)
RunOrphan ==
  /\ Alive /\ handler = "orphan"
  /\ Die("dangling") /\ UNCHANGED user
-----------------------------------------------------------------------------
User == FirstMessage \/ StartCommand \/ ChatMessage \/ Quit

ReadAcks ==
  \/ ReadLength \/ JoinedExisting \/ JoinedNew \/ SessionCreated
  \/ StartFailed \/ StartSucceeded \/ MisreadAck \/ LeaderTaskFails \/ ReadTorn

Turns ==
  CheckSignal \/ SuspendOnEvent \/ PromptAction \/ CheckQueue \/ SuspendOnAction

Handlers == TakeHeader \/ RunHandler \/ Resubscribe \/ RunOrphan

Server == Inform \/ Ask \/ Hangup \/ EnterSession \/ EnterGame

(* The long-poll thread waits for an ack that the io thread has taken, or  *)
(* for the bytes of a torn stream.                                         *)
Hung == by = "poll" /\ handler = "dead" /\ place \in {"startAck", "garbage"}

Finished == (~Alive \/ Hung) /\ UNCHANGED vars

Next == User \/ ReadAcks \/ Turns \/ Handlers \/ Reply \/ Server \/ Finished

Spec == Init /\ [][Next]_vars

(* Both threads are scheduled, and the server answers what it is asked: a  *)
(* joining thread always ends (Lobby's JoinerThreadsEnd).                  *)
FairSpec ==
  /\ Spec
  /\ WF_vars(ReadAcks) /\ WF_vars(Turns) /\ WF_vars(Handlers)
  /\ WF_vars(Reply \/ EnterSession)
-----------------------------------------------------------------------------
(***************************************************************************)
(* Properties.                                                             *)
(***************************************************************************)

(* Every variable keeps its type.                                          *)
TypeOK ==
  /\ place \in Places /\ by \in {"none", "poll", "io"} /\ isLeader \in BOOLEAN
  /\ queue \in Nat /\ flag \in BOOLEAN
  /\ m_awaiter \in {"null", "entry", "task"} /\ e_awaiter \in {"null", "entry"}
  /\ reads \in Nat /\ taken \in {"nobody", "io", "poll", "torn"}
  /\ handler \in {"idle", "resubscribe", "orphan", "dead"}
  /\ inbox \in Seq(Messages)
  /\ server \in {"none", "joining", "entered", "creating", "member", "leading",
                 "starting", "first", "playing", "asked", "closed"}
  /\ infos \in Nat
  /\ uninvited \in BOOLEAN /\ hasty \in BOOLEAN /\ quit \in BOOLEAN
  /\ fault \in {"none", "dangling", "twice", "empty", "assert"}

(* No message waits in the queue while the coroutine waits as well: what   *)
(* the user writes is taken by somebody, though handles to resume are      *)
(* never cleared and an await looks at the queue before it registers.      *)
NoMessageWaits == queue > 0 /\ Alive => by # "none"

(* The asynchronous reads under way, from subscribeToInfo to the end of    *)
(* their handlers.                                                         *)
Readers ==
  reads + (IF taken = "io" THEN 1 ELSE 0) + (IF handler = "resubscribe" THEN 1 ELSE 0)

(* "All execution traces that lead to here have the socket subscribing to  *)
(* the info messages": in the loop of turns one read is under way until    *)
(* the query of the turn or the end of the stream uses it up, and never    *)
(* two: for a joiner, and for a leader that no InfoMessage can have met    *)
(* while it starts the game.                                               *)
Undisturbed == ~isLeader \/ infos = MaxInfos

SubscribedInLoop ==
  Alive /\ place \in InLoop /\ Undisturbed =>
    Readers <= 1 /\ (server \notin {"asked", "closed"} => Readers = 1)

(* "if there is a coroutine waiting for a message": a user that writes     *)
(* nothing but answers to prompts cannot bring the process down.           *)
AnswersAreSafe == ~uninvited /\ ~quit => fault = "none"

(* Nor can one whose answers come when the coroutine awaits them and that  *)
(* writes nothing else but "Enter /quit anytime to exit", unless the io    *)
(* thread is in the middle of a message or of the coroutine: no handle of  *)
(* a frame that is gone is resumed, no two threads run the coroutine, no   *)
(* signal is set twice, no read that still waits does harm.                *)
PatientUserIsSafe ==
  ~uninvited /\ ~hasty /\ ~Alive => quit /\ (handler = "orphan" \/ by = "io")

(* set()'s assertion never fails and no empty queue is popped, whatever    *)
(* the user writes: one signal is consumed before the next can come.       *)
SignalsConsumed == fault \notin {"assert", "empty"}

(* "wait for the signal that it is my turn": the user is asked for an      *)
(* action only while the server waits for one.                             *)
PromptedInTurn ==
  Alive /\ place \in {"prompt", "action"} \cup Asking => server = "asked"

(* The same as long as the user has written nothing but answers and quits. *)
PolitePromptedInTurn == ~uninvited => PromptedInTurn

(* The long-poll thread serves every chat: it never stays in the reads of  *)
(* one, unless InfoMessages have come and a start command meets a handler  *)
(* in the middle of one, which may take the ack or its bytes.              *)
AwaitsItsAck ==
  place \in {"startAck", "garbage"} =>
    infos = MaxInfos \/ (Readers = 0 /\ handler # "dead")

LongPollReturns == (by = "poll" /\ AwaitsItsAck) ~> (by # "poll" \/ ~Alive)

(* The query of the turn reaches the leader that has a read under way, be- *)
(* hind any number of InfoMessages, unless the signal is set between the   *)
(* look at the flag and the wait, or two reads tear the stream apart.      *)
WaitsForTurn == place \in InLoop /\ Readers > 0 /\ "break" \in Range(inbox)

TurnReachesUser ==
  WaitsForTurn ~> (place = "action" \/ (place = "suspend" /\ flag)
                  \/ handler = "dead" \/ uninvited \/ quit \/ ~Alive)
=============================================================================
