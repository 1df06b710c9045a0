-------------------------------- MODULE Lobby --------------------------------
(***************************************************************************)
(* The game server's lobby: the registry of sessions and the threads that  *)
(* create, join, start and close them (hanabi_game/src/server.cpp,         *)
(* handle_client_helpers.cpp and session.cpp).                             *)
(*                                                                         *)
(* Every accepted connection c gets a detached thread running              *)
(* handle_client, so one identifier stands for the client, its socket (the *)
(* Player built on it) and its thread.  A Session object is named after    *)
(* the thread that put it into the map; a thread puts in at most one.      *)
(*                                                                         *)
(* Time is cut at the statements where another thread can get in between:  *)
(* at each lock and unlock, and at each access that takes no lock.         *)
(***************************************************************************)
EXTENDS Integers, Sequences, FiniteSets, Functions

CONSTANTS
  Clients,     \* the connections the server accepts during the run
  MaxPlayers,  \* Session::maxPlayers, 5 in the code
  AskIds,      \* session ids that clients ask to join
  NoOne        \* "no thread", "no object"

ASSUME LobbyAssumption ==
  /\ IsFiniteSet(Clients)
  /\ NoOne \notin Clients
  /\ MaxPlayers \in Nat \ {0}
  /\ AskIds \subseteq Nat

VARIABLES
  pc,              \* where each thread stands
  op,              \* the operation in its NewConnection message
  session_id,      \* its local session_id / sessionId
  session,         \* the Session its reference or its Player& lies in
  player_socket,   \* create_session's reference to the leader's socket
  sessions,        \* the map: registered id -> Session object
  players,         \* Session::players of each object (empty once moved out)
  numPlayers,      \* Session::numPlayers of each object
  game,            \* Game::players of the game a thread has built
  sessions_mutex,  \* holder of the registry's mutex
  session_mutex,   \* holder of each object's own mutex
  gone,            \* clients that have closed their end of the connection
  starts,          \* clients whose StartGameMsg is not yet read
  acked,           \* clients that were sent the success ack of their request
  early,           \* clients that were sent an InfoMessage before that ack
  fault            \* why the process has died, "none" while it runs

threadVars == <<op, session_id, session, player_socket>>
objectVars == <<sessions, players, numPlayers>>
lockVars   == <<sessions_mutex, session_mutex>>
clientVars == <<gone, starts>>
sentVars   == <<acked, early>>
vars == <<pc, threadVars, objectVars, game, lockVars, clientVars, sentVars, fault>>

PCs == {"idle", "greet", "request", "create", "created", "ack", "wait",
        "invalidate", "closing", "eraseQuit", "announce", "build", "eraseStart", "play",
        "turn", "join", "random", "emplace", "joinAck", "notify", "done"}

Faults == {"none", "terminate", "assert", "dangling", "race", "bounds"}

Init ==
  /\ pc = [c \in Clients |-> "idle"]
  /\ op = [c \in Clients |-> "none"]
  /\ session_id = [c \in Clients |-> 0]
  /\ session = [c \in Clients |-> NoOne]
  /\ player_socket = [c \in Clients |-> NoOne]
  /\ sessions = [id \in {} |-> NoOne]
  /\ players = [o \in Clients |-> <<>>]
  /\ numPlayers = [o \in Clients |-> 0]
  /\ game = [c \in Clients |-> <<>>]
  /\ sessions_mutex = NoOne
  /\ session_mutex = [o \in Clients |-> NoOne]
  /\ gone = {} /\ starts = {}
  /\ acked = {} /\ early = {}
  /\ fault = "none"
-----------------------------------------------------------------------------
(***************************************************************************)
(* Helpers.                                                                *)
(***************************************************************************)

(* Thread c moves on; nothing moves in a process that has died.            *)
Step(c, from, to) ==
  /\ fault = "none"
  /\ pc[c] = from
  /\ pc' = [pc EXCEPT ![c] = to]

Registered(id) == id \in DOMAIN sessions

(* The Session object o is still in the map, hence not yet destroyed.      *)
Live(o) == \E id \in DOMAIN sessions : sessions[id] = o

(* The Player object of client p still exists in a session's or a game's   *)
(* vector.  A Game takes over the vector's buffer, so a reference to the   *)
(* Player stays good while that game lives.                                *)
PlayerAlive(p) ==
  \E o \in Clients : p \in Range(players[o]) \/ p \in Range(game[o])

(* The server still owns the socket of c: it is a local of handle_client   *)
(* or belongs to a Player that exists.                                     *)
SocketOpen(c) ==
  \/ pc[c] \in {"greet", "request", "create", "join", "random", "emplace"}
  \/ PlayerAlive(c)

(* sendBytes throws when the peer's reset has come back and succeeds while *)
(* it has not.  No thread but one in Game::start catches, and that one     *)
(* broadcasts again to the same sockets: the exception ends the process.   *)
SendOutcomes(S) == IF S \cap gone = {} THEN {"none"} ELSE {"none", "terminate"}

(* The build runs under -fsanitize=address: using a destroyed object ends  *)
(* the process.                                                            *)
Deref(valid, outcomes) == IF valid THEN outcomes ELSE {"dangling"}

(* A game is about to take the vector of o, without a lock.                *)
Moving(o) == \E d \in Clients : pc[d] = "build" /\ session[d] = o

(* A broadcast walks over a vector that a game may take at the same time.  *)
BroadcastOutcomes(o) ==
  SendOutcomes(Range(players[o])) \cup (IF Moving(o) THEN {"race"} ELSE {})

(* An InfoMessage to every client of S.                                    *)
Inform(S) ==
  /\ early' = early \cup (S \ acked)
  /\ UNCHANGED acked

(* Session::join refuses when the session has no vector (moved out or      *)
(* never filled) or is full.  is_socket_connected(players[0]) is is_open() *)
(* of a socket this process has not closed, so it never refuses.           *)
FullLate(o) == numPlayers[o] > MaxPlayers
Full(o) == numPlayers[o] >= MaxPlayers

JoinableUnled(o) == ~Full(o)
Joinable(o) == players[o] # <<>> /\ ~Full(o)

(* create_session's id for the next session: sessions.size().              *)
IdBeforeFirst == Cardinality(DOMAIN sessions) - 1
LastId == IF DOMAIN sessions = {} THEN 0 ELSE Cardinality(DOMAIN sessions) - 1
NewId == Cardinality(DOMAIN sessions)

Insert(id, o) ==
  sessions' = [i \in DOMAIN sessions \cup {id} |-> IF i = id THEN o ELSE sessions[i]]

(* Thread d can change the map right now.                                  *)
WritesMap(d) ==
  \/ /\ sessions_mutex = NoOne
     /\ \/ pc[d] = "create" /\ ~Registered(NewId)
        \/ pc[d] \in {"eraseQuit", "eraseStart"} /\ Registered(session_id[d])
  \/ sessions_mutex = d /\ pc[d] = "notify" /\ ~Registered(session_id[d])

(* The mutex of o is free, or gone with o: locking it is then a use of a   *)
(* destroyed object and waits for nobody.                                  *)
CanLock(o) == session_mutex[o] = NoOne \/ ~Live(o)

(* Where a thread needs a session's mutex under the registry's.            *)
NestingPCs == {"join", "random", "announce", "notify"}

(* Such a thread takes the registry's mutex and may then have to wait for  *)
(* the session's with it.                                                  *)
LockRegistry(c) ==
  /\ fault = "none"
  /\ pc[c] \in NestingPCs
  /\ sessions_mutex = NoOne
  /\ sessions_mutex' = c
  /\ UNCHANGED <<pc, threadVars, objectVars, game, session_mutex, clientVars, sentVars, fault>>

(* A step of the critical section that this begins, up to its unlock.      *)
Unlocking(c) ==
  /\ sessions_mutex = c /\ sessions_mutex' = NoOne
  /\ UNCHANGED session_mutex
-----------------------------------------------------------------------------
(***************************************************************************)
(* handle_client.                                                          *)
(***************************************************************************)

(* The main thread accepts a connection and spawns its thread.             *)
Accept(c) ==
  /\ Step(c, "idle", "greet")
  /\ UNCHANGED <<threadVars, objectVars, game, lockVars, clientVars, sentVars, fault>>

Greet(c) ==
  /\ Step(c, "greet", "request")
  /\ fault' \in SendOutcomes({c})
  /\ UNCHANGED <<threadVars, objectVars, game, lockVars, clientVars, sentVars>>

(* The client hung up or sent something that does not parse.               *)
DropRequest(c) ==
  /\ Step(c, "request", "done")
  /\ UNCHANGED <<threadVars, objectVars, game, lockVars, clientVars, sentVars, fault>>

(* Any operation but the first two is a random join.                       *)
ReadRequest(c) ==
  \E o \in {"create", "join", "random"} :
    /\ Step(c, "request", o)
    /\ op' = [op EXCEPT ![c] = o]
    /\ IF o = "join"
         THEN \E id \in AskIds : session_id' = [session_id EXCEPT ![c] = id]
         ELSE UNCHANGED session_id
    /\ UNCHANGED <<session, player_socket, objectVars, game, lockVars, clientVars, sentVars, fault>>
-----------------------------------------------------------------------------
(***************************************************************************)
(* create_session.                                                         *)
(***************************************************************************)

(* The id is free: the new Session, with its leader, enters the map.       *)
EmplaceSession(c) ==
  /\ Step(c, "create", "created")
  /\ sessions_mutex = NoOne
  /\ ~Registered(NewId)
  /\ Insert(NewId, c)
  /\ players' = [players EXCEPT ![c] = <<c>>]
  /\ numPlayers' = [numPlayers EXCEPT ![c] = 1]
  /\ session_id' = [session_id EXCEPT ![c] = NewId]
  /\ session' = [session EXCEPT ![c] = c]
  /\ player_socket' = [player_socket EXCEPT ![c] = c]
  /\ UNCHANGED <<op, game, lockVars, clientVars, sentVars, fault>>

(* The id is taken: emplace keeps the registered Session and drops the new *)
(* one with its leader's socket; the references bind to the registered     *)
(* one, whose getLeader asserts that its vector is not empty.              *)
ReuseSession(c) ==
  /\ Step(c, "create", "created")
  /\ sessions_mutex = NoOne
  /\ Registered(NewId)
  /\ LET o == sessions[NewId]
     IN /\ session' = [session EXCEPT ![c] = o]
        /\ IF players[o] = <<>>
             THEN fault' = "assert" /\ UNCHANGED player_socket
             ELSE /\ player_socket' = [player_socket EXCEPT ![c] = Head(players[o])]
                  /\ UNCHANGED fault
  /\ session_id' = [session_id EXCEPT ![c] = NewId]
  /\ UNCHANGED <<op, objectVars, game, lockVars, clientVars, sentVars>>

(* The debug line after unlock reads sessions[session_id] without a lock.  *)
(* operator[] would insert an empty Session for a missing id; printing a   *)
(* Session without players fails its assertion.  Looking up while another  *)
(* thread changes the map or takes the players is a data race.             *)
LogCreated(c) ==
  /\ Step(c, "created", "ack")
  /\ fault' \in
       IF ~Registered(session_id[c]) \/ players[sessions[session_id[c]]] = <<>> THEN {"assert"}
       ELSE IF (\E d \in Clients \ {c} : WritesMap(d)) \/ Moving(sessions[session_id[c]])
              THEN {"none", "race"} ELSE {"none"}
  /\ UNCHANGED <<threadVars, objectVars, game, lockVars, clientVars, sentVars>>

SendCreateAck(c) ==
  /\ Step(c, "ack", "wait")
  /\ acked' = acked \cup {player_socket[c]}
  /\ fault' \in Deref(PlayerAlive(player_socket[c]), SendOutcomes({player_socket[c]}))
  /\ UNCHANGED <<threadVars, objectVars, game, lockVars, clientVars, early>>

(* Both references that the waiting loop uses are good.                    *)
WaitRefsValid(c) == Live(session[c]) /\ PlayerAlive(player_socket[c])

AnyPlayers(o) == numPlayers[o] # 0
EnoughPlayers(o) == numPlayers[o] # 1

(* A StartGameMsg arrives and the leader is still alone.                   *)
RefuseStart(c) ==
  /\ Step(c, "wait", "wait")
  /\ player_socket[c] \in starts
  /\ WaitRefsValid(c)
  /\ ~EnoughPlayers(session[c])
  /\ starts' = starts \ {player_socket[c]}
  /\ fault' \in SendOutcomes({player_socket[c]})
  /\ UNCHANGED <<threadVars, objectVars, game, lockVars, gone, sentVars>>

AcceptStart(c) ==
  /\ Step(c, "wait", "announce")
  /\ player_socket[c] \in starts
  /\ WaitRefsValid(c)
  /\ EnoughPlayers(session[c])
  /\ starts' = starts \ {player_socket[c]}
  /\ fault' \in SendOutcomes({player_socket[c]})
  /\ UNCHANGED <<threadVars, objectVars, game, lockVars, gone, sentVars>>

(* readBytesCatch returns nothing: the leader hung up.                     *)
LoseLeader(c) ==
  /\ Step(c, "wait", "invalidate")
  /\ player_socket[c] \in gone
  /\ WaitRefsValid(c)
  /\ UNCHANGED <<threadVars, objectVars, game, lockVars, clientVars, sentVars, fault>>

(* The references died under the blocked read, which may still return.     *)
ReadStale(c) ==
  /\ Step(c, "wait", "done")
  /\ ~WaitRefsValid(c)
  /\ fault' = "dangling"
  /\ UNCHANGED <<threadVars, objectVars, game, lockVars, clientVars, sentVars>>

(* Session::invalidate and the broadcast that it calls take the session's  *)
(* mutex alone.  The registry's is free meanwhile: another thread that     *)
(* leads the same session may erase it, mutex and all.                     *)
Invalidate(c) ==
  /\ Step(c, "invalidate", "closing")
  /\ CanLock(session[c])
  /\ session_mutex' = [session_mutex EXCEPT ![session[c]] = c]
  /\ fault' \in Deref(Live(session[c]), {"none"})
  /\ UNCHANGED <<threadVars, objectVars, game, sessions_mutex, clientVars, sentVars>>

KeepSessionLocked(o) == UNCHANGED lockVars

UnlockSession(o) ==
  /\ session_mutex' = [session_mutex EXCEPT ![o] = NoOne]
  /\ UNCHANGED sessions_mutex

(* Every player is told, the lost leader included, and nothing changes:    *)
(* until the erase below the session can still be joined.                  *)
CloseSession(c) ==
  /\ Step(c, "closing", "eraseQuit")
  /\ UnlockSession(session[c])
  /\ Inform(Range(players[session[c]]))
  /\ fault' \in Deref(Live(session[c]), BroadcastOutcomes(session[c]))
  /\ UNCHANGED <<threadVars, objectVars, game, clientVars>>

(* sessions.erase(session_id): whatever Session the id names by now is     *)
(* destroyed with the sockets of the players still in its vector.          *)
EraseSession(c) ==
  /\ sessions_mutex = NoOne
  /\ IF Registered(session_id[c])
       THEN LET o == sessions[session_id[c]]
            IN /\ sessions' = Restrict(sessions, DOMAIN sessions \ {session_id[c]})
               /\ players' = [players EXCEPT ![o] = <<>>]
               /\ numPlayers' = [numPlayers EXCEPT ![o] = 0]
       ELSE UNCHANGED objectVars
  /\ UNCHANGED <<threadVars, game, lockVars, clientVars, sentVars, fault>>

QuitUnerased(c) ==
  /\ Step(c, "eraseQuit", "done")
  /\ UNCHANGED <<threadVars, objectVars, game, lockVars, clientVars, sentVars, fault>>

EraseQuit(c) == Step(c, "eraseQuit", "done") /\ EraseSession(c)

(* "Game started!", under both mutexes.                                    *)
Announce(c) ==
  /\ Step(c, "announce", "build")
  /\ Unlocking(c)
  /\ CanLock(session[c])
  /\ Inform(Range(players[session[c]]))
  /\ fault' \in Deref(Live(session[c]), BroadcastOutcomes(session[c]))
  /\ UNCHANGED <<threadVars, objectVars, game, clientVars>>

(* Game's constructor takes the vector over; numPlayers stays as it was.    *)
CopyPlayers(c) ==
  /\ game' = [game EXCEPT ![c] = players[session[c]]]
  /\ UNCHANGED players

MovePlayers(c) ==
  /\ game' = [game EXCEPT ![c] = players[session[c]]]
  /\ players' = [players EXCEPT ![session[c]] = <<>>]

(* Game's constructor moves the vector out of the Session and takes no     *)
(* lock: a join that is appending at this moment races with it.            *)
BuildGame(c) ==
  /\ Step(c, "build", "eraseStart")
  /\ MovePlayers(c)
  /\ fault' \in Deref(Live(session[c]),
                      IF session_mutex[session[c]] = NoOne THEN {"none"} ELSE {"none", "race"})
  /\ UNCHANGED <<threadVars, sessions, numPlayers, lockVars, clientVars, sentVars>>

EraseStart(c) == Step(c, "eraseStart", "play") /\ EraseSession(c)

(* Game::start up to the first query.  displayHands prints five cards of   *)
(* every hand, and more than three players hold four; players[0] of an     *)
(* empty game is out of bounds as well.                                    *)
DisplayOutcomes(c) ==
  IF Len(game[c]) \in 1..3
    THEN SendOutcomes(Range(game[c]))
    ELSE {"bounds"} \cup (SendOutcomes(Range(game[c])) \ {"none"})

StartGame(c) ==
  /\ Step(c, "play", "turn")
  /\ Inform(Range(game[c]))
  /\ fault' \in DisplayOutcomes(c)
  /\ UNCHANGED <<threadVars, objectVars, game, lockVars, clientVars>>

(* The turn is over or somebody left: the Game and its players go.         *)
EndGame(c) ==
  /\ Step(c, "turn", "done")
  /\ game' = [game EXCEPT ![c] = <<>>]
  /\ fault' \in SendOutcomes(Range(game[c]))
  /\ UNCHANGED <<threadVars, objectVars, lockVars, clientVars, sentVars>>
-----------------------------------------------------------------------------
(***************************************************************************)
(* join_session and join_random_session.                                   *)
(***************************************************************************)

(* The session asked for does not exist, is full (which is looked at       *)
(* without its mutex) or refuses.                                          *)
RefuseJoin(c) ==
  /\ Step(c, "join", "done")
  /\ Unlocking(c)
  /\ Registered(session_id[c]) =>
       LET o == sessions[session_id[c]] IN Full(o) \/ (CanLock(o) /\ ~Joinable(o))
  /\ fault' \in SendOutcomes({c})
  /\ UNCHANGED <<threadVars, objectVars, game, clientVars, sentVars>>

(* Session::join has passed its checks on the Session registered as id;    *)
(* both mutexes stay held until the Player is in the vector.               *)
JoinUnlocked(c, from, id) ==
  /\ Step(c, from, "emplace")
  /\ sessions_mutex = c
  /\ Registered(id) /\ CanLock(sessions[id])
  /\ Joinable(sessions[id])
  /\ session_mutex' = [session_mutex EXCEPT ![sessions[id]] = c]
  /\ sessions_mutex' = NoOne
  /\ session' = [session EXCEPT ![c] = sessions[id]]
  /\ session_id' = [session_id EXCEPT ![c] = id]
  /\ UNCHANGED <<op, player_socket, objectVars, game, clientVars, sentVars, fault>>

EnterJoin(c, from, id) ==
  /\ Step(c, from, "emplace")
  /\ sessions_mutex = c
  /\ Registered(id) /\ CanLock(sessions[id])
  /\ Joinable(sessions[id])
  /\ session_mutex' = [session_mutex EXCEPT ![sessions[id]] = c]
  /\ UNCHANGED sessions_mutex
  /\ session' = [session EXCEPT ![c] = sessions[id]]
  /\ session_id' = [session_id EXCEPT ![c] = id]
  /\ UNCHANGED <<op, player_socket, objectVars, game, clientVars, sentVars, fault>>

JoinSession(c) == EnterJoin(c, "join", session_id[c])

(* The map is unordered: any session that accepts may come first.          *)
JoinRandom(c) == \E id \in DOMAIN sessions : EnterJoin(c, "random", id)

(* No session accepts: tell the client and create one.                     *)
NoRandomSession(c) ==
  /\ Step(c, "random", "create")
  /\ Unlocking(c)
  /\ \A id \in DOMAIN sessions : CanLock(sessions[id]) /\ ~Joinable(sessions[id])
  /\ fault' \in SendOutcomes({c})
  /\ UNCHANGED <<threadVars, objectVars, game, clientVars, sentVars>>

(* Session::join's last lines: the Player moves in and is counted.         *)
AddUncounted(o, c) ==
  /\ players' = [players EXCEPT ![o] = Append(@, c)]
  /\ UNCHANGED numPlayers

AddUnplaced(o, c) ==
  /\ numPlayers' = [numPlayers EXCEPT ![o] = @ + 1]
  /\ UNCHANGED players

AddPlayer(o, c) ==
  /\ players' = [players EXCEPT ![o] = Append(@, c)]
  /\ numPlayers' = [numPlayers EXCEPT ![o] = @ + 1]

(* Session::join returns and lock.unlock() follows.                        *)
UnlockBoth(o) ==
  /\ sessions_mutex' = NoOne
  /\ session_mutex' = [session_mutex EXCEPT ![o] = NoOne]

EmplacePlayer(c) ==
  /\ Step(c, "emplace", "joinAck")
  /\ AddPlayer(session[c], c)
  /\ UnlockBoth(session[c])
  /\ UNCHANGED <<threadVars, sessions, game, clientVars, sentVars, fault>>

(* The joiner's Player& outlives the mutex.  join_random_session also      *)
(* keeps a reference to the id inside the map's node.                      *)
JoinRefsValid(c) == PlayerAlive(c) /\ (op[c] = "random" => Live(session[c]))

SendJoinAck(c) ==
  /\ Step(c, "joinAck", "notify")
  /\ acked' = acked \cup {c}
  /\ fault' \in Deref(JoinRefsValid(c), SendOutcomes({c}))
  /\ UNCHANGED <<threadVars, objectVars, game, lockVars, clientVars, early>>

(* broadcast and broadcast_status on whatever the id names by now.         *)
NotifySession(c) ==
  /\ Step(c, "notify", "done")
  /\ Unlocking(c)
  /\ Registered(session_id[c]) /\ CanLock(sessions[session_id[c]])
  /\ Inform(Range(players[sessions[session_id[c]]]))
  /\ fault' \in Deref(JoinRefsValid(c), BroadcastOutcomes(sessions[session_id[c]]))
  /\ UNCHANGED <<threadVars, objectVars, game, clientVars>>

(* The session was erased in the meantime: operator[] registers an empty   *)
(* Session under its id, and no thread will ever erase it.                 *)
NotifyErased(c) ==
  /\ Step(c, "notify", "done")
  /\ Unlocking(c)
  /\ ~Registered(session_id[c])
  /\ Insert(session_id[c], c)
  /\ players' = [players EXCEPT ![c] = <<>>]
  /\ numPlayers' = [numPlayers EXCEPT ![c] = 0]
  /\ fault' \in Deref(JoinRefsValid(c), {"none"})
  /\ UNCHANGED <<threadVars, game, clientVars, sentVars>>
-----------------------------------------------------------------------------
(***************************************************************************)
(* The clients.                                                            *)
(***************************************************************************)

Leave(c) ==
  /\ fault = "none"
  /\ c \notin gone /\ SocketOpen(c)
  /\ gone' = gone \cup {c}
  /\ UNCHANGED <<pc, threadVars, objectVars, game, lockVars, starts, sentVars, fault>>

(* A leader that the server listens to sends StartGameMsg; it waits for    *)
(* the answer before it sends another.                                     *)
SendStart(c) ==
  /\ fault = "none"
  /\ c \notin gone \cup starts /\ SocketOpen(c)
  /\ \E t \in Clients : pc[t] = "wait" /\ player_socket[t] = c
  /\ starts' = starts \cup {c}
  /\ UNCHANGED <<pc, threadVars, objectVars, game, lockVars, gone, sentVars, fault>>
-----------------------------------------------------------------------------
(* Steps a thread takes without waiting for its client.                    *)
ThreadStep(c) ==
  \/ Greet(c) \/ LockRegistry(c)
  \/ EmplaceSession(c) \/ ReuseSession(c) \/ LogCreated(c) \/ SendCreateAck(c)
  \/ RefuseStart(c) \/ AcceptStart(c) \/ LoseLeader(c)
  \/ Invalidate(c) \/ CloseSession(c) \/ EraseQuit(c)
  \/ Announce(c) \/ BuildGame(c) \/ EraseStart(c) \/ StartGame(c)
  \/ RefuseJoin(c) \/ JoinSession(c) \/ JoinRandom(c) \/ NoRandomSession(c)
  \/ EmplacePlayer(c) \/ SendJoinAck(c) \/ NotifySession(c) \/ NotifyErased(c)

(* Steps that wait for the client or need not happen.                      *)
ClientStep(c) ==
  \/ Accept(c) \/ DropRequest(c) \/ ReadRequest(c)
  \/ ReadStale(c) \/ EndGame(c)
  \/ Leave(c) \/ SendStart(c)

(* Every thread has returned, or the process is dead.                      *)
Finished ==
  /\ fault # "none" \/ \A c \in Clients : pc[c] = "done"
  /\ UNCHANGED vars

Next == (\E c \in Clients : ThreadStep(c) \/ ClientStep(c)) \/ Finished

Spec == Init /\ [][Next]_vars

(* The operating system schedules every thread that can run; a mutex is    *)
(* free for good once the finitely many other users have passed.           *)
FairSpec == Spec /\ \A c \in Clients : WF_vars(ThreadStep(c))
-----------------------------------------------------------------------------
(***************************************************************************)
(* Properties.                                                             *)
(***************************************************************************)

(* Every variable keeps its type; the registry is a finite map.            *)
TypeOK ==
  /\ pc \in [Clients -> PCs]
  /\ op \in [Clients -> {"none", "create", "join", "random"}]
  /\ session_id \in [Clients -> Nat]
  /\ session \in [Clients -> Clients \cup {NoOne}]
  /\ player_socket \in [Clients -> Clients \cup {NoOne}]
  /\ DOMAIN sessions \subseteq Nat /\ IsFiniteSet(DOMAIN sessions)
  /\ sessions \in [DOMAIN sessions -> Clients]
  /\ players \in [Clients -> Seq(Clients)]
  /\ numPlayers \in [Clients -> Nat]
  /\ game \in [Clients -> Seq(Clients)]
  /\ sessions_mutex \in Clients \cup {NoOne}
  /\ session_mutex \in [Clients -> Clients \cup {NoOne}]
  /\ gone \subseteq Clients /\ starts \subseteq Clients
  /\ acked \subseteq Clients /\ early \subseteq Clients
  /\ fault \in Faults

(* No session or game ever holds more players than Session reserves room   *)
(* for, whoever joins at the same time: the references to Players that     *)
(* threads keep across an unlock are never cut off by a reallocation.      *)
Capacity ==
  \A o \in Clients : Len(players[o]) <= MaxPlayers /\ Len(game[o]) <= MaxPlayers

(* A session led by its creator counts exactly the players it holds, so    *)
(* "full" and "not enough players" are decided on the truth.               *)
CountIsTrue ==
  \A o \in Clients : players[o] # <<>> /\ Head(players[o]) = o => numPlayers[o] = Len(players[o])

(* A player is in one place only: no Player stands twice in the vectors of *)
(* sessions and games.                                                     *)
OnePlace ==
  /\ \A o \in Clients : IsInjective(players[o]) /\ IsInjective(game[o])
  /\ \A o, p \in Clients :
       /\ o # p => Range(players[o]) \cap Range(players[p]) = {}
       /\ o # p => Range(game[o]) \cap Range(game[p]) = {}
       /\ Range(players[o]) \cap Range(game[p]) = {}

(* "leader is at index 0": anybody else stands there only in the window    *)
(* between a game taking the vector and its thread erasing the session.    *)
LeaderFirst ==
  \A o \in Clients :
    players[o] # <<>> /\ Head(players[o]) # o =>
      \E t \in Clients : session[t] = o /\ pc[t] = "eraseStart"

(* Thread c is the only one whose create_session works on its session.     *)
Leads(c) == player_socket[c] # NoOne

SoleLeader(c) == \A d \in Clients \ {c} : Leads(d) => session[d] # session[c]

(* A game has at least two players, although the count was checked without *)
(* a lock and long before the vector was taken, as long as no second       *)
(* thread leads the same session.                                          *)
GameHasPlayers ==
  \A c \in Clients :
    fault = "none" /\ pc[c] \in {"eraseStart", "play", "turn"} /\ SoleLeader(c)
      => Len(game[c]) >= 2

(* The session that thread c put into the map has been erased.             *)
Erased(c) == session[c] = c /\ ~Live(c)

(* sessions.size() is a fresh id as long as no session has been erased:    *)
(* until then every creator leads the session it created over its own      *)
(* socket and the map holds only sessions that were created.               *)
FreshUntilErase ==
  (\A c \in Clients : ~Erased(c)) =>
    /\ \A c \in Clients : Leads(c) => session[c] = c /\ player_socket[c] = c
    /\ \A id \in DOMAIN sessions : session[sessions[id]] = sessions[id]

(* The sessions whose mutex c's next statements lock.                      *)
NextSessions(c) ==
  {o \in Clients :
     \/ pc[c] \in {"invalidate", "announce"} /\ session[c] = o
     \/ pc[c] \in {"join", "notify"} /\ Registered(session_id[c]) /\ sessions[session_id[c]] = o
     \/ pc[c] = "random" /\ Live(o)}

(* Thread c cannot go on before thread d has unlocked a mutex.             *)
WaitsFor(c, d) ==
  \/ /\ sessions_mutex = d
     /\ pc[c] \in {"create", "eraseQuit", "eraseStart"} \/ (pc[c] \in NestingPCs /\ d # c)
  \/ /\ pc[c] = "invalidate" \/ (pc[c] \in NestingPCs /\ sessions_mutex = c)
     /\ \E o \in NextSessions(c) : session_mutex[o] = d

(* No deadlock: in any set of threads one waits for no other of the set,   *)
(* although joins and announcements keep the registry's mutex while they   *)
(* wait for a session's, and a closing session's is kept without it.       *)
NoCircularWait ==
  \A W \in SUBSET Clients : W # {} => \E c \in W : \A d \in W : ~WaitsFor(c, d)

(* Two threads have created a session under one id.                        *)
IdReused == \E d \in Clients : Leads(d) /\ session[d] # d

(* A session's mutex is not destroyed while a thread holds it, the one     *)
(* that tells the players without the registry's mutex included, unless an *)
(* id has been handed out twice and the other leader erases the session.   *)
MutexOutlivesHolder ==
  \A o \in Clients : session_mutex[o] # NoOne => Live(o) \/ IdReused

(* The success ack is the first thing a client reads after its request:    *)
(* the client parses the next message as that ack.                         *)
AckComesFirst == early = {}

(* "Send the session id to the leader": the ack of a creation goes to the  *)
(* client that asked for it.                                               *)
CreateAckToCreator ==
  \A c \in Clients : pc[c] = "wait" /\ fault = "none" => player_socket[c] = c

(* A client that asks for a session, a specific one or any, gets to the    *)
(* end of its join or to the loop that waits for players: no thread hangs  *)
(* on a mutex ("threads ... joining lobbies will drop").                   *)
JoinerThreadsEnd ==
  \A c \in Clients :
    pc[c] \in {"join", "random"} ~> (pc[c] \in {"done", "wait"} \/ fault # "none")

(* A session whose leader has left is eventually out of the map.           *)
LeaderlessSessionsEnd ==
  \A c \in Clients :
    (session[c] = c /\ c \in gone) ~> (~Live(c) \/ fault # "none")
-----------------------------------------------------------------------------
(* A reference kept across an unlock goes bad only with the session or the *)
(* game that it lies in, and the assertions on a session's players fail    *)
(* only where an id names another session: until something has been erased *)
(* no Session&, Player& or socket is used after its object, although       *)
(* players move into vectors, vectors into games, and threads run on.      *)
FaultsNeedErase ==
  fault \in {"dangling", "assert"} => \E c \in Clients : Erased(c)

(* The lobby as module Rooms sees it: a room is a Session object, a game   *)
(* the one a thread has built.                                             *)
Settled == {c \in Clients : session[c] # NoOne /\ pc[c] # "emplace"}

R == INSTANCE Rooms WITH
  waiting <- [o \in Clients |-> Range(players[o])],
  playing <- [c \in Clients |-> Range(game[c])],
  settled <- Settled,
  closed <- {c \in Clients : Erased(c)}

(* Every interleaving of the threads, with reused ids, late joiners and    *)
(* all, is a lobby as Rooms promises it.                                   *)
ImplementsRooms == R!Spec
=============================================================================
