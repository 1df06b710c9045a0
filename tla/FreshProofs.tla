----------------------------- MODULE FreshProofs -----------------------------
(***************************************************************************)
(* What holds of the lobby until the first session is erased: ids are      *)
(* fresh, references are good and no assertion fails; and what holds of a  *)
(* session with one leader, erased or not: its game has players.           *)
(***************************************************************************)
EXTENDS RoomsProofs

NoErase == \A c \in Clients : ~Erased(c)

(* Ids in use are the first ones; whoever leads, leads its own session;    *)
(* a joiner's id names the Session it has picked; a player stays in that   *)
(* Session or its game, and no game has got past the erase.                *)
FreshIds == DOMAIN sessions = 0 .. Cardinality(DOMAIN sessions) - 1

OwnLeaders ==
  \A c \in Clients : Leads(c) => player_socket[c] = c /\ session[c] = c

JoinersFind ==
  \A c \in Clients : pc[c] \in JoinPCs =>
    Registered(session_id[c]) /\ sessions[session_id[c]] = session[c]

PlayersStay ==
  \A c \in Clients : session[c] # NoOne /\ pc[c] # "emplace" =>
    c \in Range(players[session[c]]) \/ c \in Range(game[session[c]])

NoGameYet == \A c \in Clients : pc[c] \notin {"play", "turn"}

Untouched ==
  /\ FreshIds /\ OwnLeaders /\ JoinersFind /\ PlayersStay /\ NoGameYet
  /\ \A id \in DOMAIN sessions : session[sessions[id]] = sessions[id]

FreshInv == NoErase => Untouched

(* Nothing is erased in a step after which nothing has been erased.        *)
LEMMA EraseIsForever == RoomsInv /\ [Next]_vars /\ NoErase' => NoErase
<1> SUFFICES ASSUME RoomsInv, [Next]_vars, NoErase' PROVE NoErase
  OBVIOUS
<1>1. [R!Next]_(R!vars)
  BY RoomsStep
<1>2. Closed \subseteq Closed'
  BY <1>1 DEF R!Next, R!Enter, R!TurnAway, R!Begin, R!Close, R!End, R!vars, Closed
<1>3. Closed' = {}
  BY DEF NoErase, Closed
<1>4. QED
  BY <1>2, <1>3 DEF NoErase, Closed

LEMMA FreshInit == Init => FreshInv
<1> SUFFICES ASSUME Init PROVE Untouched
  BY DEF FreshInv
<1>1. DOMAIN sessions = {} /\ Cardinality({}) = 0
  BY FS_EmptySet DEF Init
<1>2. FreshIds
  BY <1>1 DEF FreshIds
<1>3. QED
  BY <1>1, <1>2
     DEF Init, Untouched, OwnLeaders, JoinersFind, PlayersStay, NoGameYet, Leads, JoinPCs

(* Whoever leads has its references bound, to itself and its own Session,  *)
(* which is in the map under its id and in its game or still full.         *)
LEMMA LeaderAtHome ==
  ASSUME RoomsInv, NoErase, Untouched, fault = "none", NEW c \in Clients, pc[c] \in LeadPCs
  PROVE  /\ session[c] = c /\ player_socket[c] = c
         /\ Live(c) /\ Registered(session_id[c]) /\ sessions[session_id[c]] = c
         /\ PlayerAlive(c)
         /\ pc[c] # "eraseStart" => players[c] # <<>>
<1>1. session[c] = c /\ player_socket[c] = c
  BY LobbyAssumption DEF RoomsInv, TypeInv, RefsBound, Untouched, OwnLeaders, Leads
<1>2. Live(c)
  BY <1>1 DEF NoErase, Erased
<1>3. Registered(session_id[c]) /\ sessions[session_id[c]] = c
  BY <1>1, <1>2 DEF RoomsInv, RegistryInv
<1>4. c \in Range(players[c]) \/ c \in Range(game[c])
  BY <1>1, LobbyAssumption DEF Untouched, PlayersStay, LeadPCs
<1>5. PlayerAlive(c)
  BY <1>4 DEF PlayerAlive
<1>6. ASSUME pc[c] # "eraseStart" PROVE players[c] # <<>>
  <2>1. pc[c] \notin InGame
    BY <1>6 DEF LeadPCs, InGame
  <2>2. game[c] = <<>>
    BY <2>1 DEF RoomsInv, PlaceInv
  <2>3. QED
    BY <1>4, <2>2, EmptyVector
<1>7. QED
  BY <1>1, <1>2, <1>3, <1>5, <1>6

(* The erase of a leader's session is the first one.                       *)
LEMMA FirstErase ==
  ASSUME RoomsInv, NoErase, Untouched, fault = "none", NEW c \in Clients,
         pc[c] \in LeadPCs, EraseSession(c)
  PROVE  ~NoErase'
<1>1. session[c] = c /\ Registered(session_id[c]) /\ sessions[session_id[c]] = c /\ Live(c)
  BY LeaderAtHome
<1>3. \A i \in DOMAIN sessions' : sessions'[i] = sessions[i] /\ i \in DOMAIN sessions /\ i # session_id[c]
  BY EraseLive DEF RoomsInv, TypeInv
<1>4. ~Live(c)'
  BY <1>1, <1>3 DEF Live, RoomsInv, RegistryInv, Registered
<1>5. session'[c] = c
  BY <1>1, EraseEffect DEF RoomsInv, TypeInv
<1>6. QED
  BY <1>4, <1>5 DEF NoErase, Erased

(* Steps that leave the map and the players' Sessions alone.               *)
LEMMA UntouchedStill ==
  ASSUME Untouched, UNCHANGED <<session, player_socket, sessions>>,
         \A o \in Clients : \/ Range(players[o]) \subseteq Range(players'[o])
                           \/ Range(players[o]) \subseteq Range(game'[o]),
         \A o \in Clients : Range(game[o]) \subseteq Range(game'[o]),
         \A c \in Clients :
           /\ pc'[c] \in JoinPCs => pc[c] \in JoinPCs /\ session_id'[c] = session_id[c]
           /\ pc'[c] \notin {"play", "turn"},
         \A c \in Clients : pc'[c] # "emplace" /\ session[c] # NoOne =>
           \/ pc[c] # "emplace"
           \/ c \in Range(players'[session[c]]) \/ c \in Range(game'[session[c]]),
         \A c \in Clients : session[c] \in Clients \cup {NoOne}
  PROVE  Untouched'
<1>1. FreshIds' /\ OwnLeaders' /\ NoGameYet'
  BY DEF Untouched, FreshIds, OwnLeaders, NoGameYet, Leads
<1>2. JoinersFind'
  BY DEF Untouched, JoinersFind, Registered
<1>3. PlayersStay'
  BY DEF Untouched, PlayersStay
<1>4. QED
  BY <1>1, <1>2, <1>3 DEF Untouched

LEMMA FreshStep == RoomsInv /\ FreshInv /\ [Next]_vars => FreshInv'
<1> SUFFICES ASSUME RoomsInv, FreshInv, [Next]_vars, NoErase' PROVE Untouched'
  BY DEF FreshInv
<1>0. NoErase /\ Untouched /\ TypeOK
  BY EraseIsForever DEF FreshInv, RoomsInv, TypeInv
<1> USE DEF TypeOK, Step, threadVars, objectVars
<1>1. CASE Quiet
  <2>1. UNCHANGED <<session, player_socket, sessions, players, game>>
    BY <1>1 DEF Quiet
  <2>2. CASE UNCHANGED <<pc, session_id>>
    BY <1>0, <2>1, <2>2, UntouchedStill DEF Untouched, NoGameYet
  <2>3. CASE ~UNCHANGED <<pc, session_id>>
    <3> PICK c \in Clients, p \in PCs :
          /\ pc' = [pc EXCEPT ![c] = p]
          /\ "emplace" \notin {p, pc[c]} /\ "eraseStart" \notin {p, pc[c]}
          /\ p \in JoinPCs => pc[c] \in JoinPCs
          /\ p \in InGame <=> pc[c] \in InGame
          /\ \/ session_id' = session_id
             \/ /\ pc[c] = "request"
                /\ \A d \in Clients \ {c} : session_id'[d] = session_id[d]
      BY <1>1, <2>3 DEF Quiet
    <3>1. \A d \in Clients : pc'[d] \in JoinPCs => pc[d] \in JoinPCs /\ session_id'[d] = session_id[d]
      BY <1>0 DEF JoinPCs
    <3>2. \A d \in Clients : pc'[d] \notin {"play", "turn"}
      BY <1>0 DEF Untouched, NoGameYet, InGame
    <3>3. \A d \in Clients : pc'[d] # "emplace" => pc[d] # "emplace"
      BY <1>0
    <3>4. QED
      BY <1>0, <2>1, <3>1, <3>2, <3>3, UntouchedStill
  <2>4. QED
    BY <2>2, <2>3
<1>2. ASSUME NEW c \in Clients, EmplaceSession(c) PROVE Untouched'
  <2>1. /\ NewId \in Nat /\ Insert(NewId, c) /\ ~Registered(NewId)
        /\ pc[c] = "create" /\ pc' = [pc EXCEPT ![c] = "created"]
        /\ players' = [players EXCEPT ![c] = <<c>>] /\ game' = game
        /\ session_id' = [session_id EXCEPT ![c] = NewId]
        /\ session' = [session EXCEPT ![c] = c]
        /\ player_socket' = [player_socket EXCEPT ![c] = c]
        /\ sessions_mutex = NoOne
    BY <1>0, <1>2, NewIdType DEF EmplaceSession
  <2>2. session[c] = NoOne /\ c # NoOne /\ players[c] = <<>> /\ game[c] = <<>>
    BY <2>1, NoSessionYet DEF RoomsInv, PlaceInv, InGame
  <2>3. /\ DOMAIN sessions' = DOMAIN sessions \cup {NewId} /\ sessions'[NewId] = c
        /\ \A i \in DOMAIN sessions : i # NewId /\ sessions'[i] = sessions[i]
    BY <1>0, <2>1, InsertLive
  <2>4. FreshIds'
    <3>1. Cardinality(DOMAIN sessions') = NewId + 1
      <4>1. IsFiniteSet(DOMAIN sessions) /\ NewId \notin DOMAIN sessions
        BY <1>0, <2>1 DEF Registered
      <4>2. Cardinality(DOMAIN sessions \cup {NewId}) = Cardinality(DOMAIN sessions) + 1
        BY <4>1, FS_AddElement
      <4>3. QED
        BY <2>3, <4>2 DEF NewId
    <3>2. DOMAIN sessions' = 0 .. NewId
      BY <1>0, <2>1, <2>3 DEF Untouched, FreshIds, NewId
    <3>3. QED
      BY <2>1, <3>1, <3>2 DEF FreshIds
  <2>5. OwnLeaders'
    BY <1>0, <2>1 DEF Untouched, OwnLeaders, Leads
  <2>6. JoinersFind'
    <3>1. ASSUME NEW d \in Clients, pc'[d] \in JoinPCs
          PROVE  session_id'[d] \in DOMAIN sessions' /\ sessions'[session_id'[d]] = session'[d]
      <4>1. d # c /\ pc[d] \in JoinPCs
        BY <1>0, <2>1, <3>1 DEF JoinPCs
      <4>2. session_id'[d] = session_id[d] /\ session'[d] = session[d]
        BY <1>0, <2>1, <4>1
      <4>3. session_id[d] \in DOMAIN sessions /\ sessions[session_id[d]] = session[d]
        BY <1>0, <4>1 DEF Untouched, JoinersFind, Registered
      <4>4. QED
        BY <2>3, <4>2, <4>3
    <3>2. QED
      BY <3>1 DEF JoinersFind, Registered
  <2>7. PlayersStay'
    <3>1. ASSUME NEW d \in Clients, session'[d] # NoOne, pc'[d] # "emplace"
          PROVE  d \in Range(players'[session'[d]]) \/ d \in Range(game'[session'[d]])
      <4>1. CASE d = c
        <5>1. session'[d] = c /\ players'[c] = <<c>>
          BY <1>0, <2>1, <4>1
        <5>2. QED
          BY <4>1, <5>1, SingletonVector
      <4>2. CASE d # c
        <5>1. session'[d] = session[d] /\ session[d] \in Clients /\ pc[d] # "emplace"
          BY <1>0, <2>1, <3>1, <4>2
        <5>2. d \in Range(players[session[d]]) \/ d \in Range(game[session[d]])
          BY <1>0, <3>1, <5>1 DEF Untouched, PlayersStay
        <5>3. session[d] # c
          BY <2>2, <5>2, EmptyVector
        <5>4. QED
          BY <1>0, <2>1, <5>1, <5>2, <5>3
      <4>3. QED
        BY <4>1, <4>2
    <3>2. QED
      BY <3>1 DEF PlayersStay
  <2>8. NoGameYet'
    BY <1>0, <2>1 DEF Untouched, NoGameYet
  <2>9. \A id \in DOMAIN sessions' : session'[sessions'[id]] = sessions'[id]
    BY <1>0, <2>1, <2>2, <2>3 DEF Untouched
  <2>10. QED
    BY <2>4, <2>5, <2>6, <2>7, <2>8, <2>9 DEF Untouched
<1>3. ASSUME NEW c \in Clients, ReuseSession(c) PROVE FALSE
  BY <1>0, <1>3, NewIdType DEF ReuseSession, Registered, NewId, Untouched, FreshIds
<1>4. ASSUME NEW c \in Clients, EraseQuit(c) \/ EraseStart(c) PROVE FALSE
  <2>1. EraseSession(c) /\ pc[c] \in LeadPCs /\ fault = "none"
    BY <1>4 DEF EraseQuit, EraseStart, LeadPCs
  <2>2. QED
    BY <1>0, <2>1, FirstErase
<1>5. ASSUME NEW c \in Clients, BuildGame(c) PROVE Untouched'
  <2>1. /\ pc[c] = "build" /\ pc' = [pc EXCEPT ![c] = "eraseStart"] /\ fault = "none"
        /\ game' = [game EXCEPT ![c] = players[session[c]]]
        /\ players' = [players EXCEPT ![session[c]] = <<>>]
        /\ UNCHANGED <<session, player_socket, session_id, sessions>>
    BY <1>5 DEF BuildGame, MovePlayers
  <2>2. session[c] = c
    BY <1>0, <2>1, LeaderAtHome DEF LeadPCs
  <2>3. game[c] = <<>>
    BY <2>1 DEF RoomsInv, PlaceInv, InGame
  <2>4. /\ game'[c] = players[c]
        /\ \A o \in Clients : o # c => players'[o] = players[o] /\ game'[o] = game[o]
    BY <1>0, <2>1, <2>2
  <2>5. \A o \in Clients : \/ Range(players[o]) \subseteq Range(players'[o])
                          \/ Range(players[o]) \subseteq Range(game'[o])
    BY <2>4
  <2>6. \A o \in Clients : Range(game[o]) \subseteq Range(game'[o])
    BY <2>3, <2>4, EmptyVector
  <2>7. \A d \in Clients :
          /\ pc'[d] \in JoinPCs => pc[d] \in JoinPCs
          /\ pc'[d] \notin {"play", "turn"}
          /\ pc'[d] # "emplace" => pc[d] # "emplace"
    BY <1>0, <2>1 DEF Untouched, NoGameYet, JoinPCs
  <2>8. QED
    BY <1>0, <2>1, <2>5, <2>6, <2>7, UntouchedStill
<1>6. ASSUME NEW c \in Clients, EndGame(c) PROVE FALSE
  BY <1>0, <1>6 DEF EndGame, Untouched, NoGameYet
<1>7. ASSUME NEW c \in Clients, NEW from \in {"join", "random"}, NEW id \in DOMAIN sessions,
             EnterJoin(c, from, id)
      PROVE  Untouched'
  <2>1. /\ pc[c] = from /\ pc' = [pc EXCEPT ![c] = "emplace"]
        /\ session' = [session EXCEPT ![c] = sessions[id]]
        /\ session_id' = [session_id EXCEPT ![c] = id]
        /\ UNCHANGED <<player_socket, sessions, players, game>>
    BY <1>7 DEF EnterJoin
  <2>2. session[c] = NoOne /\ c # NoOne
    BY <1>0, <2>1, NoSessionYet DEF RoomsInv
  <2>3. FreshIds' /\ NoGameYet'
    BY <1>0, <2>1 DEF Untouched, FreshIds, NoGameYet
  <2>4. OwnLeaders'
    BY <1>0, <2>1, <2>2 DEF Untouched, OwnLeaders, Leads
  <2>5. JoinersFind'
    BY <1>0, <2>1 DEF Untouched, JoinersFind, Registered, JoinPCs
  <2>6. PlayersStay'
    BY <1>0, <2>1 DEF Untouched, PlayersStay
  <2>7. \A i \in DOMAIN sessions' : session'[sessions'[i]] = sessions'[i]
    BY <1>0, <2>1, <2>2 DEF Untouched
  <2>8. QED
    BY <2>3, <2>4, <2>5, <2>6, <2>7 DEF Untouched
<1>8. ASSUME NEW c \in Clients, EmplacePlayer(c) PROVE Untouched'
  <2>1. /\ pc[c] = "emplace" /\ pc' = [pc EXCEPT ![c] = "joinAck"] /\ fault = "none"
        /\ players' = [players EXCEPT ![session[c]] = Append(@, c)]
        /\ UNCHANGED <<session, player_socket, session_id, sessions, game>>
    BY <1>8 DEF EmplacePlayer, AddPlayer
  <2>2. session[c] \in Clients
    BY <2>1 DEF RoomsInv, TypeInv, RefsBound, JoinPCs
  <2>3. /\ Range(players'[session[c]]) = Range(players[session[c]]) \cup {c}
        /\ \A o \in Clients : o # session[c] => players'[o] = players[o]
    BY <1>0, <2>1, <2>2, AppendToVector
  <2>4. \A d \in Clients :
          /\ pc'[d] \in JoinPCs => pc[d] \in JoinPCs
          /\ pc'[d] \notin {"play", "turn"}
          /\ pc'[d] # "emplace" => pc[d] # "emplace" \/ d = c
    BY <1>0, <2>1 DEF Untouched, NoGameYet, JoinPCs
  <2>5. QED
    BY <1>0, <2>1, <2>3, <2>4, UntouchedStill
<1>9. ASSUME NEW c \in Clients, NotifyErased(c) PROVE FALSE
  BY <1>0, <1>9 DEF NotifyErased, Untouched, JoinersFind, JoinPCs
<1>10. QED
  BY <1>0, <1>1, <1>2, <1>3, <1>4, <1>5, <1>6, <1>7, <1>8, <1>9, StepKinds DEF Loud

LEMMA FreshInvHolds == Spec => [](RoomsInv /\ FreshInv)
<1>1. Init => FreshInv
  BY FreshInit
<1>2. QED
  BY <1>1, RoomsInvHolds, FreshStep, PTL DEF Spec

(* sessions.size() is a fresh id until a session has been erased, however  *)
(* many threads there are: FreshUntilErase.                                *)
THEOREM FreshUntilEraseHolds == Spec => []FreshUntilErase
<1>1. FreshInv => FreshUntilErase
  BY DEF FreshInv, FreshUntilErase, NoErase, Untouched, OwnLeaders
<1>2. QED
  BY <1>1, FreshInvHolds, PTL

(* Until a session has been erased, the ack of a creation has gone to the  *)
(* client that asked for it: what handle_client_helpers.cpp:34 says.       *)
THEOREM AckToCreatorUntilErase ==
  Spec => []((\A c \in Clients : ~Erased(c)) => CreateAckToCreator)
<1>1. RoomsInv /\ FreshUntilErase => ((\A c \in Clients : ~Erased(c)) => CreateAckToCreator)
  <2> SUFFICES ASSUME RoomsInv, FreshUntilErase, \A c \in Clients : ~Erased(c),
                      NEW c \in Clients, pc[c] = "wait", fault = "none"
               PROVE  player_socket[c] = c
    BY DEF CreateAckToCreator
  <2>1. player_socket[c] \in Clients
    BY DEF RoomsInv, TypeInv, RefsBound, LeadPCs
  <2>2. Leads(c)
    BY <2>1, LobbyAssumption DEF Leads
  <2>3. QED
    BY <2>2 DEF FreshUntilErase
<1>2. QED
  BY <1>1, RoomsInvHolds, FreshUntilEraseHolds, PTL
-----------------------------------------------------------------------------
(***************************************************************************)
(* Good references and true assertions until something has been erased.    *)
(***************************************************************************)
Blameless == fault \notin {"dangling", "assert"}

LEMMA HarmlessOutcomes ==
  /\ \A S : "dangling" \notin SendOutcomes(S) /\ "assert" \notin SendOutcomes(S)
  /\ \A o : "dangling" \notin BroadcastOutcomes(o) /\ "assert" \notin BroadcastOutcomes(o)
  /\ \A o : "dangling" \notin DisplayOutcomes(o) /\ "assert" \notin DisplayOutcomes(o)
BY DEF SendOutcomes, BroadcastOutcomes, DisplayOutcomes

(* A joiner that has been added finds itself and its Session.              *)
LEMMA JoinerAtHome ==
  ASSUME RoomsInv, NoErase, Untouched, fault = "none",
         NEW c \in Clients, pc[c] \in {"joinAck", "notify"}
  PROVE  /\ JoinRefsValid(c)
         /\ Registered(session_id[c])
<1>1. /\ Registered(session_id[c]) /\ sessions[session_id[c]] = session[c]
      /\ session[c] \in Clients
  BY DEF Untouched, JoinersFind, JoinPCs, RoomsInv, TypeInv, RefsBound
<1>2. PlayerAlive(c)
  BY <1>1, LobbyAssumption DEF Untouched, PlayersStay, PlayerAlive
<1>3. Live(session[c])
  BY <1>1 DEF Live, Registered
<1>4. QED
  BY <1>1, <1>2, <1>3 DEF JoinRefsValid

LEMMA BlamelessStep ==
  ASSUME RoomsInv, FreshInv, [Next]_vars, Blameless, NoErase'
  PROVE  Blameless'
<1>0. NoErase /\ Untouched
  BY EraseIsForever DEF FreshInv
<1> USE DEF Blameless, Step
<1>1. CASE UNCHANGED fault
  BY <1>1
<1>2. ASSUME NEW c \in Clients,
             \/ Greet(c) \/ RefuseStart(c) \/ AcceptStart(c) \/ StartGame(c) \/ EndGame(c)
             \/ RefuseJoin(c) \/ NoRandomSession(c)
      PROVE  Blameless'
  BY <1>2, HarmlessOutcomes
     DEF Greet, RefuseStart, AcceptStart, StartGame, EndGame, RefuseJoin, NoRandomSession
<1>3. ASSUME NEW c \in Clients, ReuseSession(c) PROVE Blameless'
  <2>1. NewId \in DOMAIN sessions /\ NewId \in Nat
    BY <1>3, NewIdType DEF ReuseSession, Registered, RoomsInv, TypeInv
  <2>2. QED
    BY <1>0, <2>1 DEF NewId, Untouched, FreshIds
<1>4. ASSUME NEW c \in Clients, LogCreated(c) PROVE Blameless'
  <2>1. /\ Registered(session_id[c]) /\ sessions[session_id[c]] = c /\ players[c] # <<>>
    BY <1>0, <1>4, LeaderAtHome DEF LogCreated, LeadPCs
  <2>2. QED
    BY <1>4, <2>1 DEF LogCreated
<1>5. ASSUME NEW c \in Clients,
             \/ SendCreateAck(c) \/ ReadStale(c) \/ Invalidate(c) \/ CloseSession(c)
             \/ Announce(c) \/ BuildGame(c)
      PROVE  Blameless'
  <2>1. fault = "none" /\ pc[c] \in LeadPCs
    BY <1>5 DEF SendCreateAck, ReadStale, Invalidate, CloseSession, Announce, BuildGame, LeadPCs
  <2>2. session[c] = c /\ player_socket[c] = c /\ Live(c) /\ PlayerAlive(c)
    BY <1>0, <2>1, LeaderAtHome
  <2>3. /\ WaitRefsValid(c)
        /\ \A T : Deref(Live(session[c]), T) = T /\ Deref(PlayerAlive(player_socket[c]), T) = T
    BY <2>2 DEF WaitRefsValid, Deref
  <2>4. CASE SendCreateAck(c)
    BY <2>3, <2>4, HarmlessOutcomes DEF SendCreateAck
  <2>5. CASE ReadStale(c)
    BY <2>3, <2>5 DEF ReadStale
  <2>6. CASE Invalidate(c) \/ CloseSession(c) \/ Announce(c)
    BY <2>3, <2>6, HarmlessOutcomes DEF Invalidate, CloseSession, Announce
  <2>7. CASE BuildGame(c)
    <3>1. fault' \in {"none", "race"}
      BY <2>3, <2>7 DEF BuildGame
    <3>2. QED
      BY <3>1
  <2>8. QED
    BY <1>5, <2>4, <2>5, <2>6, <2>7
<1>6. ASSUME NEW c \in Clients, SendJoinAck(c) \/ NotifySession(c) \/ NotifyErased(c)
      PROVE  Blameless'
  <2>1. fault = "none" /\ pc[c] \in {"joinAck", "notify"}
    BY <1>6 DEF SendJoinAck, NotifySession, NotifyErased
  <2>2. JoinRefsValid(c) /\ Registered(session_id[c])
    BY <1>0, <2>1, JoinerAtHome
  <2>3. \A T : Deref(JoinRefsValid(c), T) = T
    BY <2>2 DEF Deref
  <2>4. CASE SendJoinAck(c)
    BY <2>3, <2>4, HarmlessOutcomes DEF SendJoinAck
  <2>5. CASE NotifySession(c)
    BY <2>3, <2>5, HarmlessOutcomes DEF NotifySession
  <2>6. QED
    BY <1>6, <2>2, <2>4, <2>5 DEF NotifyErased
<1>7. ASSUME NEW c \in Clients,
             \/ Accept(c) \/ DropRequest(c) \/ ReadRequest(c) \/ EmplaceSession(c)
             \/ LoseLeader(c) \/ EraseQuit(c) \/ EraseStart(c) \/ JoinSession(c) \/ JoinRandom(c)
             \/ EmplacePlayer(c) \/ LockRegistry(c) \/ Leave(c) \/ SendStart(c)
      PROVE  UNCHANGED fault
  BY <1>7 DEF Accept, DropRequest, ReadRequest, EmplaceSession, LoseLeader, EraseQuit,
              EraseStart, EraseSession, JoinSession, JoinRandom, EnterJoin, EmplacePlayer,
              LockRegistry, Leave, SendStart
<1>8. CASE UNCHANGED vars
  BY <1>8 DEF vars
<1>9. QED
  BY <1>1, <1>2, <1>3, <1>4, <1>5, <1>6, <1>7, <1>8 DEF Next, ThreadStep, ClientStep, Finished

(* Until something has been erased no object is used after its end and no  *)
(* assertion on a session's players fails: FaultsNeedErase.                *)
THEOREM FaultsNeedEraseHolds == Spec => []FaultsNeedErase
<1>1. Init => (NoErase => Blameless)
  BY DEF Init, Blameless
<1>2. RoomsInv /\ FreshInv /\ (NoErase => Blameless) /\ [Next]_vars => (NoErase => Blameless)'
  BY BlamelessStep, EraseIsForever
<1>3. (NoErase => Blameless) => FaultsNeedErase
  BY DEF NoErase, Blameless, FaultsNeedErase
<1>4. QED
  BY <1>1, <1>2, <1>3, FreshInvHolds, PTL DEF Spec
-----------------------------------------------------------------------------
(***************************************************************************)
(* A game has players.  A thread that alone leads its session leads its    *)
(* own; nobody else takes or erases the players without the process        *)
(* dying of it, and more than one of them was counted.                     *)
(***************************************************************************)
HasPlayers(c) ==
  /\ pc[c] \in LeadPCs => session[c] = c
  /\ pc[c] \in LeadPCs \ {"eraseStart"} /\ Live(c) => players[c] # <<>>
  /\ pc[c] \in {"announce", "build"} /\ Live(c) => Len(players[c]) >= 2
  /\ pc[c] \in InGame => Len(game[c]) >= 2

SoleInv ==
  /\ \A c \in Clients : pc[c] \in Unplaced => ~Leads(c)
  /\ \A o \in Clients : session[o] = o => Leads(o)
  /\ fault = "none" => \A c \in Clients : SoleLeader(c) => HasPlayers(c)

LEMMA SoleInit == Init => SoleInv
BY LobbyAssumption DEF Init, SoleInv, Leads, HasPlayers, LeadPCs, InGame

LEMMA EndedIsStill == [Next]_vars => fault = "none" \/ UNCHANGED vars
BY DEF Next, ThreadStep, ClientStep, Finished, vars, Step, Leave, SendStart, LockRegistry,
       Accept, Greet, DropRequest, ReadRequest, EmplaceSession, ReuseSession, LogCreated,
       SendCreateAck, RefuseStart, AcceptStart, LoseLeader, ReadStale, Invalidate, CloseSession,
       EraseQuit, Announce, BuildGame, EraseStart, StartGame, EndGame, RefuseJoin, JoinSession,
       JoinRandom, EnterJoin, NoRandomSession, EmplacePlayer, SendJoinAck, NotifySession,
       NotifyErased

LEMMA DeadIsDead == [Next]_vars /\ fault' = "none" => fault = "none"
BY EndedIsStill DEF vars

(* Only creators and joiners get a Session, and none that leads already.   *)
LEMMA LeadersStay ==
  ASSUME TypeOK, SoleInv, [Next]_vars
  PROVE  \A d \in Clients : Leads(d) => Leads(d)' /\ session'[d] = session[d]
<1> USE DEF TypeOK, Leads, Step, threadVars, objectVars
<1>1. CASE Quiet
  BY <1>1 DEF Quiet
<1>2. ASSUME NEW c \in Clients,
             \/ EmplaceSession(c) \/ ReuseSession(c)
             \/ \E from \in {"join", "random"}, id \in DOMAIN sessions : EnterJoin(c, from, id)
      PROVE  \A d \in Clients : Leads(d) => Leads(d)' /\ session'[d] = session[d]
  <2>1. ~Leads(c)
    BY <1>2 DEF SoleInv, Unplaced, EmplaceSession, ReuseSession, EnterJoin
  <2>2. \E x, y : /\ session' = [session EXCEPT ![c] = x]
                  /\ player_socket' = [player_socket EXCEPT ![c] = y]
    <3>1. player_socket' = player_socket =>
            player_socket' = [player_socket EXCEPT ![c] = player_socket[c]]
      OBVIOUS
    <3>2. QED
      BY <1>2, <3>1 DEF EmplaceSession, ReuseSession, EnterJoin
  <2>3. QED
    BY <2>1, <2>2
<1>3. ASSUME NEW c \in Clients,
             \/ EraseQuit(c) \/ EraseStart(c) \/ BuildGame(c) \/ EndGame(c)
             \/ EmplacePlayer(c) \/ NotifyErased(c)
      PROVE  UNCHANGED <<player_socket, session>>
  BY <1>3 DEF EraseQuit, EraseStart, EraseSession, BuildGame, EndGame, EmplacePlayer, NotifyErased
<1>4. QED
  BY <1>1, <1>2, <1>3, StepKinds DEF Loud

LEMMA SoleBefore ==
  ASSUME TypeOK, SoleInv, [Next]_vars, NEW c \in Clients, SoleLeader(c)', session'[c] = session[c]
  PROVE  SoleLeader(c)
BY LeadersStay DEF SoleLeader

(* A step that leaves c's thread where it is and takes nothing from it.    *)
LEMMA HasPlayersStill ==
  ASSUME NEW c \in Clients, HasPlayers(c), players[c] \in Seq(Clients),
         UNCHANGED <<session[c], game[c]>>,
         pc'[c] \in LeadPCs => pc[c] \in LeadPCs,
         pc[c] = "eraseStart" => pc'[c] \notin LeadPCs \ {"eraseStart"},
         pc'[c] \in {"announce", "build"} => pc[c] \in {"announce", "build"},
         pc'[c] \in InGame => pc[c] \in InGame,
         pc[c] \in LeadPCs /\ Live(c)' =>
           /\ Live(c)
           /\ players'[c] = players[c] \/ \E p \in Clients : players'[c] = Append(players[c], p)
  PROVE  HasPlayers(c)'
<1>1. \A p \in Clients :
        Append(players[c], p) # <<>> /\ Len(Append(players[c], p)) = Len(players[c]) + 1
  OBVIOUS
<1>2. Len(players[c]) \in Nat
  OBVIOUS
<1>3. \A p : p \in {"announce", "build"} => p \in LeadPCs
  BY DEF LeadPCs
<1>4. pc'[c] \in LeadPCs => session'[c] = c
  BY DEF HasPlayers
<1>5. pc'[c] \in InGame => Len(game'[c]) >= 2
  BY DEF HasPlayers
<1>6. pc'[c] \in LeadPCs \ {"eraseStart"} /\ Live(c)' => players'[c] # <<>>
  BY <1>1 DEF HasPlayers
<1>7. pc'[c] \in {"announce", "build"} /\ Live(c)' => Len(players'[c]) >= 2
  BY <1>1, <1>2, <1>3 DEF HasPlayers
<1>8. QED
  BY <1>4, <1>5, <1>6, <1>7 DEF HasPlayers

(* The first player of a session with one leader is that leader, so the    *)
(* count that the start is decided on is true.                             *)
LEMMA EnoughToStart ==
  ASSUME RoomsInv, fault = "none", NEW c \in Clients, SoleLeader(c), HasPlayers(c),
         pc[c] = "wait", Live(c), EnoughPlayers(session[c])
  PROVE  Len(players[c]) >= 2
<1>1. session[c] = c /\ players[c] # <<>> /\ players[c] \in Seq(Clients)
  BY DEF HasPlayers, LeadPCs, RoomsInv, TypeInv, TypeOK
<1>2. ~Orphaned(c)
  <2>1. SUFFICES ASSUME NEW t \in Clients, session[t] = c, pc[t] = "eraseStart" PROVE FALSE
    BY DEF Orphaned
  <2>2. Leads(t) /\ t # c
    BY <2>1, LobbyAssumption DEF RoomsInv, TypeInv, RefsBound, LeadPCs, Leads
  <2>3. QED
    BY <1>1, <2>1, <2>2 DEF SoleLeader
<1>3. Head(players[c]) = c
  BY <1>1, <1>2 DEF RoomsInv, LeaderInv
<1>4. numPlayers[c] # 1
  BY <1>1 DEF EnoughPlayers
<1>5. CountIsTrue
  BY DEF RoomsInv, CountInv
<1>6. numPlayers[c] = Len(players[c])
  BY <1>1, <1>3, <1>5 DEF CountIsTrue
<1>7. \A s \in Seq(Clients) : s # <<>> => Len(s) \in Nat /\ Len(s) # 0
  OBVIOUS
<1>8. \A n \in Nat : n # 0 /\ n # 1 => n >= 2
  OBVIOUS
<1>9. QED
  BY <1>1, <1>4, <1>6, <1>7, <1>8, Zenon

LEMMA QuietHasPlayers ==
  ASSUME RoomsInv, Quiet, fault = "none", NEW c \in Clients, SoleLeader(c), HasPlayers(c)
  PROVE  HasPlayers(c)'
<1> USE DEF RoomsInv, TypeInv, TypeOK
<1>0. /\ UNCHANGED <<session[c], game[c], players[c]>>
      /\ Live(c)' <=> Live(c)
      /\ players[c] \in Seq(Clients)
  BY DEF Quiet, Live
<1>1. CASE pc'[c] = pc[c]
  BY <1>0, <1>1, HasPlayersStill
<1>2. CASE pc'[c] # pc[c]
  <2> PICK p \in PCs :
        /\ pc' = [pc EXCEPT ![c] = p]
        /\ "eraseStart" \notin {p, pc[c]}
        /\ p \in LeadPCs => pc[c] \in LeadPCs
        /\ p \in InGame <=> pc[c] \in InGame
        /\ p = "announce" => pc[c] = "wait" /\ EnoughPlayers(session[c])
        /\ p = "build" => pc[c] = "announce"
    BY <1>2 DEF Quiet
  <2>1. pc'[c] = p
    OBVIOUS
  <2>2. CASE p = "announce"
    <3>1. /\ pc[c] = "wait" /\ pc[c] \in LeadPCs \ {"eraseStart"} /\ EnoughPlayers(session[c])
          /\ pc'[c] \notin InGame
      BY <2>1, <2>2 DEF LeadPCs, InGame
    <3>2. Live(c) => players[c] # <<>> /\ Len(players[c]) >= 2
      BY <3>1, EnoughToStart DEF HasPlayers
    <3>3. QED
      BY <1>0, <3>1, <3>2 DEF HasPlayers
  <2>3. CASE p # "announce"
    BY <1>0, <2>1, <2>3, HasPlayersStill
  <2>4. QED
    BY <2>2, <2>3
<1>3. QED
  BY <1>1, <1>2

(* The registered Session that create_session falls back on has a leader.  *)
LEMMA ReuseIsNotSole ==
  ASSUME RoomsInv, SoleInv, NEW c \in Clients, ReuseSession(c), fault' = "none"
  PROVE  ~SoleLeader(c)'
<1> USE DEF RoomsInv, TypeInv, TypeOK, Step
<1> PICK o \in Clients : o = sessions[NewId]
  BY DEF ReuseSession, Registered
<1>1. /\ pc[c] = "create" /\ players[o] # <<>>
      /\ session' = [session EXCEPT ![c] = o]
      /\ \A d \in Clients \ {c} : player_socket'[d] = player_socket[d]
  BY DEF ReuseSession, Registered
<1>2. session[o] = o
  BY <1>1 DEF SessionInv
<1>3. session[c] = NoOne /\ c # NoOne
  BY <1>1, NoSessionYet
<1>4. o # c /\ Leads(o)
  BY <1>1, <1>2, <1>3 DEF SoleInv
<1>5. session'[o] = session'[c] /\ Leads(o)'
  BY <1>1, <1>2, <1>4 DEF Leads
<1>6. QED
  BY <1>1, <1>4, <1>5 DEF SoleLeader

LEMMA SoleStep ==
  ASSUME RoomsInv, SoleInv, [Next]_vars, fault' = "none", NEW c \in Clients, SoleLeader(c)'
  PROVE  HasPlayers(c)'
<1> USE DEF RoomsInv, TypeInv, TypeOK, Step, threadVars, objectVars
<1>0. fault = "none" /\ players[c] \in Seq(Clients)
  BY DeadIsDead
<1>1. session'[c] = session[c] => SoleLeader(c) /\ HasPlayers(c)
  BY <1>0, SoleBefore DEF SoleInv
<1>2. CASE Quiet
  BY <1>0, <1>1, <1>2, QuietHasPlayers DEF Quiet
<1>3. ASSUME NEW d \in Clients, EmplaceSession(d) PROVE HasPlayers(c)'
  <2>1. CASE d = c
    <3>1. /\ session'[c] = c /\ players'[c] = <<c>> /\ pc'[c] = "created"
      BY <1>3, <2>1 DEF EmplaceSession
    <3>2. QED
      BY <3>1 DEF HasPlayers, InGame
  <2>2. CASE d # c
    <3>1. /\ UNCHANGED <<pc[c], session[c], game[c], players[c]>>
      BY <1>3, <2>2 DEF EmplaceSession
    <3>2. Live(c)' <=> Live(c)
      BY <1>3, <2>2, InsertLive, NewIdType DEF EmplaceSession
    <3>3. QED
      BY <1>0, <1>1, <3>1, <3>2, HasPlayersStill
  <2>3. QED
    BY <2>1, <2>2
<1>4. ASSUME NEW d \in Clients, ReuseSession(d) PROVE HasPlayers(c)'
  <2>1. d # c
    BY <1>4, ReuseIsNotSole
  <2>2. /\ UNCHANGED <<pc[c], session[c], game[c], players[c]>>
        /\ Live(c)' <=> Live(c)
    BY <1>4, <2>1 DEF ReuseSession, Live
  <2>3. QED
    BY <1>0, <1>1, <2>2, HasPlayersStill
<1>5. ASSUME NEW d \in Clients, EraseQuit(d) \/ EraseStart(d) PROVE HasPlayers(c)'
  <2>1. /\ EraseSession(d) /\ UNCHANGED <<session, game>>
    BY <1>5 DEF EraseQuit, EraseStart, EraseSession
  <2>2. \/ (Live(c)' <=> Live(c)) /\ players'[c] = players[c]
        \/ ~Live(c)'
    BY <2>1, EraseLive
  <2>3. \/ pc'[c] = pc[c]
        \/ pc[c] = "eraseQuit" /\ pc'[c] = "done"
        \/ pc[c] = "eraseStart" /\ pc'[c] = "play"
    BY <1>5 DEF EraseQuit, EraseStart
  <2>4. /\ pc'[c] \in LeadPCs => pc[c] \in LeadPCs
        /\ pc[c] = "eraseStart" => pc'[c] \notin LeadPCs \ {"eraseStart"}
        /\ pc'[c] \in {"announce", "build"} => pc[c] \in {"announce", "build"}
        /\ pc'[c] \in InGame => pc[c] \in InGame
    BY <2>3 DEF LeadPCs, InGame
  <2>5. QED
    BY <1>0, <1>1, <2>1, <2>2, <2>4, HasPlayersStill
<1>6. ASSUME NEW d \in Clients, BuildGame(d) PROVE HasPlayers(c)'
  <2>1. /\ pc[d] = "build" /\ pc' = [pc EXCEPT ![d] = "eraseStart"]
        /\ game' = [game EXCEPT ![d] = players[session[d]]]
        /\ players' = [players EXCEPT ![session[d]] = <<>>]
        /\ UNCHANGED <<session, sessions>>
        /\ Live(session[d])
    BY <1>6 DEF BuildGame, MovePlayers, Deref
  <2>2. CASE d = c
    <3>1. session[c] = c /\ Len(players[c]) >= 2
      BY <1>1, <2>1, <2>2 DEF HasPlayers, LeadPCs
    <3>2. QED
      BY <2>1, <2>2, <3>1 DEF HasPlayers, LeadPCs
  <2>3. CASE d # c
    <3>1. Leads(d) /\ session[d] # session[c]
      BY <1>0, <1>1, <2>1, <2>3, LobbyAssumption DEF RefsBound, LeadPCs, Leads, SoleLeader
    <3>2. UNCHANGED <<pc[c], session[c], game[c]>> /\ (Live(c)' <=> Live(c))
      BY <2>1, <2>3 DEF Live
    <3>3. pc[c] \in LeadPCs => players'[c] = players[c]
      BY <1>1, <2>1, <3>1 DEF HasPlayers
    <3>4. QED
      BY <1>0, <1>1, <3>2, <3>3, HasPlayersStill
  <2>4. QED
    BY <2>2, <2>3
<1>7. ASSUME NEW d \in Clients, EndGame(d) PROVE HasPlayers(c)'
  <2>1. CASE d = c
    BY <1>7, <2>1 DEF EndGame, HasPlayers, LeadPCs, InGame
  <2>2. CASE d # c
    <3>1. /\ UNCHANGED <<pc[c], session[c], game[c], players[c]>>
          /\ Live(c)' <=> Live(c)
      BY <1>7, <2>2 DEF EndGame, Live
    <3>2. QED
      BY <1>0, <1>1, <3>1, HasPlayersStill
  <2>3. QED
    BY <2>1, <2>2
<1>8. ASSUME NEW d \in Clients, NEW from \in {"join", "random"}, NEW id \in DOMAIN sessions,
             EnterJoin(d, from, id)
      PROVE  HasPlayers(c)'
  <2>1. CASE d = c
    BY <1>8, <2>1 DEF EnterJoin, HasPlayers, LeadPCs, InGame
  <2>2. CASE d # c
    <3>1. /\ UNCHANGED <<pc[c], session[c], game[c], players[c]>>
          /\ Live(c)' <=> Live(c)
      BY <1>8, <2>2 DEF EnterJoin, Live
    <3>2. QED
      BY <1>0, <1>1, <3>1, HasPlayersStill
  <2>3. QED
    BY <2>1, <2>2
<1>9. ASSUME NEW d \in Clients, EmplacePlayer(d) PROVE HasPlayers(c)'
  <2>1. CASE d = c
    BY <1>9, <2>1 DEF EmplacePlayer, HasPlayers, LeadPCs, InGame
  <2>2. CASE d # c
    <3>1. /\ UNCHANGED <<pc[c], session[c], game[c]>>
          /\ players'[c] = players[c] \/ players'[c] = Append(players[c], d)
          /\ Live(c)' <=> Live(c)
      BY <1>9, <2>2 DEF EmplacePlayer, AddPlayer, Live
    <3>2. QED
      BY <1>0, <1>1, <3>1, HasPlayersStill
  <2>3. QED
    BY <2>1, <2>2
<1>10. ASSUME NEW d \in Clients, NotifyErased(d) PROVE HasPlayers(c)'
  <2>1. CASE d = c
    BY <1>10, <2>1 DEF NotifyErased, HasPlayers, LeadPCs, InGame
  <2>2. CASE d # c
    <3>1. UNCHANGED <<pc[c], session[c], game[c], players[c]>>
      BY <1>10, <2>2 DEF NotifyErased
    <3>2. Live(c)' <=> Live(c)
      BY <1>10, <2>2, InsertLive DEF NotifyErased
    <3>3. QED
      BY <1>0, <1>1, <3>1, <3>2, HasPlayersStill
  <2>3. QED
    BY <2>1, <2>2
<1>11. QED
  BY <1>2, <1>3, <1>4, <1>5, <1>6, <1>7, <1>8, <1>9, <1>10, StepKinds DEF Loud

(* Nobody leads before its create, and whoever owns a Session leads it.    *)
LEMMA LeadersStep ==
  ASSUME RoomsInv, SoleInv, [Next]_vars
  PROVE  /\ \A c \in Clients : pc'[c] \in Unplaced => ~Leads(c)'
         /\ \A o \in Clients : session'[o] = o => Leads(o)'
<1> USE DEF RoomsInv, TypeInv, TypeOK, Step, threadVars, objectVars, Leads
<1>0. /\ \A c \in Clients : pc[c] \in Unplaced => ~Leads(c)
      /\ \A o \in Clients : session[o] = o => Leads(o)
  BY DEF SoleInv
<1>1. CASE Quiet
  BY <1>0, <1>1 DEF Quiet
<1>2. ASSUME NEW c \in Clients, EmplaceSession(c)
      PROVE  /\ \A d \in Clients : pc'[d] \in Unplaced => ~Leads(d)'
             /\ \A o \in Clients : session'[o] = o => Leads(o)'
  BY <1>0, <1>2, LobbyAssumption DEF EmplaceSession, Unplaced
<1>3. ASSUME NEW c \in Clients, ReuseSession(c)
      PROVE  /\ \A d \in Clients : pc'[d] \in Unplaced => ~Leads(d)'
             /\ \A o \in Clients : session'[o] = o => Leads(o)'
  <2>1. ~Live(c)
    BY <1>3 DEF ReuseSession, RegistryInv, Sessionless, Unplaced
  <2>2. NewId \in DOMAIN sessions /\ sessions[NewId] # c
    BY <1>3, <2>1 DEF ReuseSession, Registered, Live
  <2>3. /\ pc' = [pc EXCEPT ![c] = "created"]
        /\ session' = [session EXCEPT ![c] = sessions[NewId]]
        /\ \A d \in Clients \ {c} : player_socket'[d] = player_socket[d]
    BY <1>3 DEF ReuseSession
  <2>4. QED
    BY <1>0, <2>2, <2>3 DEF Unplaced
<1>4. ASSUME NEW c \in Clients, NEW from \in {"join", "random"}, NEW id \in DOMAIN sessions,
             EnterJoin(c, from, id)
      PROVE  /\ \A d \in Clients : pc'[d] \in Unplaced => ~Leads(d)'
             /\ \A o \in Clients : session'[o] = o => Leads(o)'
  <2>1. /\ pc[c] = from /\ pc' = [pc EXCEPT ![c] = "emplace"]
        /\ session' = [session EXCEPT ![c] = sessions[id]]
        /\ player_socket' = player_socket
    BY <1>4 DEF EnterJoin
  <2>2. ~Live(c) /\ pc[c] \in Unplaced
    BY <2>1 DEF RegistryInv, Sessionless, Unplaced
  <2>3. sessions[id] # c
    BY <2>2 DEF Live
  <2>4. QED
    BY <1>0, <2>1, <2>2, <2>3
<1>5. ASSUME NEW c \in Clients,
             \/ EraseQuit(c) \/ EraseStart(c) \/ BuildGame(c) \/ EndGame(c)
             \/ EmplacePlayer(c) \/ NotifyErased(c)
      PROVE  /\ \A d \in Clients : pc'[d] \in Unplaced => ~Leads(d)'
             /\ \A o \in Clients : session'[o] = o => Leads(o)'
  <2>1. UNCHANGED <<player_socket, session>>
    BY <1>5 DEF EraseQuit, EraseStart, EraseSession, BuildGame, EndGame, EmplacePlayer, NotifyErased
  <2>2. \A d \in Clients : pc'[d] \in Unplaced => pc[d] \in Unplaced
    BY <1>5 DEF EraseQuit, EraseStart, BuildGame, EndGame, EmplacePlayer, NotifyErased, Unplaced
  <2>3. QED
    BY <1>0, <2>1, <2>2
<1>6. QED
  BY <1>1, <1>2, <1>3, <1>4, <1>5, StepKinds DEF Loud

LEMMA SoleInvHolds == Spec => []SoleInv
<1>1. RoomsInv /\ SoleInv /\ [Next]_vars => SoleInv'
  BY SoleStep, LeadersStep DEF SoleInv
<1>2. QED
  BY <1>1, SoleInit, RoomsInvHolds, PTL DEF Spec

(* A game that one thread alone has led to its start has two players or    *)
(* more, however long ago they were counted: GameHasPlayers.               *)
THEOREM GameHasPlayersHolds == Spec => []GameHasPlayers
<1>1. SoleInv => GameHasPlayers
  BY DEF SoleInv, GameHasPlayers, HasPlayers, InGame
<1>2. QED
  BY <1>1, SoleInvHolds, PTL
-----------------------------------------------------------------------------
(***************************************************************************)
(* Mutexes and their owners.  While no id has been handed out twice every  *)
(* thread leads the Session that it has created, nobody else's erase meets *)
(* it, and so the mutex that it holds there without the registry's stays.  *)
(***************************************************************************)
HomeInv ==
  ~IdReused => \A c \in Clients : pc[c] \in LeadPCs => Live(session[c])

LEMMA HomeInit == Init => HomeInv
BY DEF Init, HomeInv, LeadPCs

LEMMA HomeStep ==
  ASSUME RoomsInv, SoleInv, HomeInv, [Next]_vars, ~IdReused',
         NEW c \in Clients, pc'[c] \in LeadPCs
  PROVE  Live(session[c])'
<1> USE DEF RoomsInv, TypeInv, TypeOK, Step, threadVars, objectVars
<1>1. ~IdReused
  BY LeadersStay DEF IdReused
<1>2. \A d \in Clients : pc[d] \in LeadPCs => Live(session[d])
  BY <1>1 DEF HomeInv
<1>3. CASE UNCHANGED <<pc, session, sessions>>
  BY <1>2, <1>3 DEF Live
<1>4. CASE fault = "none" /\ Quiet
  <2>1. UNCHANGED <<session, sessions>> /\ pc[c] \in LeadPCs
    BY <1>4 DEF Quiet
  <2>2. QED
    BY <1>2, <2>1 DEF Live
<1>5. ASSUME NEW d \in Clients, EmplaceSession(d) PROVE Live(session[c])'
  <2>1. \A q \in Clients : Live(q)' <=> Live(q) \/ q = d
    BY <1>5, InsertLive, NewIdType DEF EmplaceSession
  <2>2. /\ session' = [session EXCEPT ![d] = d] /\ pc' = [pc EXCEPT ![d] = "created"]
    BY <1>5 DEF EmplaceSession
  <2>3. session'[c] \in Clients /\ (session'[c] = d \/ Live(session'[c]))
    BY <1>2, <2>2 DEF RegistryInv
  <2>4. PICK q \in Clients : q = session'[c]
    BY <2>3
  <2>5. Live(q)'
    BY <2>1, <2>3, <2>4
  <2>6. QED
    BY <2>4, <2>5 DEF Live
<1>6. ASSUME NEW d \in Clients, ReuseSession(d) PROVE Live(session[c])'
  <2>1. /\ session' = [session EXCEPT ![d] = sessions[NewId]] /\ NewId \in DOMAIN sessions
        /\ pc' = [pc EXCEPT ![d] = "created"] /\ UNCHANGED sessions
    BY <1>6 DEF ReuseSession, Registered
  <2>2. QED
    BY <1>2, <2>1 DEF Live
<1>7. ASSUME NEW d \in Clients, EraseQuit(d) \/ EraseStart(d) PROVE Live(session[c])'
  <2>1. EraseSession(d) /\ UNCHANGED session
    BY <1>7 DEF EraseQuit, EraseStart, EraseSession
  <2>2. fault = "none" /\ pc[d] \in LeadPCs /\ pc[c] \in LeadPCs /\ c # d
    BY <1>7 DEF EraseQuit, EraseStart, LeadPCs
  <2>3. Leads(c) /\ Leads(d)
    BY <2>2, LobbyAssumption DEF RefsBound, Leads
  <2>4. session[c] = c /\ session[d] = d
    BY <1>1, <2>3 DEF IdReused
  <2>5. sessions[session_id[d]] = d /\ Live(c)
    BY <1>2, <2>2, <2>4 DEF RegistryInv
  <2>6. Live(c)'
    BY <2>1, <2>2, <2>5, EraseLive
  <2>7. QED
    BY <2>1, <2>4, <2>6 DEF Live
<1>8. ASSUME NEW d \in Clients, BuildGame(d) \/ EndGame(d) \/ EmplacePlayer(d)
      PROVE  Live(session[c])'
  <2>1. UNCHANGED <<session, sessions>> /\ pc[c] \in LeadPCs
    BY <1>8 DEF BuildGame, EndGame, EmplacePlayer, LeadPCs
  <2>2. QED
    BY <1>2, <2>1 DEF Live
<1>9. ASSUME NEW d \in Clients, NEW from \in {"join", "random"}, NEW id \in DOMAIN sessions,
             EnterJoin(d, from, id)
      PROVE  Live(session[c])'
  <2>1. UNCHANGED <<session[c], sessions>> /\ pc[c] \in LeadPCs
    BY <1>9 DEF EnterJoin, LeadPCs
  <2>2. QED
    BY <1>2, <2>1 DEF Live
<1>10. ASSUME NEW d \in Clients, NotifyErased(d) PROVE Live(session[c])'
  <2>1. UNCHANGED session /\ pc[c] \in LeadPCs
    BY <1>10 DEF NotifyErased, LeadPCs
  <2>2. PICK q \in Clients : q = session[c] /\ Live(q)
    BY <1>2, <2>1 DEF RegistryInv
  <2>3. Live(q)'
    BY <1>10, <2>2, InsertLive DEF NotifyErased
  <2>4. QED
    BY <2>1, <2>2, <2>3 DEF Live
<1>11. CASE UNCHANGED vars
  BY <1>3, <1>11 DEF vars
<1>12. QED
  BY <1>4, <1>5, <1>6, <1>7, <1>8, <1>9, <1>10, <1>11, EndedIsStill, StepKinds DEF Loud

LEMMA HomeInvHolds == Spec => []HomeInv
<1>1. RoomsInv /\ SoleInv /\ HomeInv /\ [Next]_vars => HomeInv'
  BY HomeStep DEF HomeInv
<1>2. QED
  BY <1>1, HomeInit, RoomsInvHolds, SoleInvHolds, PTL DEF Spec

(* No session's mutex is destroyed while a thread holds it, be it a join   *)
(* under the registry's or a closing leader's broadcast without it, unless *)
(* two threads have created a session under one id: MutexOutlivesHolder.   *)
THEOREM MutexOutlivesHolderHolds == Spec => []MutexOutlivesHolder
<1>1. RoomsInv /\ LockInv /\ HomeInv => MutexOutlivesHolder
  <2> SUFFICES ASSUME RoomsInv, LockInv, HomeInv, NEW o \in Clients,
                      session_mutex[o] # NoOne, ~IdReused
               PROVE  Live(o)
    BY DEF MutexOutlivesHolder
  <2>1. PICK c \in Clients : session_mutex[o] = c
    BY DEF RoomsInv, TypeInv, TypeOK
  <2>2. session[c] = o /\ pc[c] \in {"emplace", "closing"}
    BY <2>1 DEF LockInv
  <2>3. CASE pc[c] = "emplace"
    BY <2>2, <2>3 DEF RoomsInv, LeaderInv
  <2>4. CASE pc[c] = "closing"
    BY <2>2, <2>4 DEF HomeInv, LeadPCs
  <2>5. QED
    BY <2>2, <2>3, <2>4
<1>2. RoomsInv /\ LockInv /\ [Next]_vars => LockInv'
  BY LockStep DEF RoomsInv, TypeInv
<1>3. QED
  BY <1>1, <1>2, LockInit, RoomsInvHolds, HomeInvHolds, PTL DEF Spec
=============================================================================
