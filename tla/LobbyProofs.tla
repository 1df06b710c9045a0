----------------------------- MODULE LobbyProofs -----------------------------
(***************************************************************************)
(* Theorems about the lobby, for any number of clients, any capacity and   *)
(* any requested ids.                                                      *)
(***************************************************************************)
EXTENDS Lobby, TLAPS, FiniteSetTheorems

(* Where create_session runs with its references bound.                    *)
LeadPCs == {"created", "ack", "wait", "invalidate", "closing", "eraseQuit",
            "announce", "build", "eraseStart"}

(* Where a joiner has picked its Session.                                  *)
JoinPCs == {"emplace", "joinAck", "notify"}

(* The local references are bound wherever they are used.                  *)
RefsBound ==
  fault = "none" => \A c \in Clients :
    /\ pc[c] \in LeadPCs => session[c] \in Clients /\ player_socket[c] \in Clients
    /\ pc[c] \in JoinPCs => session[c] \in Clients

TypeInv == TypeOK /\ RefsBound
-----------------------------------------------------------------------------
(* Sending and dereferencing have outcomes among the faults.               *)
LEMMA OutcomesAreFaults ==
  /\ \A S : SendOutcomes(S) \subseteq Faults
  /\ \A o : BroadcastOutcomes(o) \subseteq Faults /\ DisplayOutcomes(o) \subseteq Faults
  /\ \A valid, T : T \subseteq Faults => Deref(valid, T) \subseteq Faults
BY DEF SendOutcomes, BroadcastOutcomes, DisplayOutcomes, Deref, Faults

(* An InfoMessage goes to clients.                                         *)
LEMMA InformType ==
  ASSUME TypeOK, NEW s \in Seq(Clients), Inform(Range(s))
  PROVE  early' \subseteq Clients /\ acked' = acked
<1>1. Range(s) \subseteq Clients
  BY DEF Range
<1>2. QED
  BY <1>1 DEF Inform, TypeOK

LEMMA TypeInit == Init => TypeInv
<1> SUFFICES ASSUME Init PROVE TypeInv
  OBVIOUS
<1>1. IsFiniteSet(DOMAIN sessions)
  BY FS_EmptySet DEF Init
<1>2. QED
  BY <1>1 DEF Init, TypeInv, TypeOK, RefsBound, PCs, Faults, LeadPCs, JoinPCs

(* The registry stays a finite map when an entry is added.                 *)
LEMMA InsertType ==
  ASSUME TypeOK, NEW id \in Nat, NEW o \in Clients, Insert(id, o)
  PROVE  /\ DOMAIN sessions' \subseteq Nat /\ IsFiniteSet(DOMAIN sessions')
         /\ sessions' \in [DOMAIN sessions' -> Clients]
<1>1. IsFiniteSet(DOMAIN sessions \cup {id})
  BY FS_AddElement DEF TypeOK
<1>2. QED
  BY <1>1 DEF TypeOK, Insert

LEMMA NewIdType == TypeOK => NewId \in Nat
BY FS_CardinalityType DEF TypeOK, NewId

(* An erase leaves well-typed objects.                                     *)
LEMMA EraseType ==
  ASSUME TypeOK, NEW c \in Clients, EraseSession(c)
  PROVE  /\ DOMAIN sessions' \subseteq Nat /\ IsFiniteSet(DOMAIN sessions')
         /\ sessions' \in [DOMAIN sessions' -> Clients]
         /\ players' \in [Clients -> Seq(Clients)]
         /\ numPlayers' \in [Clients -> Nat]
<1>1. CASE Registered(session_id[c])
  <2>1. IsFiniteSet(DOMAIN sessions \ {session_id[c]})
    BY FS_RemoveElement DEF TypeOK
  <2>2. sessions[session_id[c]] \in Clients
    BY <1>1 DEF TypeOK, Registered
  <2> DEFINE o == sessions[session_id[c]]
             D == DOMAIN sessions \ {session_id[c]}
  <2>3. /\ sessions' = [id \in D |-> sessions[id]]
        /\ players' = [players EXCEPT ![o] = <<>>]
        /\ numPlayers' = [numPlayers EXCEPT ![o] = 0]
    BY <1>1 DEF EraseSession, Restrict
  <2>4. players' \in [Clients -> Seq(Clients)]
    BY <2>2, <2>3 DEF TypeOK
  <2>5. numPlayers' \in [Clients -> Nat]
    BY <2>2, <2>3 DEF TypeOK
  <2>6. DOMAIN sessions' = D /\ sessions' \in [D -> Clients]
    BY <2>3 DEF TypeOK
  <2>7. QED
    BY <2>1, <2>4, <2>5, <2>6 DEF TypeOK
<1>2. CASE ~Registered(session_id[c])
  BY <1>2 DEF TypeOK, EraseSession, objectVars
<1>3. QED
  BY <1>1, <1>2

LEMMA TypeStep == TypeInv /\ [Next]_vars => TypeInv'
<1> SUFFICES ASSUME TypeInv, [Next]_vars PROVE TypeInv'
  OBVIOUS
<1> USE DEF TypeInv, TypeOK, RefsBound, PCs, LeadPCs, JoinPCs, Step,
            threadVars, objectVars, lockVars, clientVars, sentVars
<1>1. ASSUME NEW c \in Clients, Accept(c) PROVE TypeInv'
  BY <1>1 DEF Accept
<1>2. ASSUME NEW c \in Clients, Greet(c) PROVE TypeInv'
  BY <1>2, OutcomesAreFaults DEF Greet
<1>3. ASSUME NEW c \in Clients, DropRequest(c) PROVE TypeInv'
  BY <1>3 DEF DropRequest
<1>4. ASSUME NEW c \in Clients, ReadRequest(c) PROVE TypeInv'
  <2>1. PICK o \in {"create", "join", "random"} :
          /\ pc' = [pc EXCEPT ![c] = o]
          /\ op' = [op EXCEPT ![c] = o]
    BY <1>4 DEF ReadRequest
  <2>2. session_id' \in [Clients -> Nat]
    <3>1. session_id' = session_id \/ \E id \in AskIds : session_id' = [session_id EXCEPT ![c] = id]
      BY <1>4 DEF ReadRequest
    <3>2. QED
      BY <3>1, LobbyAssumption
  <2>3. UNCHANGED <<session, player_socket, objectVars, game, lockVars, clientVars, sentVars, fault>>
    BY <1>4 DEF ReadRequest
  <2>4. op' \in [Clients -> {"none", "create", "join", "random"}]
    BY <2>1
  <2>5. pc' \in [Clients -> PCs] /\ pc'[c] \notin LeadPCs \cup JoinPCs
    BY <2>1
  <2>6. RefsBound'
    BY <2>1, <2>3, <2>5
  <2>7. QED
    BY <2>2, <2>3, <2>4, <2>5, <2>6
<1>5. ASSUME NEW c \in Clients, EmplaceSession(c) PROVE TypeInv'
  <2>1. NewId \in Nat
    BY NewIdType
  <2>2. /\ DOMAIN sessions' \subseteq Nat /\ IsFiniteSet(DOMAIN sessions')
        /\ sessions' \in [DOMAIN sessions' -> Clients]
    BY <1>5, <2>1, InsertType DEF EmplaceSession
  <2>3. players' \in [Clients -> Seq(Clients)]
    BY <1>5, <<c>> \in Seq(Clients) DEF EmplaceSession
  <2>4. QED
    BY <1>5, <2>1, <2>2, <2>3 DEF EmplaceSession
<1>6. ASSUME NEW c \in Clients, ReuseSession(c) PROVE TypeInv'
  <2>1. sessions[NewId] \in Clients /\ NewId \in Nat
    BY <1>6, NewIdType DEF ReuseSession, Registered
  <2>2. players[sessions[NewId]] # <<>> => Head(players[sessions[NewId]]) \in Clients
    BY <2>1
  <2>3. CASE players[sessions[NewId]] = <<>>
    BY <1>6, <2>1, <2>3 DEF ReuseSession, Faults
  <2>4. CASE players[sessions[NewId]] # <<>>
    BY <1>6, <2>1, <2>2, <2>4 DEF ReuseSession
  <2>5. QED
    BY <2>3, <2>4
<1>7. ASSUME NEW c \in Clients, LogCreated(c) PROVE TypeInv'
  BY <1>7 DEF LogCreated, Faults
<1>8. ASSUME NEW c \in Clients, SendCreateAck(c) PROVE TypeInv'
  BY <1>8, OutcomesAreFaults DEF SendCreateAck
<1>9. ASSUME NEW c \in Clients, RefuseStart(c) PROVE TypeInv'
  BY <1>9, OutcomesAreFaults DEF RefuseStart
<1>10. ASSUME NEW c \in Clients, AcceptStart(c) PROVE TypeInv'
  BY <1>10, OutcomesAreFaults DEF AcceptStart
<1>11. ASSUME NEW c \in Clients, LoseLeader(c) PROVE TypeInv'
  BY <1>11 DEF LoseLeader
<1>12. ASSUME NEW c \in Clients, ReadStale(c) PROVE TypeInv'
  BY <1>12 DEF ReadStale, Faults
<1>13. ASSUME NEW c \in Clients, Invalidate(c) PROVE TypeInv'
  <2>1. fault' \in Faults
    BY <1>13 DEF Invalidate, Deref, Faults
  <2>2. QED
    BY <1>13, <2>1 DEF Invalidate
<1>14. ASSUME NEW c \in Clients, EraseQuit(c) PROVE TypeInv'
  <2>1. EraseSession(c)
    BY <1>14 DEF EraseQuit
  <2>2. QED
    BY <1>14, <2>1, EraseType DEF EraseQuit, EraseSession
<1>15. ASSUME NEW c \in Clients, Announce(c) PROVE TypeInv'
  <2>1. early' \subseteq Clients /\ acked' = acked
    BY <1>15, InformType DEF Announce
  <2>2. QED
    BY <1>15, <2>1, OutcomesAreFaults DEF Announce, Unlocking
<1>16. ASSUME NEW c \in Clients, BuildGame(c) PROVE TypeInv'
  <2>1. players' \in [Clients -> Seq(Clients)] /\ game' \in [Clients -> Seq(Clients)]
    BY <1>16 DEF BuildGame, MovePlayers
  <2>2. fault' \in Faults
    BY <1>16 DEF BuildGame, Faults, Deref
  <2>3. QED
    BY <1>16, <2>1, <2>2 DEF BuildGame
<1>17. ASSUME NEW c \in Clients, EraseStart(c) PROVE TypeInv'
  <2>1. EraseSession(c)
    BY <1>17 DEF EraseStart
  <2>2. QED
    BY <1>17, <2>1, EraseType DEF EraseStart, EraseSession
<1>18. ASSUME NEW c \in Clients, StartGame(c) PROVE TypeInv'
  <2>1. early' \subseteq Clients /\ acked' = acked
    BY <1>18, InformType DEF StartGame
  <2>2. fault' \in Faults
    BY <1>18, OutcomesAreFaults DEF StartGame
  <2>3. QED
    BY <1>18, <2>1, <2>2 DEF StartGame
<1>19. ASSUME NEW c \in Clients, EndGame(c) PROVE TypeInv'
  <2>1. fault' \in Faults
    BY <1>19, OutcomesAreFaults DEF EndGame
  <2>2. game' \in [Clients -> Seq(Clients)]
    BY <1>19 DEF EndGame
  <2>3. QED
    BY <1>19, <2>1, <2>2 DEF EndGame
<1>20. ASSUME NEW c \in Clients, RefuseJoin(c) PROVE TypeInv'
  BY <1>20, OutcomesAreFaults DEF RefuseJoin, Unlocking
<1>21. ASSUME NEW c \in Clients, JoinSession(c) PROVE TypeInv'
  BY <1>21 DEF JoinSession, EnterJoin, Registered
<1>22. ASSUME NEW c \in Clients, JoinRandom(c) PROVE TypeInv'
  BY <1>22 DEF JoinRandom, EnterJoin, Registered
<1>23. ASSUME NEW c \in Clients, NoRandomSession(c) PROVE TypeInv'
  BY <1>23, OutcomesAreFaults DEF NoRandomSession, Unlocking
<1>24. ASSUME NEW c \in Clients, EmplacePlayer(c) PROVE TypeInv'
  <2>1. /\ session[c] \in Clients
        /\ players' = [players EXCEPT ![session[c]] = Append(@, c)]
        /\ numPlayers' = [numPlayers EXCEPT ![session[c]] = @ + 1]
    BY <1>24 DEF EmplacePlayer, AddPlayer
  <2>2. players' \in [Clients -> Seq(Clients)] /\ numPlayers' \in [Clients -> Nat]
    BY <2>1
  <2>3. sessions_mutex' = NoOne /\ session_mutex' \in [Clients -> Clients \cup {NoOne}]
    BY <1>24 DEF EmplacePlayer, UnlockBoth
  <2>4. QED
    BY <1>24, <2>2, <2>3 DEF EmplacePlayer
<1>25. ASSUME NEW c \in Clients, SendJoinAck(c) PROVE TypeInv'
  BY <1>25, OutcomesAreFaults DEF SendJoinAck
<1>26. ASSUME NEW c \in Clients, NotifySession(c) PROVE TypeInv'
  <2>1. early' \subseteq Clients /\ acked' = acked
    BY <1>26, InformType DEF NotifySession, Registered
  <2>2. QED
    BY <1>26, <2>1, OutcomesAreFaults DEF NotifySession, Unlocking
<1>27. ASSUME NEW c \in Clients, NotifyErased(c) PROVE TypeInv'
  <2>1. Insert(session_id[c], c) /\ session_id[c] \in Nat
    BY <1>27 DEF NotifyErased
  <2>2. /\ DOMAIN sessions' \subseteq Nat /\ IsFiniteSet(DOMAIN sessions')
        /\ sessions' \in [DOMAIN sessions' -> Clients]
    BY <2>1, InsertType
  <2>3. fault' \in Faults /\ players' \in [Clients -> Seq(Clients)]
    BY <1>27, <<>> \in Seq(Clients) DEF NotifyErased, Deref, Faults
  <2>4. QED
    BY <1>27, <2>1, <2>2, <2>3 DEF NotifyErased, Unlocking
<1>28. ASSUME NEW c \in Clients, Leave(c) PROVE TypeInv'
  BY <1>28 DEF Leave
<1>29. ASSUME NEW c \in Clients, SendStart(c) PROVE TypeInv'
  BY <1>29 DEF SendStart
<1>30. ASSUME NEW c \in Clients, LockRegistry(c) PROVE TypeInv'
  BY <1>30 DEF LockRegistry
<1>31. ASSUME NEW c \in Clients, CloseSession(c) PROVE TypeInv'
  <2>1. early' \subseteq Clients /\ acked' = acked
    BY <1>31, InformType DEF CloseSession
  <2>2. QED
    BY <1>31, <2>1, OutcomesAreFaults DEF CloseSession, UnlockSession
<1>32. CASE UNCHANGED vars
  BY <1>32 DEF vars
<1>33. QED
  BY <1>1, <1>2, <1>3, <1>4, <1>5, <1>6, <1>7, <1>8, <1>9, <1>10, <1>11, <1>12,
     <1>13, <1>14, <1>15, <1>16, <1>17, <1>18, <1>19, <1>20, <1>21, <1>22, <1>23,
     <1>24, <1>25, <1>26, <1>27, <1>28, <1>29, <1>30, <1>31, <1>32
     DEF Next, ThreadStep, ClientStep, Finished

(* The lobby keeps its types; in particular no thread reads a reference    *)
(* that create_session or a join has not bound.                            *)
THEOREM TypeCorrect == Spec => [](TypeOK /\ RefsBound)
<1>1. TypeInv <=> TypeOK /\ RefsBound
  BY DEF TypeInv
<1>2. QED
  BY TypeInit, TypeStep, <1>1, PTL DEF Spec
-----------------------------------------------------------------------------
(***************************************************************************)
(* Most steps touch no session and no game and leave a joiner that is      *)
(* about to append its mutex; the invariants below only have to look at    *)
(* the others.                                                             *)
(***************************************************************************)

(* c's socket is still a local of its thread.                              *)
Unplaced == {"idle", "greet", "request", "create", "join", "random", "emplace"}

(* c has put no Session into the map.                                      *)
Sessionless == Unplaced \cup {"joinAck", "notify"}

(* c's thread holds a Game.                                                *)
InGame == {"eraseStart", "play", "turn"}

Quiet ==
  /\ UNCHANGED <<session, player_socket, sessions, players, numPlayers, game>>
  /\ \A c \in Clients : pc[c] = "emplace" /\ sessions_mutex = c => sessions_mutex' = c
  /\ \/ UNCHANGED <<pc, session_id>>
     \/ \E c \in Clients, p \in PCs :
          /\ pc' = [pc EXCEPT ![c] = p]
          /\ "emplace" \notin {p, pc[c]} /\ "eraseStart" \notin {p, pc[c]}
          /\ p \in Unplaced => pc[c] \in Unplaced
          /\ p \in Sessionless => pc[c] \in Sessionless
          /\ p \in JoinPCs => pc[c] \in JoinPCs
          /\ p \in LeadPCs => pc[c] \in LeadPCs
          /\ p \in InGame <=> pc[c] \in InGame
          /\ p = "announce" => pc[c] = "wait" /\ EnoughPlayers(session[c])
          /\ p = "build" => pc[c] = "announce"
          /\ \/ session_id' = session_id
             \/ /\ pc[c] = "request"
                /\ \A d \in Clients \ {c} : session_id'[d] = session_id[d]

Loud(c) ==
  \/ EmplaceSession(c) \/ ReuseSession(c) \/ EraseQuit(c)
  \/ BuildGame(c) \/ EraseStart(c) \/ EndGame(c)
  \/ (\E from \in {"join", "random"}, id \in DOMAIN sessions : EnterJoin(c, from, id))
  \/ EmplacePlayer(c) \/ NotifyErased(c)

LEMMA StepKinds ==
  ASSUME TypeOK, [Next]_vars
  PROVE  Quiet \/ \E c \in Clients : Loud(c)
<1> USE DEF TypeOK, Quiet, PCs, LeadPCs, JoinPCs, Sessionless, Unplaced, InGame, Step,
            threadVars, objectVars, lockVars, clientVars
<1>1. ASSUME NEW c \in Clients,
             \/ Accept(c) \/ Greet(c) \/ DropRequest(c) \/ LogCreated(c)
             \/ SendCreateAck(c) \/ LoseLeader(c) \/ ReadStale(c)
      PROVE  Quiet
  BY <1>1 DEF Accept, Greet, DropRequest, LogCreated, SendCreateAck, LoseLeader, ReadStale
<1>2. ASSUME NEW c \in Clients, ReadRequest(c) PROVE Quiet
  <2>1. PICK o \in {"create", "join", "random"} : pc' = [pc EXCEPT ![c] = o]
    BY <1>2 DEF ReadRequest
  <2>2. UNCHANGED <<session, player_socket, sessions, players, numPlayers, game,
                   sessions_mutex>>
    BY <1>2 DEF ReadRequest
  <2>3. pc[c] = "request"
    BY <1>2 DEF ReadRequest
  <2>4. \A d \in Clients \ {c} : session_id'[d] = session_id[d]
    BY <1>2 DEF ReadRequest
  <2>5. QED
    BY <2>1, <2>2, <2>3, <2>4
<1>3. ASSUME NEW c \in Clients,
             \/ RefuseStart(c) \/ AcceptStart(c) \/ Invalidate(c) \/ CloseSession(c)
             \/ LockRegistry(c)
      PROVE  Quiet
  BY <1>3, LobbyAssumption
     DEF RefuseStart, AcceptStart, Invalidate, CloseSession, UnlockSession, LockRegistry
<1>4. ASSUME NEW c \in Clients,
             \/ StartGame(c) \/ Announce(c) \/ RefuseJoin(c) \/ NoRandomSession(c)
             \/ SendJoinAck(c) \/ NotifySession(c)
      PROVE  Quiet
  <2>1. CASE StartGame(c) \/ SendJoinAck(c)
    BY <2>1 DEF StartGame, SendJoinAck
  <2>2. CASE Announce(c) \/ RefuseJoin(c) \/ NoRandomSession(c) \/ NotifySession(c)
    BY <2>2 DEF Announce, RefuseJoin, NoRandomSession, NotifySession, Unlocking
  <2>3. QED
    BY <1>4, <2>1, <2>2
<1>5. ASSUME NEW c \in Clients, Leave(c) \/ SendStart(c) PROVE Quiet
  BY <1>5 DEF Leave, SendStart
<1>6. CASE UNCHANGED vars
  BY <1>6 DEF vars
<1>7. ASSUME NEW c \in Clients, JoinSession(c) \/ JoinRandom(c) PROVE Loud(c)
  BY <1>7 DEF JoinSession, JoinRandom, EnterJoin, Registered, Loud
<1>8. QED
  BY <1>1, <1>2, <1>3, <1>4, <1>5, <1>6, <1>7
     DEF Next, ThreadStep, ClientStep, Finished, Loud
-----------------------------------------------------------------------------
(***************************************************************************)
(* Capacity.  A joiner checks for room before it appends, and nothing else *)
(* changes the count in between, because it holds the registry's mutex.    *)
(***************************************************************************)
CapacityInv ==
  /\ \A o \in Clients : Len(players[o]) <= numPlayers[o] /\ numPlayers[o] <= MaxPlayers
  /\ \A c \in Clients : Len(game[c]) <= MaxPlayers
  /\ \A c \in Clients :
       pc[c] = "emplace" => sessions_mutex = c /\ numPlayers[session[c]] < MaxPlayers

(* While the registry's mutex is free no joiner is about to append.        *)
LEMMA NoJoinerInside ==
  ASSUME TypeOK, CapacityInv, sessions_mutex = NoOne, NEW c \in Clients
  PROVE  pc[c] # "emplace"
BY LobbyAssumption DEF CapacityInv

(* Nor is any but its holder.                                              *)
LEMMA OneJoinerInside ==
  ASSUME CapacityInv, NEW c \in Clients, sessions_mutex = c, pc[c] # "emplace"
  PROVE  \A d \in Clients : pc[d] # "emplace"
BY DEF CapacityInv

(* An erase empties one object at most.                                    *)
LEMMA EraseEffect ==
  ASSUME TypeOK, NEW c \in Clients, EraseSession(c)
  PROVE  /\ \A o \in Clients :
              \/ players'[o] = players[o] /\ numPlayers'[o] = numPlayers[o]
              \/ players'[o] = <<>> /\ numPlayers'[o] = 0
         /\ sessions_mutex = NoOne
         /\ UNCHANGED <<session, session_id, game, sessions_mutex, session_mutex>>
BY DEF TypeOK, EraseSession, Registered, threadVars, objectVars, lockVars

LEMMA CapacityInit == Init => CapacityInv
BY LobbyAssumption DEF Init, CapacityInv

LEMMA CapacityStep ==
  ASSUME TypeInv, CapacityInv, [Next]_vars
  PROVE  CapacityInv'
<1> USE DEF TypeInv, TypeOK, CapacityInv, Step, PCs, threadVars, objectVars, lockVars
<1>1. CASE Quiet
  BY <1>1 DEF Quiet
<1>2. ASSUME NEW c \in Clients, EmplaceSession(c) PROVE CapacityInv'
  <2>1. \A d \in Clients : pc[d] # "emplace"
    BY <1>2, NoJoinerInside DEF EmplaceSession
  <2>2. \A d \in Clients : pc'[d] # "emplace"
    BY <1>2, <2>1 DEF EmplaceSession
  <2>3. QED
    BY <1>2, <2>2, LobbyAssumption DEF EmplaceSession
<1>3. ASSUME NEW c \in Clients, ReuseSession(c) PROVE CapacityInv'
  <2>1. \A d \in Clients : pc[d] # "emplace"
    BY <1>3, NoJoinerInside DEF ReuseSession
  <2>2. QED
    BY <1>3, <2>1 DEF ReuseSession
<1>4. ASSUME NEW c \in Clients, EraseQuit(c) \/ EraseStart(c) PROVE CapacityInv'
  <2>1. EraseSession(c)
    BY <1>4 DEF EraseQuit, EraseStart
  <2>2. \A d \in Clients : pc[d] # "emplace"
    BY <2>1, NoJoinerInside DEF EraseSession
  <2>3. \A d \in Clients : pc'[d] # "emplace"
    BY <1>4, <2>2 DEF EraseQuit, EraseStart
  <2>4. \A o \in Clients : Len(players'[o]) <= numPlayers'[o] /\ numPlayers'[o] <= MaxPlayers
    <3>1. Len(<<>>) <= 0 /\ 0 <= MaxPlayers
      BY LobbyAssumption
    <3>2. QED
      BY <2>1, <3>1, EraseEffect
  <2>5. QED
    BY <2>1, <2>3, <2>4, EraseEffect
<1>5. ASSUME NEW c \in Clients, BuildGame(c) PROVE CapacityInv'
  <2>1. session[c] \in Clients
    BY <1>5 DEF BuildGame, RefsBound, LeadPCs
  <2>2. QED
    BY <1>5, <2>1, LobbyAssumption DEF BuildGame, MovePlayers
<1>6. ASSUME NEW c \in Clients, EndGame(c) PROVE CapacityInv'
  BY <1>6, LobbyAssumption DEF EndGame
<1>7. ASSUME NEW c \in Clients, NEW from \in {"join", "random"}, NEW id \in DOMAIN sessions,
             EnterJoin(c, from, id)
      PROVE  CapacityInv'
  <2>1. \A d \in Clients : pc[d] # "emplace"
    BY <1>7, OneJoinerInside DEF EnterJoin
  <2>2. sessions[id] \in Clients /\ numPlayers[sessions[id]] < MaxPlayers
    BY <1>7, LobbyAssumption DEF EnterJoin, Joinable, Full
  <2>3. QED
    BY <1>7, <2>1, <2>2 DEF EnterJoin
<1>8. ASSUME NEW c \in Clients, EmplacePlayer(c) PROVE CapacityInv'
  <2>1. session[c] \in Clients
    BY <1>8 DEF EmplacePlayer, RefsBound, JoinPCs
  <2>2. \A d \in Clients : pc'[d] # "emplace"
    BY <1>8 DEF EmplacePlayer
  <2>3. numPlayers[session[c]] < MaxPlayers
    BY <1>8 DEF EmplacePlayer
  <2>4. QED
    <3>1. /\ players' = [players EXCEPT ![session[c]] = Append(@, c)]
          /\ numPlayers' = [numPlayers EXCEPT ![session[c]] = @ + 1]
          /\ UNCHANGED game
      BY <1>8 DEF EmplacePlayer, AddPlayer
    <3>2. Len(players'[session[c]]) = Len(players[session[c]]) + 1
      BY <2>1, <3>1
    <3>3. \A o \in Clients : Len(players'[o]) <= numPlayers'[o] /\ numPlayers'[o] <= MaxPlayers
      BY <2>1, <2>3, <3>1, <3>2, LobbyAssumption
    <3>4. QED
      BY <2>2, <3>1, <3>3
<1>9. ASSUME NEW c \in Clients, NotifyErased(c) PROVE CapacityInv'
  <2>1. \A d \in Clients : pc'[d] # "emplace"
    BY <1>9, OneJoinerInside DEF NotifyErased, Unlocking
  <2>2. QED
    BY <1>9, <2>1, LobbyAssumption DEF NotifyErased
<1>10. ASSUME NEW c \in Clients, Loud(c) PROVE CapacityInv'
  BY <1>2, <1>3, <1>4, <1>5, <1>6, <1>7, <1>8, <1>9, <1>10 DEF Loud
<1>11. QED
  BY <1>1, <1>10, StepKinds

(* No vector of players outgrows the room Session reserves for it.         *)
THEOREM CapacityHolds == Spec => []Capacity
<1>1. Init => TypeInv /\ CapacityInv
  BY TypeInit, CapacityInit
<1>2. TypeInv /\ CapacityInv /\ [Next]_vars => (TypeInv /\ CapacityInv)'
  BY TypeStep, CapacityStep
<1>3. TypeInv /\ CapacityInv => Capacity
  BY LobbyAssumption DEF TypeInv, TypeOK, CapacityInv, Capacity
<1>4. QED
  BY <1>1, <1>2, <1>3, PTL DEF Spec
-----------------------------------------------------------------------------
(***************************************************************************)
(* A session led by its creator counts its players truly.  A thread that   *)
(* has put no Session into the map has an empty object, so no joiner waits *)
(* to append to its own.                                                   *)
(***************************************************************************)
CountInv ==
  /\ CountIsTrue
  /\ \A c \in Clients : pc[c] \in Sessionless => players[c] = <<>>
  /\ \A c \in Clients : pc[c] = "emplace" => pc[session[c]] \notin Sessionless

LEMMA CountInit == Init => CountInv
BY DEF Init, CountInv, CountIsTrue

LEMMA CountStep ==
  ASSUME TypeInv, CapacityInv, CountInv, [Next]_vars
  PROVE  CountInv'
<1> USE DEF TypeInv, TypeOK, CountInv, CountIsTrue, Step, PCs, Sessionless, Unplaced,
            threadVars, objectVars, lockVars
<1>0. \A c \in Clients : fault = "none" /\ pc[c] = "emplace" => session[c] \in Clients
  BY DEF RefsBound, JoinPCs
<1>1. CASE Quiet
  <2>1. CASE UNCHANGED pc
    BY <1>1, <2>1 DEF Quiet
  <2>2. CASE pc' # pc
    <3> PICK c \in Clients, p \in PCs :
          /\ pc' = [pc EXCEPT ![c] = p]
          /\ "emplace" \notin {p, pc[c]}
          /\ p \in Sessionless => pc[c] \in Sessionless
      BY <1>1, <2>2 DEF Quiet
    <3>1. UNCHANGED <<session, players, numPlayers>>
      BY <1>1 DEF Quiet
    <3>2. \A d \in Clients : pc'[d] \in Sessionless => pc[d] \in Sessionless
      OBVIOUS
    <3>3. \A d \in Clients : pc'[d] = "emplace" => pc[d] = "emplace"
      OBVIOUS
    <3>4. \A d \in Clients : pc'[d] = "emplace" => pc'[session[d]] \notin Sessionless
      BY <3>3
    <3>5. QED
      BY <3>1, <3>2, <3>4
  <2>3. QED
    BY <2>1, <2>2
<1>2. ASSUME NEW c \in Clients, EmplaceSession(c) PROVE CountInv'
  <2>1. \A d \in Clients : pc'[d] # "emplace"
    BY <1>2, NoJoinerInside DEF EmplaceSession
  <2>2. /\ players' = [players EXCEPT ![c] = <<c>>]
        /\ numPlayers' = [numPlayers EXCEPT ![c] = 1]
        /\ pc' = [pc EXCEPT ![c] = "created"]
    BY <1>2 DEF EmplaceSession
  <2>3. Len(<<c>>) = 1
    OBVIOUS
  <2>4. QED
    BY <2>1, <2>2, <2>3
<1>3. ASSUME NEW c \in Clients, ReuseSession(c) PROVE CountInv'
  <2>1. \A d \in Clients : pc'[d] # "emplace"
    BY <1>3, NoJoinerInside DEF ReuseSession
  <2>2. QED
    BY <1>3, <2>1 DEF ReuseSession
<1>4. ASSUME NEW c \in Clients, EraseQuit(c) \/ EraseStart(c) PROVE CountInv'
  <2>1. EraseSession(c)
    BY <1>4 DEF EraseQuit, EraseStart
  <2>2. \A d \in Clients : pc[d] # "emplace"
    BY <2>1, NoJoinerInside DEF EraseSession
  <2>3. \A d \in Clients : pc'[d] # "emplace" /\ (pc'[d] \in Sessionless => pc[d] \in Sessionless)
    BY <1>4, <2>2 DEF EraseQuit, EraseStart
  <2>4. QED
    BY <2>1, <2>3, EraseEffect
<1>5. ASSUME NEW c \in Clients, BuildGame(c) PROVE CountInv'
  <2>1. session[c] \in Clients
    BY <1>5 DEF BuildGame, RefsBound, LeadPCs
  <2>2. QED
    BY <1>5, <2>1 DEF BuildGame, MovePlayers
<1>6. ASSUME NEW c \in Clients, EndGame(c) PROVE CountInv'
  BY <1>6 DEF EndGame
<1>7. ASSUME NEW c \in Clients, NEW from \in {"join", "random"}, NEW id \in DOMAIN sessions,
             EnterJoin(c, from, id)
      PROVE  CountInv'
  <2>1. \A d \in Clients : pc[d] # "emplace"
    BY <1>7, OneJoinerInside DEF EnterJoin
  <2>2. sessions[id] \in Clients /\ players[sessions[id]] # <<>>
    BY <1>7 DEF EnterJoin, Joinable
  <2>3. pc[sessions[id]] \notin Sessionless
    BY <2>2
  <2>4. QED
    BY <1>7, <2>1, <2>2, <2>3 DEF EnterJoin
<1>8. ASSUME NEW c \in Clients, EmplacePlayer(c) PROVE CountInv'
  <2> DEFINE o == session[c]
  <2>1. o \in Clients /\ pc[o] \notin Sessionless /\ o # c
    BY <1>0, <1>8 DEF EmplacePlayer
  <2>2. \A d \in Clients : pc'[d] # "emplace"
    BY <1>8 DEF EmplacePlayer, CapacityInv
  <2>3. /\ players' = [players EXCEPT ![o] = Append(@, c)]
        /\ numPlayers' = [numPlayers EXCEPT ![o] = @ + 1]
        /\ pc' = [pc EXCEPT ![c] = "joinAck"]
    BY <1>8 DEF EmplacePlayer, AddPlayer
  <2>4. Len(players'[o]) = Len(players[o]) + 1
    BY <2>1, <2>3
  <2>5. players'[o] # <<>> /\ Head(players'[o]) = o => players[o] # <<>> /\ Head(players[o]) = o
    BY <2>1, <2>3
  <2>6. \A q \in Clients : q # o => players'[q] = players[q] /\ numPlayers'[q] = numPlayers[q]
    BY <2>3
  <2>7. \A d \in Clients : pc'[d] \in Sessionless => pc[d] \in Sessionless
    BY <1>8, <2>3 DEF EmplacePlayer
  <2>8. numPlayers'[o] = numPlayers[o] + 1
    BY <2>1, <2>3
  <2>9. CountIsTrue'
    BY <2>4, <2>5, <2>6, <2>8
  <2>10. QED
    BY <2>1, <2>2, <2>6, <2>7, <2>9
<1>9. ASSUME NEW c \in Clients, NotifyErased(c) PROVE CountInv'
  <2>1. \A d \in Clients : pc'[d] # "emplace"
    BY <1>9, OneJoinerInside DEF NotifyErased, Unlocking
  <2>2. QED
    BY <1>9, <2>1 DEF NotifyErased
<1>10. ASSUME NEW c \in Clients, Loud(c) PROVE CountInv'
  BY <1>2, <1>3, <1>4, <1>5, <1>6, <1>7, <1>8, <1>9, <1>10 DEF Loud
<1>11. QED
  BY <1>1, <1>10, StepKinds

(* "Full" and "not enough players" are decided on the true count while a   *)
(* session's creator leads it.                                             *)
THEOREM CountHolds == Spec => []CountIsTrue
<1> DEFINE Inv == TypeInv /\ CapacityInv /\ CountInv
<1>1. Init => Inv
  BY TypeInit, CapacityInit, CountInit
<1>2. Inv /\ [Next]_vars => Inv'
  BY TypeStep, CapacityStep, CountStep
<1>3. Inv => CountIsTrue
  BY DEF CountInv
<1>4. QED
  BY <1>1, <1>2, <1>3, PTL DEF Spec
-----------------------------------------------------------------------------
(***************************************************************************)
(* One place.  A client that is not placed yet stands in no vector, and a  *)
(* thread without a game holds none that a moved vector could meet.        *)
(***************************************************************************)
PlaceInv ==
  /\ OnePlace
  /\ \A c \in Clients : pc[c] \in Unplaced =>
       \A o \in Clients : c \notin Range(players[o]) /\ c \notin Range(game[o])
  /\ \A c \in Clients : pc[c] \notin InGame => game[c] = <<>>

LEMMA EmptyVector == Range(<<>>) = {} /\ IsInjective(<<>>)
BY DEF Range, IsInjective

LEMMA SingletonVector ==
  ASSUME NEW x
  PROVE  Range(<<x>>) = {x} /\ IsInjective(<<x>>)
BY DEF Range, IsInjective

LEMMA AppendToVector ==
  ASSUME NEW S, NEW s \in Seq(S), NEW x \in S
  PROVE  /\ Range(Append(s, x)) = Range(s) \cup {x}
         /\ IsInjective(s) /\ x \notin Range(s) => IsInjective(Append(s, x))
<1>1. /\ DOMAIN Append(s, x) = 1 .. (Len(s) + 1)
      /\ \A i \in 1 .. Len(s) : Append(s, x)[i] = s[i]
      /\ Append(s, x)[Len(s) + 1] = x
      /\ Len(s) \in Nat /\ DOMAIN s = 1 .. Len(s)
  OBVIOUS
<1>2. Range(Append(s, x)) = Range(s) \cup {x}
  <2>1. \A i \in DOMAIN Append(s, x) : i \in 1 .. Len(s) \/ i = Len(s) + 1
    BY <1>1
  <2>2. \A i \in 1 .. Len(s) : i \in DOMAIN Append(s, x)
    BY <1>1
  <2>3. Len(s) + 1 \in DOMAIN Append(s, x)
    BY <1>1
  <2>4. QED
    BY <1>1, <2>1, <2>2, <2>3 DEF Range
<1>3. ASSUME IsInjective(s), x \notin Range(s) PROVE IsInjective(Append(s, x))
  <2>1. \A i \in DOMAIN Append(s, x) : i \in 1 .. Len(s) \/ i = Len(s) + 1
    BY <1>1
  <2>2. \A i \in 1 .. Len(s) : s[i] # x
    BY <1>1, <1>3 DEF Range
  <2>3. QED
    BY <1>1, <1>3, <2>1, <2>2 DEF IsInjective
<1>4. QED
  BY <1>2, <1>3

LEMMA PlaceInit == Init => PlaceInv
BY EmptyVector DEF Init, PlaceInv, OnePlace

(* Emptying vectors disturbs nothing.                                      *)
LEMMA PlaceShrink ==
  ASSUME PlaceInv,
         \A o \in Clients : players'[o] \in {players[o], <<>>} /\ game'[o] \in {game[o], <<>>},
         \A o \in Clients : pc'[o] \in Unplaced => pc[o] \in Unplaced,
         \A o \in Clients : pc'[o] \notin InGame => pc[o] \notin InGame \/ game'[o] = <<>>
  PROVE  PlaceInv'
BY EmptyVector DEF PlaceInv, OnePlace

(* Moving a vector whole into an empty place keeps every player in one.    *)
LEMMA MoveInPlace ==
  ASSUME OnePlace, NEW o \in Clients, NEW c \in Clients,
         game[c] = <<>>, game'[c] = players[o], players'[o] = <<>>,
         \A q \in Clients : q # c => game'[q] = game[q],
         \A q \in Clients : q # o => players'[q] = players[q]
  PROVE  OnePlace'
<1>1. \A q \in Clients : IsInjective(players'[q]) /\ IsInjective(game'[q])
  BY EmptyVector DEF OnePlace
<1>2. \A q \in Clients : players'[q] = players[q] \/ players'[q] = <<>>
  OBVIOUS
<1>3. \A q \in Clients : game'[q] = game[q] \/ q = c
  OBVIOUS
<1>4. ASSUME NEW p \in Clients, NEW q \in Clients
      PROVE  /\ p # q => Range(players'[p]) \cap Range(players'[q]) = {}
             /\ p # q => Range(game'[p]) \cap Range(game'[q]) = {}
             /\ Range(players'[p]) \cap Range(game'[q]) = {}
  <2>1. p # q => Range(players'[p]) \cap Range(players'[q]) = {}
    BY <1>2, EmptyVector DEF OnePlace
  <2>2. p # q => Range(game'[p]) \cap Range(game'[q]) = {}
    BY <1>3, EmptyVector DEF OnePlace
  <2>3. Range(players'[p]) \cap Range(game'[q]) = {}
    BY <1>2, <1>3, EmptyVector DEF OnePlace
  <2>4. QED
    BY <2>1, <2>2, <2>3
<1>5. QED
  BY <1>1, <1>4 DEF OnePlace

(* So does appending a player that stands nowhere.                         *)
LEMMA AppendInPlace ==
  ASSUME OnePlace, NEW o \in Clients, NEW c \in Clients, UNCHANGED game,
         \A q \in Clients : c \notin Range(players[q]) /\ c \notin Range(game[q]),
         Range(players'[o]) = Range(players[o]) \cup {c}, IsInjective(players'[o]),
         \A q \in Clients : q # o => players'[q] = players[q]
  PROVE  OnePlace'
<1>1. \A q \in Clients : IsInjective(players'[q]) /\ IsInjective(game'[q])
  BY DEF OnePlace
<1>2. \A q \in Clients : \A x \in Range(players'[q]) : x \in Range(players[q]) \/ (q = o /\ x = c)
  OBVIOUS
<1>3. ASSUME NEW p \in Clients, NEW q \in Clients
      PROVE  /\ p # q => Range(players'[p]) \cap Range(players'[q]) = {}
             /\ p # q => Range(game'[p]) \cap Range(game'[q]) = {}
             /\ Range(players'[p]) \cap Range(game'[q]) = {}
  <2>1. p # q => Range(players'[p]) \cap Range(players'[q]) = {}
    BY <1>2 DEF OnePlace
  <2>2. p # q => Range(game'[p]) \cap Range(game'[q]) = {}
    BY DEF OnePlace
  <2>3. Range(players'[p]) \cap Range(game'[q]) = {}
    BY <1>2 DEF OnePlace
  <2>4. QED
    BY <2>1, <2>2, <2>3
<1>4. QED
  BY <1>1, <1>3 DEF OnePlace

LEMMA PlaceStep ==
  ASSUME TypeInv, CountInv, PlaceInv, [Next]_vars
  PROVE  PlaceInv'
<1> USE DEF TypeInv, TypeOK, Step, PCs, threadVars, objectVars
<1>1. CASE Quiet
  <2>1. CASE UNCHANGED pc
    BY <1>1, <2>1, PlaceShrink DEF Quiet
  <2>2. CASE pc' # pc
    <3> PICK c \in Clients, p \in PCs :
          /\ pc' = [pc EXCEPT ![c] = p]
          /\ p \in Unplaced => pc[c] \in Unplaced
          /\ p \in InGame <=> pc[c] \in InGame
      BY <1>1, <2>2 DEF Quiet
    <3>1. UNCHANGED <<players, game>>
      BY <1>1 DEF Quiet
    <3>2. QED
      BY <3>1, PlaceShrink
  <2>3. QED
    BY <2>1, <2>2
<1>2. ASSUME NEW c \in Clients, EmplaceSession(c) PROVE PlaceInv'
  <2>1. /\ pc[c] = "create" /\ pc' = [pc EXCEPT ![c] = "created"]
        /\ players' = [players EXCEPT ![c] = <<c>>] /\ UNCHANGED game
    BY <1>2 DEF EmplaceSession
  <2>2. \A o \in Clients : c \notin Range(players[o]) /\ c \notin Range(game[o])
    BY <2>1 DEF PlaceInv, Unplaced
  <2>3. players'[c] = <<c>> /\ \A o \in Clients : o # c => players'[o] = players[o]
    BY <2>1
  <2>4. OnePlace'
    <3>1. players[c] = <<>>
      BY <2>1 DEF CountInv, Sessionless, Unplaced
    <3>2. Range(players'[c]) = Range(players[c]) \cup {c} /\ IsInjective(players'[c])
      BY <2>3, <3>1, EmptyVector, SingletonVector
    <3>3. QED
      BY <2>1, <2>2, <2>3, <3>2, AppendInPlace DEF PlaceInv
  <2>5. \A d \in Clients : pc'[d] \in Unplaced => d # c /\ pc[d] \in Unplaced
    BY <2>1 DEF Unplaced
  <2>6. \A d \in Clients : pc'[d] \notin InGame => pc[d] \notin InGame
    BY <2>1 DEF InGame
  <2>7. QED
    BY <2>1, <2>3, <2>4, <2>5, <2>6, SingletonVector DEF PlaceInv
<1>3. ASSUME NEW c \in Clients, ReuseSession(c) PROVE PlaceInv'
  <2>1. pc[c] = "create" /\ pc' = [pc EXCEPT ![c] = "created"] /\ UNCHANGED <<players, game>>
    BY <1>3 DEF ReuseSession
  <2>2. QED
    BY <2>1, PlaceShrink DEF Unplaced, InGame
<1>4. ASSUME NEW c \in Clients, EraseQuit(c) \/ EraseStart(c) PROVE PlaceInv'
  <2>1. EraseSession(c)
    BY <1>4 DEF EraseQuit, EraseStart
  <2>2. \A o \in Clients : players'[o] \in {players[o], <<>>} /\ game'[o] = game[o]
    BY <2>1, EraseEffect
  <2>3. \A d \in Clients : pc'[d] \in Unplaced => pc[d] \in Unplaced
    BY <1>4 DEF EraseQuit, EraseStart, Unplaced
  <2>4. \A d \in Clients : pc'[d] \notin InGame => pc[d] \notin InGame
    BY <1>4 DEF EraseQuit, EraseStart, InGame
  <2>5. QED
    BY <2>2, <2>3, <2>4, PlaceShrink
<1>5. ASSUME NEW c \in Clients, BuildGame(c) PROVE PlaceInv'
  <2> DEFINE o == session[c]
  <2>1. o \in Clients
    BY <1>5 DEF BuildGame, RefsBound, LeadPCs
  <2>2. /\ pc[c] = "build" /\ pc' = [pc EXCEPT ![c] = "eraseStart"]
        /\ game' = [game EXCEPT ![c] = players[o]]
        /\ players' = [players EXCEPT ![o] = <<>>]
    BY <1>5 DEF BuildGame, MovePlayers
  <2>3. game[c] = <<>>
    BY <2>2 DEF PlaceInv, InGame
  <2>4. /\ game'[c] = players[o] /\ players'[o] = <<>>
        /\ \A q \in Clients : q # c => game'[q] = game[q]
        /\ \A q \in Clients : q # o => players'[q] = players[q]
    BY <2>1, <2>2
  <2>5. OnePlace'
    BY <2>1, <2>3, <2>4, MoveInPlace DEF PlaceInv
  <2>6. \A d \in Clients : pc'[d] \in Unplaced => pc[d] \in Unplaced
    BY <2>2 DEF Unplaced
  <2>7. \A d \in Clients : pc'[d] \notin InGame => d # c /\ pc[d] \notin InGame
    BY <2>2 DEF InGame
  <2>8. QED
    BY <2>1, <2>4, <2>5, <2>6, <2>7, EmptyVector DEF PlaceInv
<1>6. ASSUME NEW c \in Clients, EndGame(c) PROVE PlaceInv'
  <2>1. /\ pc' = [pc EXCEPT ![c] = "done"] /\ pc[c] = "turn"
        /\ game' = [game EXCEPT ![c] = <<>>] /\ UNCHANGED players
    BY <1>6 DEF EndGame
  <2>2. QED
    BY <2>1, PlaceShrink DEF Unplaced, InGame
<1>7. ASSUME NEW c \in Clients, NEW from \in {"join", "random"}, NEW id \in DOMAIN sessions,
             EnterJoin(c, from, id)
      PROVE  PlaceInv'
  <2>1. pc[c] = from /\ pc' = [pc EXCEPT ![c] = "emplace"] /\ UNCHANGED <<players, game>>
    BY <1>7 DEF EnterJoin
  <2>2. QED
    BY <2>1, PlaceShrink DEF Unplaced, InGame
<1>8. ASSUME NEW c \in Clients, EmplacePlayer(c) PROVE PlaceInv'
  <2> DEFINE o == session[c]
  <2>1. o \in Clients
    BY <1>8 DEF EmplacePlayer, RefsBound, JoinPCs
  <2>2. /\ pc[c] = "emplace" /\ pc' = [pc EXCEPT ![c] = "joinAck"]
        /\ players' = [players EXCEPT ![o] = Append(@, c)] /\ UNCHANGED game
    BY <1>8 DEF EmplacePlayer, AddPlayer
  <2>3. \A q \in Clients : c \notin Range(players[q]) /\ c \notin Range(game[q])
    BY <2>2 DEF PlaceInv, Unplaced
  <2>4. /\ Range(players'[o]) = Range(players[o]) \cup {c}
        /\ IsInjective(players'[o])
        /\ \A q \in Clients : q # o => players'[q] = players[q]
    BY <2>1, <2>2, <2>3, AppendToVector DEF PlaceInv, OnePlace
  <2>5. OnePlace'
    BY <2>1, <2>2, <2>3, <2>4, AppendInPlace DEF PlaceInv
  <2>6. \A d \in Clients : pc'[d] \in Unplaced => d # c /\ pc[d] \in Unplaced
    BY <2>2 DEF Unplaced
  <2>7. \A d \in Clients : pc'[d] \notin InGame => pc[d] \notin InGame
    BY <2>2 DEF InGame
  <2>8. QED
    BY <2>1, <2>2, <2>4, <2>5, <2>6, <2>7 DEF PlaceInv
<1>9. ASSUME NEW c \in Clients, NotifyErased(c) PROVE PlaceInv'
  <2>1. /\ pc[c] = "notify" /\ pc' = [pc EXCEPT ![c] = "done"]
        /\ players' = [players EXCEPT ![c] = <<>>] /\ UNCHANGED game
    BY <1>9 DEF NotifyErased
  <2>2. QED
    BY <2>1, PlaceShrink DEF Unplaced, InGame
<1>10. ASSUME NEW c \in Clients, Loud(c) PROVE PlaceInv'
  BY <1>2, <1>3, <1>4, <1>5, <1>6, <1>7, <1>8, <1>9, <1>10 DEF Loud
<1>11. QED
  BY <1>1, <1>10, StepKinds

(* No Player ever stands in two vectors, or twice in one.                  *)
THEOREM OnePlaceHolds == Spec => []OnePlace
<1> DEFINE Inv == TypeInv /\ CapacityInv /\ CountInv /\ PlaceInv
<1>1. Init => Inv
  BY TypeInit, CapacityInit, CountInit, PlaceInit
<1>2. Inv /\ [Next]_vars => Inv'
  BY TypeStep, CapacityStep, CountStep, PlaceStep
<1>3. Inv => OnePlace
  BY DEF PlaceInv
<1>4. QED
  BY <1>1, <1>2, <1>3, PTL DEF Spec
-----------------------------------------------------------------------------
(***************************************************************************)
(* Leader first.  The argument is about which object an id names: ids and  *)
(* registered objects match one to one, a leading thread whose Session is  *)
(* registered holds that Session's id, and an object out of the map is     *)
(* empty.  So the erase after a game has been built removes the very       *)
(* object whose vector the game took.                                      *)
(***************************************************************************)
Orphaned(o) == \E t \in Clients : session[t] = o /\ pc[t] = "eraseStart"

RegistryInv ==
  /\ \A i, j \in DOMAIN sessions : sessions[i] = sessions[j] => i = j
  /\ \A o \in Clients : ~Live(o) => players[o] = <<>>
  /\ \A c \in Clients : pc[c] \in Sessionless => ~Live(c)
  /\ \A c \in Clients : pc[c] \in LeadPCs =>
       /\ session[c] \in Clients /\ pc[session[c]] \notin Sessionless
       /\ Live(session[c]) => Registered(session_id[c]) /\ sessions[session_id[c]] = session[c]

LeaderInv ==
  /\ \A o \in Clients : players[o] # <<>> /\ Head(players[o]) # o => Orphaned(o)
  /\ \A c \in Clients : pc[c] = "emplace" =>
       Live(session[c]) /\ (players[session[c]] # <<>> \/ Orphaned(session[c]))

LEMMA RegistryInit == Init => RegistryInv /\ LeaderInv
BY DEF Init, RegistryInv, LeaderInv, Live, LeadPCs

(* What an insertion makes live.                                           *)
LEMMA InsertLive ==
  ASSUME TypeOK, NEW id \in Nat, NEW o \in Clients, ~Registered(id), Insert(id, o)
  PROVE  /\ DOMAIN sessions' = DOMAIN sessions \cup {id} /\ sessions'[id] = o
         /\ \A i \in DOMAIN sessions : i # id /\ sessions'[i] = sessions[i]
         /\ \A q \in Clients : Live(q)' <=> Live(q) \/ q = o
<1>1. /\ DOMAIN sessions' = DOMAIN sessions \cup {id} /\ sessions'[id] = o
      /\ \A i \in DOMAIN sessions : i # id /\ sessions'[i] = sessions[i]
  BY DEF Insert, Registered
<1>2. QED
  BY <1>1 DEF Live

(* What an erase takes away.                                               *)
LEMMA EraseLive ==
  ASSUME TypeOK, RegistryInv, NEW c \in Clients, EraseSession(c)
  PROVE  /\ DOMAIN sessions' = DOMAIN sessions \ {session_id[c]}
         /\ \A i \in DOMAIN sessions' : sessions'[i] = sessions[i]
         /\ \A q \in Clients :
              \/ (Live(q)' <=> Live(q)) /\ players'[q] = players[q]
              \/ /\ ~Live(q)' /\ players'[q] = <<>>
                 /\ Registered(session_id[c]) /\ sessions[session_id[c]] = q
         /\ Registered(session_id[c]) => players'[sessions[session_id[c]]] = <<>>
<1>1. CASE Registered(session_id[c])
  <2> DEFINE D == DOMAIN sessions \ {session_id[c]}
  <2> PICK o \in Clients : o = sessions[session_id[c]]
    BY <1>1 DEF TypeOK, Registered
  <2>1. /\ sessions' = [i \in D |-> sessions[i]]
        /\ players' = [players EXCEPT ![o] = <<>>]
    BY <1>1 DEF EraseSession, Restrict, TypeOK, Registered
  <2>2. DOMAIN sessions' = D /\ \A i \in D : sessions'[i] = sessions[i]
    BY <2>1
  <2>3. players'[o] = <<>> /\ \A q \in Clients : q # o => players'[q] = players[q]
    BY <2>1 DEF TypeOK
  <2>4. ~Live(o)'
    <3>1. ASSUME NEW i \in D, sessions'[i] = o PROVE FALSE
      <4>1. sessions[i] = sessions[session_id[c]] /\ i # session_id[c]
        BY <2>2, <3>1
      <4>2. QED
        BY <1>1, <4>1 DEF RegistryInv, Registered
    <3>2. QED
      BY <2>2, <3>1 DEF Live
  <2>5. \A q \in Clients : q # o => (Live(q)' <=> Live(q))
    BY <1>1, <2>2 DEF Live, Registered
  <2>6. QED
    BY <1>1, <2>2, <2>3, <2>4, <2>5
<1>2. CASE ~Registered(session_id[c])
  BY <1>2 DEF EraseSession, objectVars, Live, Registered
<1>3. QED
  BY <1>1, <1>2

(* Steps that leave the map alone and let no thread begin to lead.         *)
LEMMA RegistryStill ==
  ASSUME RegistryInv, UNCHANGED sessions,
         \A o \in Clients : players'[o] = players[o] \/ players'[o] = <<>> \/ Live(o),
         \A c \in Clients : pc'[c] \in Sessionless => pc[c] \in Sessionless,
         \A c \in Clients : pc'[c] \in LeadPCs =>
           pc[c] \in LeadPCs /\ UNCHANGED <<session[c], session_id[c]>>
  PROVE  RegistryInv'
<1>1. \A o \in Clients : Live(o)' <=> Live(o)
  BY DEF Live
<1>2. QED
  BY <1>1 DEF RegistryInv, Registered

LEMMA RegistryStep ==
  ASSUME TypeInv, CapacityInv, RegistryInv, LeaderInv, [Next]_vars
  PROVE  RegistryInv'
<1> USE DEF TypeInv, TypeOK, Step, PCs, threadVars, objectVars
<1>1. CASE Quiet
  <2>1. UNCHANGED <<session, sessions, players>>
    BY <1>1 DEF Quiet
  <2>2. CASE UNCHANGED <<pc, session_id>>
    BY <2>1, <2>2, RegistryStill
  <2>3. CASE ~UNCHANGED <<pc, session_id>>
    <3> PICK c \in Clients, p \in PCs :
          /\ pc' = [pc EXCEPT ![c] = p]
          /\ p \in Sessionless => pc[c] \in Sessionless
          /\ p \in LeadPCs => pc[c] \in LeadPCs
          /\ \/ session_id' = session_id
             \/ /\ pc[c] = "request"
                /\ \A d \in Clients \ {c} : session_id'[d] = session_id[d]
      BY <1>1, <2>3 DEF Quiet
    <3>1. \A d \in Clients : pc'[d] \in Sessionless => pc[d] \in Sessionless
      OBVIOUS
    <3>2. \A d \in Clients : pc'[d] \in LeadPCs => pc[d] \in LeadPCs
      OBVIOUS
    <3>3. \A d \in Clients : pc'[d] \in LeadPCs => session_id'[d] = session_id[d]
      BY DEF LeadPCs
    <3>4. QED
      BY <2>1, <3>1, <3>2, <3>3, RegistryStill
  <2>4. QED
    BY <2>2, <2>3
<1>2. ASSUME NEW c \in Clients, EmplaceSession(c) PROVE RegistryInv'
  <2>1. NewId \in Nat /\ Insert(NewId, c) /\ ~Registered(NewId)
    BY <1>2, NewIdType DEF EmplaceSession
  <2> PICK id \in Nat : id = NewId
    BY <2>1
  <2>2. /\ DOMAIN sessions' = DOMAIN sessions \cup {id} /\ sessions'[id] = c
        /\ \A i \in DOMAIN sessions : i # id /\ sessions'[i] = sessions[i]
        /\ \A q \in Clients : Live(q)' <=> Live(q) \/ q = c
    BY <2>1, InsertLive
  <2>3. pc[c] = "create" /\ pc' = [pc EXCEPT ![c] = "created"]
    BY <1>2 DEF EmplaceSession
  <2>4. /\ \A q \in Clients : q # c => players'[q] = players[q]
        /\ session'[c] = c /\ session_id'[c] = id
        /\ \A d \in Clients : d # c => session'[d] = session[d] /\ session_id'[d] = session_id[d]
    BY <1>2 DEF EmplaceSession
  <2>5. ~Live(c) /\ pc[c] \in Sessionless
    BY <2>3 DEF RegistryInv, Sessionless, Unplaced
  <2>6. \A d \in Clients : pc'[d] \in Sessionless => pc[d] \in Sessionless /\ d # c
    BY <2>3 DEF Sessionless, Unplaced
  <2>7. \A i, j \in DOMAIN sessions' : sessions'[i] = sessions'[j] => i = j
    BY <2>2, <2>5 DEF RegistryInv, Live
  <2>8. ASSUME NEW d \in Clients, pc'[d] \in LeadPCs
        PROVE  /\ session'[d] \in Clients /\ pc'[session'[d]] \notin Sessionless
               /\ Live(session[d])' => session_id'[d] \in DOMAIN sessions' /\ sessions'[session_id'[d]] = session'[d]
    <3>1. CASE d = c
      BY <2>2, <2>3, <2>4, <3>1 DEF Sessionless, Unplaced
    <3>2. CASE d # c
      <4>1. pc[d] \in LeadPCs
        BY <2>3, <2>8, <3>2
      <4>2. session[d] # c
        BY <4>1, <2>5 DEF RegistryInv
      <4>3. session'[d] = session[d] /\ session[d] \in Clients
        BY <2>4, <3>2, <4>1 DEF RegistryInv
      <4>4. Live(session[d])' => Live(session[d])
        BY <2>2, <4>2, <4>3 DEF Live
      <4>5. pc'[session'[d]] \notin Sessionless
        BY <2>6, <4>1, <4>3 DEF RegistryInv
      <4>6. ASSUME Live(session[d])'
            PROVE  session_id'[d] \in DOMAIN sessions' /\ sessions'[session_id'[d]] = session'[d]
        <5>1. session_id[d] \in DOMAIN sessions /\ sessions[session_id[d]] = session[d]
          BY <4>1, <4>4, <4>6 DEF RegistryInv, Registered
        <5>2. QED
          BY <2>2, <2>4, <3>2, <4>3, <5>1
      <4>7. QED
        BY <4>3, <4>5, <4>6
    <3>3. QED
      BY <3>1, <3>2
  <2>9. \A o \in Clients : ~Live(o)' => players'[o] = <<>>
    BY <2>2, <2>4 DEF RegistryInv
  <2>10. \A d \in Clients : pc'[d] \in Sessionless => ~Live(d)'
    BY <2>2, <2>6 DEF RegistryInv
  <2>11. QED
    BY <2>7, <2>8, <2>9, <2>10 DEF RegistryInv, Registered
<1>3. ASSUME NEW c \in Clients, ReuseSession(c) PROVE RegistryInv'
  <2> PICK id \in Nat : id = NewId /\ id \in DOMAIN sessions
    BY <1>3, NewIdType DEF ReuseSession, Registered
  <2>1. /\ pc[c] = "create" /\ pc' = [pc EXCEPT ![c] = "created"]
        /\ UNCHANGED <<sessions, players>>
        /\ session' = [session EXCEPT ![c] = sessions[id]]
        /\ session_id' = [session_id EXCEPT ![c] = id]
    BY <1>3 DEF ReuseSession
  <2>2. sessions[id] \in Clients /\ Live(sessions[id]) /\ pc[sessions[id]] \notin Sessionless
    BY DEF Live, RegistryInv
  <2>3. \A o \in Clients : Live(o)' <=> Live(o)
    BY <2>1 DEF Live
  <2>4. \A d \in Clients : pc'[d] \in Sessionless => pc[d] \in Sessionless
    BY <2>1 DEF Sessionless, Unplaced
  <2>5. ASSUME NEW d \in Clients, pc'[d] \in LeadPCs
        PROVE  /\ session'[d] \in Clients /\ pc'[session'[d]] \notin Sessionless
               /\ Live(session[d])' => session_id'[d] \in DOMAIN sessions' /\ sessions'[session_id'[d]] = session'[d]
    <3>1. CASE d = c
      BY <2>1, <2>2, <2>4, <3>1
    <3>2. CASE d # c
      <4>1. pc[d] \in LeadPCs /\ session'[d] = session[d] /\ session_id'[d] = session_id[d]
        BY <2>1, <2>5, <3>2
      <4>2. Live(session[d])' => Live(session[d])
        BY <2>1, <4>1 DEF Live
      <4>3. QED
        BY <2>1, <2>4, <4>1, <4>2 DEF RegistryInv, Registered
    <3>3. QED
      BY <3>1, <3>2
  <2>6. QED
    BY <2>1, <2>3, <2>4, <2>5 DEF RegistryInv, Registered
<1>4. ASSUME NEW c \in Clients, EraseQuit(c) \/ EraseStart(c) PROVE RegistryInv'
  <2>1. EraseSession(c)
    BY <1>4 DEF EraseQuit, EraseStart
  <2>2. UNCHANGED <<session, session_id>>
    BY <2>1, EraseEffect
  <2>3. \A d \in Clients : pc'[d] \in Sessionless => pc[d] \in Sessionless
    BY <1>4 DEF EraseQuit, EraseStart, Sessionless, Unplaced
  <2>4. \A d \in Clients : pc'[d] \in LeadPCs => pc[d] \in LeadPCs
    BY <1>4 DEF EraseQuit, EraseStart, LeadPCs
  <2>5. /\ DOMAIN sessions' = DOMAIN sessions \ {session_id[c]}
        /\ \A i \in DOMAIN sessions' : sessions'[i] = sessions[i]
        /\ \A q \in Clients :
             \/ (Live(q)' <=> Live(q)) /\ players'[q] = players[q]
             \/ ~Live(q)' /\ players'[q] = <<>>
    BY <2>1, EraseLive
  <2>6. ASSUME NEW d \in Clients, pc'[d] \in LeadPCs, Live(session[d])'
        PROVE  session_id[d] \in DOMAIN sessions' /\ sessions'[session_id[d]] = session[d]
    <3>1. PICK i \in DOMAIN sessions' : sessions'[i] = session[d]
      BY <2>2, <2>6 DEF Live
    <3>2. i \in DOMAIN sessions /\ sessions[i] = session[d]
      BY <2>5, <3>1
    <3>3. session_id[d] \in DOMAIN sessions /\ sessions[session_id[d]] = session[d]
      BY <2>4, <2>6, <3>2 DEF RegistryInv, Live, Registered
    <3>4. i = session_id[d]
      BY <3>2, <3>3 DEF RegistryInv
    <3>5. QED
      BY <3>1, <3>4
  <2>7. QED
    BY <2>2, <2>3, <2>4, <2>5, <2>6 DEF RegistryInv, Registered
<1>5. ASSUME NEW c \in Clients, BuildGame(c) PROVE RegistryInv'
  <2>1. /\ pc[c] = "build" /\ pc' = [pc EXCEPT ![c] = "eraseStart"]
        /\ players' = [players EXCEPT ![session[c]] = <<>>]
        /\ UNCHANGED <<sessions, session, session_id>>
    BY <1>5 DEF BuildGame, MovePlayers
  <2>2. \A o \in Clients : players'[o] = players[o] \/ players'[o] = <<>>
    BY <2>1
  <2>3. \A d \in Clients : pc'[d] \in Sessionless => pc[d] \in Sessionless
    BY <2>1 DEF Sessionless, Unplaced
  <2>4. \A d \in Clients : pc'[d] \in LeadPCs => pc[d] \in LeadPCs
    BY <2>1 DEF LeadPCs
  <2>5. QED
    BY <2>1, <2>2, <2>3, <2>4, RegistryStill
<1>6. ASSUME NEW c \in Clients, EndGame(c) PROVE RegistryInv'
  <2>1. pc' = [pc EXCEPT ![c] = "done"] /\ UNCHANGED <<sessions, players, session, session_id>>
    BY <1>6 DEF EndGame
  <2>2. \A d \in Clients : /\ pc'[d] \in Sessionless => pc[d] \in Sessionless
                           /\ pc'[d] \in LeadPCs => pc[d] \in LeadPCs
    BY <2>1 DEF Sessionless, Unplaced, LeadPCs
  <2>3. QED
    BY <2>1, <2>2, RegistryStill
<1>7. ASSUME NEW c \in Clients, NEW from \in {"join", "random"}, NEW id \in DOMAIN sessions,
             EnterJoin(c, from, id)
      PROVE  RegistryInv'
  <2>1. /\ pc[c] = from /\ pc' = [pc EXCEPT ![c] = "emplace"] /\ UNCHANGED <<sessions, players>>
        /\ \A d \in Clients : d # c => session'[d] = session[d] /\ session_id'[d] = session_id[d]
    BY <1>7 DEF EnterJoin
  <2>2. \A d \in Clients : /\ pc'[d] \in Sessionless => pc[d] \in Sessionless
                           /\ pc'[d] \in LeadPCs => pc[d] \in LeadPCs /\ d # c
    BY <2>1 DEF Sessionless, Unplaced, LeadPCs
  <2>3. QED
    BY <2>1, <2>2, RegistryStill
<1>8. ASSUME NEW c \in Clients, EmplacePlayer(c) PROVE RegistryInv'
  <2>1. /\ pc[c] = "emplace" /\ pc' = [pc EXCEPT ![c] = "joinAck"]
        /\ players' = [players EXCEPT ![session[c]] = Append(@, c)]
        /\ UNCHANGED <<sessions, session, session_id>>
    BY <1>8 DEF EmplacePlayer, AddPlayer
  <2>2. \A o \in Clients : players'[o] = players[o] \/ Live(o)
    BY <2>1 DEF LeaderInv
  <2>3. \A d \in Clients : /\ pc'[d] \in Sessionless => pc[d] \in Sessionless
                           /\ pc'[d] \in LeadPCs => pc[d] \in LeadPCs
    BY <2>1 DEF Sessionless, Unplaced, LeadPCs
  <2>4. QED
    BY <2>1, <2>2, <2>3, RegistryStill
<1>9. ASSUME NEW c \in Clients, NotifyErased(c) PROVE RegistryInv'
  <2> PICK id \in Nat : id = session_id[c]
    OBVIOUS
  <2>1. /\ pc[c] = "notify" /\ pc' = [pc EXCEPT ![c] = "done"]
        /\ players' = [players EXCEPT ![c] = <<>>]
        /\ Insert(id, c) /\ ~Registered(id)
        /\ UNCHANGED <<session, session_id>>
    BY <1>9 DEF NotifyErased
  <2>2. /\ DOMAIN sessions' = DOMAIN sessions \cup {id} /\ sessions'[id] = c
        /\ \A i \in DOMAIN sessions : i # id /\ sessions'[i] = sessions[i]
        /\ \A q \in Clients : Live(q)' <=> Live(q) \/ q = c
    BY <2>1, InsertLive
  <2>3. ~Live(c) /\ pc[c] \in Sessionless
    BY <2>1 DEF RegistryInv, Sessionless, Unplaced
  <2>4. \A d \in Clients : /\ pc'[d] \in Sessionless => pc[d] \in Sessionless /\ d # c
                           /\ pc'[d] \in LeadPCs => pc[d] \in LeadPCs
    BY <2>1 DEF Sessionless, Unplaced, LeadPCs
  <2>5. \A i, j \in DOMAIN sessions' : sessions'[i] = sessions'[j] => i = j
    BY <2>2, <2>3 DEF RegistryInv, Live
  <2>6. ASSUME NEW d \in Clients, pc'[d] \in LeadPCs
        PROVE  /\ session'[d] \in Clients /\ pc'[session'[d]] \notin Sessionless
               /\ Live(session[d])' => session_id'[d] \in DOMAIN sessions' /\ sessions'[session_id'[d]] = session'[d]
    <3>1. pc[d] \in LeadPCs /\ session[d] \in Clients /\ session[d] # c
      BY <2>3, <2>4, <2>6 DEF RegistryInv
    <3>2. Live(session[d])' => Live(session[d])
      BY <2>1, <2>2, <3>1 DEF Live
    <3>3. QED
      BY <2>1, <2>2, <2>4, <3>1, <3>2 DEF RegistryInv, Registered
  <2>7. \A d \in Clients : pc'[d] \in Sessionless => ~Live(d)'
    BY <2>2, <2>4 DEF RegistryInv
  <2>8. \A o \in Clients : ~Live(o)' => players'[o] = <<>>
    BY <2>1, <2>2 DEF RegistryInv
  <2>9. QED
    BY <2>5, <2>6, <2>7, <2>8 DEF RegistryInv, Registered
<1>10. ASSUME NEW c \in Clients, Loud(c) PROVE RegistryInv'
  BY <1>2, <1>3, <1>4, <1>5, <1>6, <1>7, <1>8, <1>9, <1>10 DEF Loud
<1>11. QED
  BY <1>1, <1>10, StepKinds

(* Steps after which every witness and every joiner stands as before.      *)
LEMMA LeaderStill ==
  ASSUME LeaderInv,
         \A o \in Clients : players'[o] \in {players[o], <<>>} \/ players'[o] = <<o>>,
         \A o \in Clients : Orphaned(o) => Orphaned(o)',
         \A c \in Clients : pc'[c] # "emplace"
  PROVE  LeaderInv'
BY DEF LeaderInv

LEMMA LeaderStep ==
  ASSUME TypeInv, CapacityInv, RegistryInv, LeaderInv, [Next]_vars
  PROVE  LeaderInv'
<1> USE DEF TypeInv, TypeOK, Step, PCs, threadVars, objectVars
<1>0. \A c \in Clients : fault = "none" /\ pc[c] = "emplace" => session[c] \in Clients
  BY DEF RefsBound, JoinPCs
<1>1. CASE Quiet
  <2>1. UNCHANGED <<session, sessions, players>>
    BY <1>1 DEF Quiet
  <2>2. \A c \in Clients : (pc'[c] = "emplace" <=> pc[c] = "emplace")
                           /\ (pc'[c] = "eraseStart" <=> pc[c] = "eraseStart")
    BY <1>1 DEF Quiet
  <2>3. \A o \in Clients : Orphaned(o)' <=> Orphaned(o)
    BY <2>1, <2>2 DEF Orphaned
  <2>4. \A c \in Clients : Orphaned(session[c])' <=> Orphaned(session[c])
    BY <2>1, <2>2 DEF Orphaned
  <2>5. \A c \in Clients : Live(session[c])' <=> Live(session[c])
    BY <2>1 DEF Live
  <2>6. QED
    BY <2>1, <2>2, <2>3, <2>4, <2>5 DEF LeaderInv
<1>2. ASSUME NEW c \in Clients, EmplaceSession(c) PROVE LeaderInv'
  <2>1. \A d \in Clients : pc[d] # "emplace"
    BY <1>2, NoJoinerInside DEF EmplaceSession
  <2>2. /\ pc[c] = "create" /\ pc' = [pc EXCEPT ![c] = "created"]
        /\ session' = [session EXCEPT ![c] = c]
        /\ players' = [players EXCEPT ![c] = <<c>>]
    BY <1>2 DEF EmplaceSession
  <2>3. \A o \in Clients : Orphaned(o) => Orphaned(o)'
    BY <2>2 DEF Orphaned
  <2>4. QED
    BY <2>1, <2>2, <2>3, LeaderStill
<1>3. ASSUME NEW c \in Clients, ReuseSession(c) PROVE LeaderInv'
  <2>1. \A d \in Clients : pc[d] # "emplace"
    BY <1>3, NoJoinerInside DEF ReuseSession
  <2>2. /\ pc[c] = "create" /\ pc' = [pc EXCEPT ![c] = "created"]
        /\ session' = [session EXCEPT ![c] = sessions[NewId]]
        /\ UNCHANGED players
    BY <1>3 DEF ReuseSession
  <2>3. \A o \in Clients : Orphaned(o) => Orphaned(o)'
    BY <2>2 DEF Orphaned
  <2>4. QED
    BY <2>1, <2>2, <2>3, LeaderStill
<1>4. ASSUME NEW c \in Clients, EraseQuit(c) PROVE LeaderInv'
  <2>1. EraseSession(c)
    BY <1>4 DEF EraseQuit
  <2>2. \A d \in Clients : pc[d] # "emplace"
    BY <2>1, NoJoinerInside DEF EraseSession
  <2>3. pc[c] = "eraseQuit" /\ pc' = [pc EXCEPT ![c] = "done"] /\ UNCHANGED session
    BY <1>4, <2>1, EraseEffect DEF EraseQuit
  <2>4. \A o \in Clients : Orphaned(o) => Orphaned(o)'
    BY <2>3 DEF Orphaned
  <2>5. \A o \in Clients : players'[o] \in {players[o], <<>>}
    BY <2>1, EraseEffect
  <2>6. QED
    BY <2>2, <2>3, <2>4, <2>5, LeaderStill
<1>5. ASSUME NEW c \in Clients, EraseStart(c) PROVE LeaderInv'
  <2>1. EraseSession(c)
    BY <1>5 DEF EraseStart
  <2>2. \A d \in Clients : pc[d] # "emplace"
    BY <2>1, NoJoinerInside DEF EraseSession
  <2>3. pc[c] = "eraseStart" /\ pc' = [pc EXCEPT ![c] = "play"] /\ UNCHANGED session
    BY <1>5, <2>1, EraseEffect DEF EraseStart
  <2>4. players'[session[c]] = <<>>
    <3>1. session[c] \in Clients
      BY <2>3 DEF RegistryInv, LeadPCs
    <3>2. CASE Live(session[c])
      <4>1. Registered(session_id[c]) /\ sessions[session_id[c]] = session[c]
        BY <2>3, <3>2 DEF RegistryInv, LeadPCs
      <4>2. QED
        BY <2>1, <4>1, EraseLive
    <3>3. CASE ~Live(session[c])
      <4>1. players[session[c]] = <<>>
        BY <3>1, <3>3 DEF RegistryInv
      <4>2. QED
        BY <2>1, <3>1, <4>1, EraseEffect
    <3>4. QED
      BY <3>2, <3>3
  <2>5. \A o \in Clients : Orphaned(o) => Orphaned(o)' \/ o = session[c]
    BY <2>3 DEF Orphaned
  <2>6. \A o \in Clients : players'[o] \in {players[o], <<>>}
    BY <2>1, EraseEffect
  <2>7. \A d \in Clients : pc'[d] # "emplace"
    BY <2>2, <2>3
  <2>8. QED
    BY <2>4, <2>5, <2>6, <2>7 DEF LeaderInv
<1>6. ASSUME NEW c \in Clients, BuildGame(c) PROVE LeaderInv'
  <2>1. /\ pc[c] = "build" /\ pc' = [pc EXCEPT ![c] = "eraseStart"]
        /\ players' = [players EXCEPT ![session[c]] = <<>>]
        /\ UNCHANGED <<sessions, session>>
    BY <1>6 DEF BuildGame, MovePlayers
  <2>2. \A o : Orphaned(o) \/ o = session[c] => Orphaned(o)'
    BY <2>1 DEF Orphaned
  <2>3. \A o \in Clients : players'[o] = players[o] \/ (players'[o] = <<>> /\ o = session[c])
    BY <2>1
  <2>4. ASSUME NEW d \in Clients, pc'[d] = "emplace"
        PROVE  Live(session[d])' /\ (players'[session[d]] # <<>> \/ Orphaned(session[d])')
    <3>1. pc[d] = "emplace" /\ session[d] \in Clients
      BY <1>0, <1>6, <2>1, <2>4 DEF BuildGame
    <3>2. Live(session[d])' <=> Live(session[d])
      BY <2>1 DEF Live
    <3>3. Orphaned(session[d]) \/ session[d] = session[c] => Orphaned(session[d])'
      BY <2>1 DEF Orphaned
    <3>4. QED
      BY <2>3, <3>1, <3>2, <3>3 DEF LeaderInv
  <2>5. QED
    BY <2>1, <2>2, <2>3, <2>4 DEF LeaderInv
<1>7. ASSUME NEW c \in Clients, EndGame(c) PROVE LeaderInv'
  <2>1. /\ pc[c] = "turn" /\ pc' = [pc EXCEPT ![c] = "done"]
        /\ UNCHANGED <<sessions, players, session>>
    BY <1>7 DEF EndGame
  <2>2. \A o \in Clients : Orphaned(o)' <=> Orphaned(o)
    BY <2>1 DEF Orphaned
  <2>3. \A d \in Clients : /\ Orphaned(session[d])' <=> Orphaned(session[d])
                           /\ Live(session[d])' <=> Live(session[d])
    BY <2>1 DEF Orphaned, Live
  <2>4. QED
    BY <2>1, <2>2, <2>3 DEF LeaderInv
<1>8. ASSUME NEW c \in Clients, NEW from \in {"join", "random"}, NEW id \in DOMAIN sessions,
             EnterJoin(c, from, id)
      PROVE  LeaderInv'
  <2>1. \A d \in Clients : pc[d] # "emplace"
    BY <1>8, OneJoinerInside DEF EnterJoin
  <2>2. /\ pc[c] = from /\ pc' = [pc EXCEPT ![c] = "emplace"] /\ UNCHANGED <<sessions, players>>
        /\ session' = [session EXCEPT ![c] = sessions[id]]
        /\ players[sessions[id]] # <<>>
    BY <1>8 DEF EnterJoin, Joinable
  <2>3. \A o \in Clients : Orphaned(o) => Orphaned(o)'
    BY <2>2 DEF Orphaned
  <2>4. Live(session[c])'
    BY <2>2 DEF Live
  <2>5. \A d \in Clients : pc'[d] = "emplace" => d = c
    BY <2>1, <2>2
  <2>6. session'[c] = sessions[id]
    BY <2>2
  <2>7. QED
    BY <2>2, <2>3, <2>4, <2>5, <2>6 DEF LeaderInv
<1>9. ASSUME NEW c \in Clients, EmplacePlayer(c) PROVE LeaderInv'
  <2> PICK o \in Clients : o = session[c]
    BY <1>0, <1>9 DEF EmplacePlayer
  <2>1. /\ pc[c] = "emplace" /\ pc' = [pc EXCEPT ![c] = "joinAck"]
        /\ players' = [players EXCEPT ![o] = Append(@, c)]
        /\ UNCHANGED <<sessions, session>>
    BY <1>9 DEF EmplacePlayer, AddPlayer
  <2>2. \A q \in Clients : Orphaned(q) => Orphaned(q)'
    BY <2>1 DEF Orphaned
  <2>3. \A d \in Clients : pc'[d] # "emplace"
    BY <1>9, <2>1 DEF EmplacePlayer, CapacityInv
  <2>4. players[o] = <<>> => Orphaned(o)
    BY <2>1 DEF LeaderInv
  <2>5. players[o] # <<>> => Head(players'[o]) = Head(players[o])
    BY <2>1
  <2>6. \A q \in Clients : q # o => players'[q] = players[q]
    BY <2>1
  <2>7. QED
    BY <2>2, <2>3, <2>4, <2>5, <2>6 DEF LeaderInv
<1>10. ASSUME NEW c \in Clients, NotifyErased(c) PROVE LeaderInv'
  <2>1. \A d \in Clients : pc[d] # "emplace"
    BY <1>10, OneJoinerInside DEF NotifyErased, Unlocking
  <2>2. /\ pc[c] = "notify" /\ pc' = [pc EXCEPT ![c] = "done"]
        /\ players' = [players EXCEPT ![c] = <<>>] /\ UNCHANGED session
    BY <1>10 DEF NotifyErased
  <2>3. \A o \in Clients : Orphaned(o) => Orphaned(o)'
    BY <2>2 DEF Orphaned
  <2>4. QED
    BY <2>1, <2>2, <2>3, LeaderStill
<1>11. ASSUME NEW c \in Clients, Loud(c) PROVE LeaderInv'
  BY <1>2, <1>3, <1>4, <1>5, <1>6, <1>7, <1>8, <1>9, <1>10, <1>11 DEF Loud
<1>12. QED
  BY <1>1, <1>11, StepKinds

(* Only in the window before the erase does a session with players lack    *)
(* its creator at index 0.                                                 *)
THEOREM LeaderFirstHolds == Spec => []LeaderFirst
<1> DEFINE Inv == TypeInv /\ CapacityInv /\ RegistryInv /\ LeaderInv
<1>1. Init => Inv
  BY TypeInit, CapacityInit, RegistryInit
<1>2. Inv /\ [Next]_vars => Inv'
  BY TypeStep, CapacityStep, RegistryStep, LeaderStep
<1>3. Inv => LeaderFirst
  BY DEF LeaderInv, LeaderFirst, Orphaned
<1>4. QED
  BY <1>1, <1>2, <1>3, PTL DEF Spec
-----------------------------------------------------------------------------
(***************************************************************************)
(* Mutexes.  A session's mutex is held across steps only where a join      *)
(* appends and where a closing session's players are told; neither waits   *)
(* for another mutex.  The registry's is held by a join that appends or by *)
(* a thread that waits for a session's mutex and for nothing else.         *)
(***************************************************************************)
LockInv ==
  /\ \A c \in Clients : sessions_mutex = c => pc[c] \in NestingPCs \cup {"emplace"}
  /\ \A c, o \in Clients :
       session_mutex[o] = c => session[c] = o /\ pc[c] \in {"emplace", "closing"}

LEMMA LockInit == Init => LockInv
BY LobbyAssumption DEF Init, LockInv

(* Steps that take and release nothing.                                    *)
LEMMA LockStill ==
  ASSUME LockInv, UNCHANGED lockVars,
         \A c \in Clients :
           \/ UNCHANGED <<pc[c], session[c]>>
           \/ pc[c] \notin NestingPCs \cup {"emplace", "closing"}
  PROVE  LockInv'
BY DEF LockInv, lockVars, NestingPCs

(* The end of a critical section that has not kept a session's mutex.      *)
LEMMA LockReleased ==
  ASSUME TypeOK, LockInv, NEW c \in Clients, Unlocking(c),
         pc[c] \in NestingPCs, UNCHANGED session,
         \A d \in Clients \ {c} : pc'[d] = pc[d]
  PROVE  LockInv'
<1>1. \A d \in Clients : sessions_mutex' # d
  BY LobbyAssumption DEF Unlocking
<1>2. \A o \in Clients : session_mutex'[o] # c
  BY DEF Unlocking, LockInv, NestingPCs
<1>3. QED
  BY <1>1, <1>2 DEF LockInv, Unlocking

LEMMA LockStep ==
  ASSUME TypeOK, LockInv, [Next]_vars
  PROVE  LockInv'
<1> USE DEF TypeOK, Step, NestingPCs, threadVars, lockVars
<1>1. ASSUME NEW c \in Clients,
             \/ Accept(c) \/ Greet(c) \/ DropRequest(c) \/ ReadRequest(c)
             \/ EmplaceSession(c) \/ ReuseSession(c) \/ LogCreated(c) \/ SendCreateAck(c)
      PROVE  LockInv'
  <2>1. UNCHANGED lockVars
    BY <1>1 DEF Accept, Greet, DropRequest, ReadRequest, EmplaceSession, ReuseSession,
                LogCreated, SendCreateAck
  <2>2. pc[c] \in {"idle", "greet", "request", "create", "created", "ack"}
    BY <1>1 DEF Accept, Greet, DropRequest, ReadRequest, EmplaceSession, ReuseSession,
                LogCreated, SendCreateAck
  <2>3. \A d \in Clients \ {c} : UNCHANGED <<pc[d], session[d]>>
    BY <1>1 DEF Accept, Greet, DropRequest, ReadRequest, EmplaceSession, ReuseSession,
                LogCreated, SendCreateAck
  <2>4. QED
    BY <2>1, <2>2, <2>3, LockStill
<1>2. ASSUME NEW c \in Clients,
             \/ RefuseStart(c) \/ AcceptStart(c) \/ LoseLeader(c) \/ ReadStale(c)
             \/ EraseQuit(c) \/ BuildGame(c) \/ EraseStart(c) \/ StartGame(c) \/ EndGame(c)
             \/ SendJoinAck(c)
      PROVE  LockInv'
  <2>1. UNCHANGED <<session, lockVars>>
    BY <1>2 DEF RefuseStart, AcceptStart, LoseLeader, ReadStale, EraseQuit, BuildGame,
                EraseStart, EraseSession, StartGame, EndGame, SendJoinAck
  <2>2. pc[c] \in {"wait", "eraseQuit", "build", "eraseStart", "play", "turn", "joinAck"}
    BY <1>2 DEF RefuseStart, AcceptStart, LoseLeader, ReadStale, EraseQuit, BuildGame,
                EraseStart, EraseSession, StartGame, EndGame, SendJoinAck
  <2>3. \A d \in Clients \ {c} : pc'[d] = pc[d]
    BY <1>2 DEF RefuseStart, AcceptStart, LoseLeader, ReadStale, EraseQuit, BuildGame,
                EraseStart, EraseSession, StartGame, EndGame, SendJoinAck
  <2>4. QED
    BY <2>1, <2>2, <2>3, LockStill
<1>3. ASSUME NEW c \in Clients,
             \/ Announce(c) \/ RefuseJoin(c) \/ NoRandomSession(c)
             \/ NotifySession(c) \/ NotifyErased(c)
      PROVE  LockInv'
  BY <1>3, LockReleased DEF Announce, RefuseJoin, NoRandomSession, NotifySession, NotifyErased
<1>4. ASSUME NEW c \in Clients, LockRegistry(c) PROVE LockInv'
  BY <1>4 DEF LockRegistry, LockInv
<1>5. ASSUME NEW c \in Clients, JoinSession(c) \/ JoinRandom(c) PROVE LockInv'
  <2>1. PICK id \in DOMAIN sessions, from \in {"join", "random"} : EnterJoin(c, from, id)
    BY <1>5 DEF JoinSession, JoinRandom, EnterJoin, Registered
  <2> PICK o \in Clients : o = sessions[id]
    OBVIOUS
  <2>2. /\ pc[c] = from /\ pc' = [pc EXCEPT ![c] = "emplace"]
        /\ session' = [session EXCEPT ![c] = o]
        /\ sessions_mutex = c /\ sessions_mutex' = c
        /\ session_mutex' = [session_mutex EXCEPT ![o] = c]
    BY <2>1 DEF EnterJoin
  <2>3. \A q \in Clients : session_mutex[q] # c
    BY <2>2 DEF LockInv
  <2>4. QED
    BY <2>2, <2>3 DEF LockInv
<1>6. ASSUME NEW c \in Clients, EmplacePlayer(c) PROVE LockInv'
  <2>1. /\ pc[c] = "emplace" /\ pc' = [pc EXCEPT ![c] = "joinAck"] /\ UNCHANGED session
        /\ sessions_mutex' = NoOne
        /\ session_mutex' = [session_mutex EXCEPT ![session[c]] = NoOne]
    BY <1>6 DEF EmplacePlayer, UnlockBoth
  <2>2. \A q \in Clients : session_mutex'[q] # c
    BY <2>1, LobbyAssumption DEF LockInv
  <2>3. QED
    BY <2>1, <2>2, LobbyAssumption DEF LockInv
<1>7. ASSUME NEW c \in Clients, Invalidate(c) PROVE LockInv'
  <2>1. /\ pc[c] = "invalidate" /\ pc' = [pc EXCEPT ![c] = "closing"] /\ UNCHANGED session
        /\ UNCHANGED sessions_mutex
        /\ session_mutex' = [session_mutex EXCEPT ![session[c]] = c]
    BY <1>7 DEF Invalidate
  <2>2. sessions_mutex # c
    BY <2>1 DEF LockInv
  <2>3. QED
    BY <2>1, <2>2 DEF LockInv
<1>8. ASSUME NEW c \in Clients, CloseSession(c) PROVE LockInv'
  <2>1. /\ pc[c] = "closing" /\ pc' = [pc EXCEPT ![c] = "eraseQuit"] /\ UNCHANGED session
        /\ UNCHANGED sessions_mutex
        /\ session_mutex' = [session_mutex EXCEPT ![session[c]] = NoOne]
    BY <1>8 DEF CloseSession, UnlockSession
  <2>2. sessions_mutex # c /\ \A q \in Clients : session_mutex'[q] # c
    BY <2>1, LobbyAssumption DEF LockInv
  <2>3. QED
    BY <2>1, <2>2, LobbyAssumption DEF LockInv
<1>9. ASSUME NEW c \in Clients, Leave(c) \/ SendStart(c) PROVE LockInv'
  BY <1>9, LockStill DEF Leave, SendStart
<1>10. CASE UNCHANGED vars
  BY <1>10, LockStill DEF vars
<1>11. QED
  BY <1>1, <1>2, <1>3, <1>4, <1>5, <1>6, <1>7, <1>8, <1>9, <1>10
     DEF Next, ThreadStep, ClientStep, Finished

(* No deadlock, however many threads wait for one another's mutexes: in a  *)
(* set of threads that wait, one that holds a session's mutex waits for    *)
(* nobody; where none does, the holder of the registry's waits for nobody  *)
(* of the set; and where nobody holds a mutex nobody waits.                *)
THEOREM NoCircularWaitHolds == Spec => []NoCircularWait
<1>1. TypeOK /\ LockInv => NoCircularWait
  <2> SUFFICES ASSUME TypeOK, LockInv, NEW W \in SUBSET Clients, W # {}
               PROVE  \E c \in W : \A d \in W : ~WaitsFor(c, d)
    BY DEF NoCircularWait
  <2>1. CASE \E c \in W, o \in Clients : session_mutex[o] = c
    <3>1. PICK c \in W : pc[c] \in {"emplace", "closing"}
      BY <2>1 DEF LockInv
    <3>2. QED
      BY <3>1 DEF WaitsFor, NestingPCs
  <2>2. CASE /\ \A c \in W, o \in Clients : session_mutex[o] # c
             /\ sessions_mutex \in W
    <3>1. PICK c \in W : sessions_mutex = c
      BY <2>2
    <3>2. pc[c] \in NestingPCs \cup {"emplace"}
      BY <3>1 DEF LockInv
    <3>3. QED
      BY <2>2, <3>1, <3>2 DEF WaitsFor, NextSessions, NestingPCs
  <2>3. CASE /\ \A c \in W, o \in Clients : session_mutex[o] # c
             /\ sessions_mutex \notin W
    BY <2>3 DEF WaitsFor, NextSessions
  <2>4. QED
    BY <2>1, <2>2, <2>3
<1>2. TypeInv /\ LockInv /\ [Next]_vars => (TypeInv /\ LockInv)'
  BY TypeStep, LockStep DEF TypeInv
<1>3. TypeInv => TypeOK
  BY DEF TypeInv
<1>4. QED
  BY <1>1, <1>2, <1>3, TypeInit, LockInit, PTL DEF Spec
=============================================================================
