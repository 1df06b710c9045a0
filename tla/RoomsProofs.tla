----------------------------- MODULE RoomsProofs -----------------------------
(***************************************************************************)
(* The lobby of module Lobby, with its threads, locks and ids, implements  *)
(* the lobby of module Rooms: every step is one of its steps or a stutter. *)
(***************************************************************************)
EXTENDS LobbyProofs

(* A thread has no Session before it picks one, never works on an object   *)
(* named after it that it has not put into the map, and players are only   *)
(* in Sessions that were created.                                          *)
SessionInv ==
  /\ \A c \in Clients : pc[c] \in Unplaced \ {"emplace"} => session[c] = NoOne
  /\ \A c \in Clients : pc[c] \in Sessionless => session[c] # c
  /\ \A c \in Clients : pc[c] = "emplace" => session[session[c]] = session[c]
  /\ \A o \in Clients : session[o] # o => players[o] = <<>>

RoomsInv ==
  TypeInv /\ CapacityInv /\ CountInv /\ PlaceInv /\ RegistryInv /\ LeaderInv /\ SessionInv

LEMMA SessionInit == Init => SessionInv
BY LobbyAssumption DEF Init, SessionInv

(* Steps that leave every thread its Session.                              *)
LEMMA SessionStill ==
  ASSUME TypeOK, SessionInv, UNCHANGED session,
         \A o \in Clients : players'[o] = players[o] \/ players'[o] = <<>> \/ session[o] = o,
         \A c \in Clients :
           /\ pc'[c] \in Unplaced \ {"emplace"} => pc[c] \in Unplaced \ {"emplace"}
           /\ pc'[c] \in Sessionless => pc[c] \in Sessionless
           /\ pc'[c] = "emplace" => pc[c] = "emplace"
  PROVE  SessionInv'
BY DEF SessionInv

(* A thread that has not picked a Session has put none in the map, and no  *)
(* joiner waits for its object.                                            *)
LEMMA NoSessionYet ==
  ASSUME SessionInv, NEW c \in Clients, pc[c] \in {"create", "join", "random"}
  PROVE  /\ session[c] = NoOne /\ c # NoOne /\ players[c] = <<>>
         /\ \A d \in Clients : pc[d] = "emplace" => session[d] # c
<1>1. session[c] = NoOne /\ c # NoOne
  BY LobbyAssumption DEF SessionInv, Unplaced
<1>2. players[c] = <<>>
  BY <1>1 DEF SessionInv
<1>3. ASSUME NEW d \in Clients, pc[d] = "emplace", session[d] = c PROVE FALSE
  <2>1. session[session[d]] = session[d]
    BY <1>3 DEF SessionInv
  <2>2. QED
    BY <1>1, <1>3, <2>1
<1>4. QED
  BY <1>1, <1>2, <1>3

LEMMA SessionStep ==
  ASSUME RoomsInv, [Next]_vars
  PROVE  SessionInv'
<1> USE DEF RoomsInv, TypeInv, TypeOK, Step, PCs, threadVars, objectVars
<1>1. CASE Quiet
  <2>1. UNCHANGED <<session, players>>
    BY <1>1 DEF Quiet
  <2>2. CASE UNCHANGED pc
    BY <2>1, <2>2, SessionStill
  <2>3. CASE ~UNCHANGED pc
    <3> PICK c \in Clients, p \in PCs :
          /\ pc' = [pc EXCEPT ![c] = p]
          /\ "emplace" \notin {p, pc[c]}
          /\ p \in Unplaced => pc[c] \in Unplaced
          /\ p \in Sessionless => pc[c] \in Sessionless
      BY <1>1, <2>3 DEF Quiet
    <3>1. QED
      BY <2>1, SessionStill
  <2>4. QED
    BY <2>2, <2>3
<1>2. ASSUME NEW c \in Clients, EmplaceSession(c) PROVE SessionInv'
  <2>1. /\ pc[c] = "create" /\ pc' = [pc EXCEPT ![c] = "created"]
        /\ session' = [session EXCEPT ![c] = c]
        /\ players' = [players EXCEPT ![c] = <<c>>]
    BY <1>2 DEF EmplaceSession
  <2>2. \A d \in Clients : pc[d] = "emplace" => session[d] # c
    BY <2>1, NoSessionYet
  <2>3. QED
    BY <2>1, <2>2 DEF SessionInv, Unplaced, Sessionless
<1>3. ASSUME NEW c \in Clients, ReuseSession(c) PROVE SessionInv'
  <2>1. /\ pc[c] = "create" /\ pc' = [pc EXCEPT ![c] = "created"]
        /\ session' = [session EXCEPT ![c] = sessions[NewId]]
        /\ UNCHANGED players
    BY <1>3 DEF ReuseSession
  <2>2. /\ session[c] = NoOne /\ c # NoOne /\ players[c] = <<>>
        /\ \A d \in Clients : pc[d] = "emplace" => session[d] # c
    BY <2>1, NoSessionYet
  <2>3. QED
    BY <2>1, <2>2 DEF SessionInv, Unplaced, Sessionless
<1>4. ASSUME NEW c \in Clients, EraseQuit(c) \/ EraseStart(c) PROVE SessionInv'
  <2>1. EraseSession(c)
    BY <1>4 DEF EraseQuit, EraseStart
  <2>2. \A o \in Clients : players'[o] = players[o] \/ players'[o] = <<>>
    BY <2>1, EraseEffect
  <2>3. UNCHANGED session
    BY <2>1, EraseEffect
  <2>4. \A d \in Clients :
          /\ pc'[d] \in Unplaced \ {"emplace"} => pc[d] \in Unplaced \ {"emplace"}
          /\ pc'[d] \in Sessionless => pc[d] \in Sessionless
          /\ pc'[d] = "emplace" => pc[d] = "emplace"
    BY <1>4 DEF EraseQuit, EraseStart, Sessionless, Unplaced
  <2>5. QED
    BY <2>2, <2>3, <2>4, SessionStill
<1>5. ASSUME NEW c \in Clients, BuildGame(c) \/ EndGame(c) PROVE SessionInv'
  <2>1. \A o \in Clients : players'[o] = players[o] \/ players'[o] = <<>>
    BY <1>5 DEF BuildGame, MovePlayers, EndGame
  <2>2. UNCHANGED session
    BY <1>5 DEF BuildGame, EndGame
  <2>3. \A d \in Clients :
          /\ pc'[d] \in Unplaced \ {"emplace"} => pc[d] \in Unplaced \ {"emplace"}
          /\ pc'[d] \in Sessionless => pc[d] \in Sessionless
          /\ pc'[d] = "emplace" => pc[d] = "emplace"
    BY <1>5 DEF BuildGame, EndGame, Sessionless, Unplaced
  <2>4. QED
    BY <2>1, <2>2, <2>3, SessionStill
<1>6. ASSUME NEW c \in Clients, NEW from \in {"join", "random"}, NEW id \in DOMAIN sessions,
             EnterJoin(c, from, id)
      PROVE  SessionInv'
  <2> PICK o \in Clients : o = sessions[id]
    OBVIOUS
  <2>1. /\ pc[c] = from /\ pc' = [pc EXCEPT ![c] = "emplace"]
        /\ session' = [session EXCEPT ![c] = o]
        /\ UNCHANGED players /\ players[o] # <<>>
    BY <1>6 DEF EnterJoin, Joinable
  <2>2. /\ session[c] = NoOne /\ c # NoOne /\ players[c] = <<>>
        /\ \A d \in Clients : pc[d] = "emplace" => session[d] # c
    BY <2>1, NoSessionYet
  <2>3. session[o] = o /\ o # c
    BY <2>1, <2>2 DEF SessionInv
  <2>4. \A d \in Clients \ {c} : session'[d] = session[d] /\ pc'[d] = pc[d]
    BY <2>1
  <2>5. session'[c] = o /\ pc'[c] = "emplace" /\ session'[o] = o
    BY <2>1, <2>3
  <2>6. \A d \in Clients : pc'[d] \in Unplaced \ {"emplace"} => session'[d] = NoOne
    BY <2>4, <2>5 DEF SessionInv
  <2>7. \A d \in Clients : pc'[d] \in Sessionless => session'[d] # d
    BY <2>3, <2>4, <2>5 DEF SessionInv
  <2>8. ASSUME NEW d \in Clients, pc'[d] = "emplace" PROVE session'[session'[d]] = session'[d]
    <3>1. CASE d = c
      BY <2>5, <3>1
    <3>2. CASE d # c
      <4>1. session'[d] = session[d] /\ session[d] # c /\ session[session[d]] = session[d]
        BY <2>2, <2>4, <2>8, <3>2 DEF SessionInv
      <4>2. session'[session[d]] = session[session[d]]
        BY <2>1, <4>1
      <4>3. QED
        BY <4>1, <4>2
    <3>3. QED
      BY <3>1, <3>2
  <2>9. \A q \in Clients : session'[q] # q => players'[q] = <<>>
    BY <2>1, <2>2, <2>4 DEF SessionInv
  <2>10. QED
    BY <2>6, <2>7, <2>8, <2>9 DEF SessionInv
<1>7. ASSUME NEW c \in Clients, EmplacePlayer(c) PROVE SessionInv'
  <2>1. /\ pc[c] = "emplace" /\ pc' = [pc EXCEPT ![c] = "joinAck"] /\ UNCHANGED session
        /\ players' = [players EXCEPT ![session[c]] = Append(@, c)]
    BY <1>7 DEF EmplacePlayer, AddPlayer
  <2>2. \A o \in Clients : players'[o] = players[o] \/ session[o] = o
    BY <2>1 DEF SessionInv
  <2>3. QED
    BY <2>1, <2>2, SessionStill DEF Sessionless, Unplaced
<1>8. ASSUME NEW c \in Clients, NotifyErased(c) PROVE SessionInv'
  <2>1. /\ pc[c] = "notify" /\ pc' = [pc EXCEPT ![c] = "done"] /\ UNCHANGED session
        /\ players' = [players EXCEPT ![c] = <<>>]
    BY <1>8 DEF NotifyErased
  <2>2. QED
    BY <2>1, SessionStill DEF Sessionless, Unplaced
<1>9. ASSUME NEW c \in Clients, Loud(c) PROVE SessionInv'
  BY <1>2, <1>3, <1>4, <1>5, <1>6, <1>7, <1>8, <1>9 DEF Loud
<1>10. QED
  BY <1>1, <1>9, StepKinds

LEMMA RoomsInvHolds == Spec => []RoomsInv
<1>1. Init => RoomsInv
  BY TypeInit, CapacityInit, CountInit, PlaceInit, RegistryInit, SessionInit DEF RoomsInv
<1>2. RoomsInv /\ [Next]_vars => RoomsInv'
  BY TypeStep, CapacityStep, CountStep, PlaceStep, RegistryStep, LeaderStep, SessionStep
     DEF RoomsInv
<1>3. QED
  BY <1>1, <1>2, PTL DEF Spec
-----------------------------------------------------------------------------
(* What Rooms sees of the lobby.                                           *)
Waiting == [o \in Clients |-> Range(players[o])]
Playing == [c \in Clients |-> Range(game[c])]
Closed == {c \in Clients : Erased(c)}

LEMMA RoomsVars ==
  ASSUME UNCHANGED <<Waiting, Playing, Settled, Closed>>
  PROVE  UNCHANGED R!vars
BY DEF R!vars, Waiting, Playing, Closed

LEMMA SettledStays ==
  ASSUME UNCHANGED session, \A c \in Clients : pc'[c] = "emplace" <=> pc[c] = "emplace"
  PROVE  Settled' = Settled
BY DEF Settled

LEMMA ClosedStays ==
  ASSUME UNCHANGED session, \A o \in Clients : session[o] = o => (Live(o)' <=> Live(o))
  PROVE  Closed' = Closed
BY DEF Closed, Erased

(* A session holds no more clients than its vector has places.             *)
LEMMA RangeFits ==
  ASSUME NEW S, NEW s \in Seq(S)
  PROVE  Cardinality(Range(s)) <= Len(s)
<1>1. Len(s) \in Nat /\ DOMAIN s = 1 .. Len(s)
  OBVIOUS
<1>2. s \in [1 .. Len(s) -> Range(s)] /\ \A x \in Range(s) : \E i \in 1 .. Len(s) : s[i] = x
  BY <1>1 DEF Range
<1>3. ExistsSurjection(1 .. Len(s), Range(s))
  BY <1>2 DEF ExistsSurjection, Surjection
<1>4. QED
  BY <1>1, <1>3, FS_SurjCardinalityBound

(* The Cardinality that Rooms is written with is the one proved about.     *)
LEMMA SameCardinality == \A S : R!Cardinality(S) = Cardinality(S)
BY DEF R!Cardinality, Cardinality

LEMMA InitialRooms == Init => R!Init
<1> SUFFICES ASSUME Init PROVE R!Init
  OBVIOUS
<1>1. Waiting = [o \in Clients |-> {}] /\ Playing = [c \in Clients |-> {}]
  BY EmptyVector DEF Init, Waiting, Playing
<1>2. Settled = {} /\ Closed = {}
  BY LobbyAssumption DEF Init, Settled, Closed, Erased
<1>3. QED
  BY <1>1, <1>2 DEF R!Init, Waiting, Playing, Closed
-----------------------------------------------------------------------------
(* Quiet steps are invisible.                                              *)
LEMMA QuietStutters == TypeOK /\ Quiet => UNCHANGED R!vars
<1> SUFFICES ASSUME TypeOK, Quiet PROVE UNCHANGED R!vars
  OBVIOUS
<1>1. UNCHANGED <<session, sessions, players, game>>
  BY DEF Quiet
<1>2. \A c \in Clients : pc'[c] = "emplace" <=> pc[c] = "emplace"
  BY DEF Quiet, TypeOK
<1>3. UNCHANGED <<Waiting, Playing>>
  BY <1>1 DEF Waiting, Playing
<1>4. UNCHANGED Closed
  BY <1>1, ClosedStays DEF Live
<1>5. QED
  BY <1>1, <1>2, <1>3, <1>4, SettledStays, RoomsVars

(* A creation is the entry of its leader.                                  *)
LEMMA CreateEnters ==
  ASSUME RoomsInv, NEW c \in Clients, EmplaceSession(c)
  PROVE  R!Enter(c, c)
<1> USE DEF RoomsInv, TypeInv, TypeOK
<1>1. /\ pc[c] = "create" /\ pc' = [pc EXCEPT ![c] = "created"]
      /\ session' = [session EXCEPT ![c] = c]
      /\ players' = [players EXCEPT ![c] = <<c>>]
      /\ UNCHANGED game
  BY DEF EmplaceSession, Step
<1>2. session[c] = NoOne /\ c # NoOne /\ players[c] = <<>>
  BY <1>1, LobbyAssumption DEF SessionInv, CountInv, Unplaced, Sessionless
<1>3. \A q \in Clients : Live(q)' <=> Live(q) \/ q = c
  <2>1. NewId \in Nat /\ Insert(NewId, c) /\ ~Registered(NewId)
    BY NewIdType DEF EmplaceSession
  <2>2. QED
    BY <2>1, InsertLive
<1>4. c \notin Settled /\ c \notin Closed
  BY <1>2 DEF Settled, Closed, Erased
<1>5. Settled' = Settled \cup {c}
  BY <1>1, <1>2 DEF Settled, PCs
<1>6. Closed' = Closed
  BY <1>1, <1>2, <1>3 DEF Closed, Erased
<1>7. Waiting[c] = {} /\ Waiting' = [Waiting EXCEPT ![c] = Waiting[c] \cup {c}]
  <2>1. Waiting[c] = {}
    BY <1>2, EmptyVector DEF Waiting
  <2>2. Waiting' = [Waiting EXCEPT ![c] = {c}]
    BY <1>1, SingletonVector DEF Waiting
  <2>3. QED
    BY <2>1, <2>2
<1>8. Cardinality(Waiting[c]) < MaxPlayers
  BY <1>7, FS_EmptySet, LobbyAssumption
<1>9. UNCHANGED Playing
  BY <1>1 DEF Playing
<1>10. QED
  BY <1>4, <1>5, <1>6, <1>7, <1>8, <1>9, SameCardinality DEF R!Enter, Waiting, Playing, Closed

(* Taking over a registered session is being turned away.                  *)
LEMMA ReuseTurnsAway ==
  ASSUME RoomsInv, NEW c \in Clients, ReuseSession(c)
  PROVE  R!TurnAway(c)
<1> USE DEF RoomsInv, TypeInv, TypeOK
<1> PICK o \in Clients : o = sessions[NewId] /\ Live(o)
  BY DEF ReuseSession, Registered, Live
<1>1. /\ pc[c] = "create" /\ pc' = [pc EXCEPT ![c] = "created"]
      /\ session' = [session EXCEPT ![c] = o]
      /\ UNCHANGED <<players, game, sessions>>
  BY DEF ReuseSession, Step, objectVars
<1>2. session[c] = NoOne /\ c # NoOne /\ o # NoOne
  BY <1>1, LobbyAssumption DEF SessionInv, Unplaced
<1>3. o # c
  BY <1>1 DEF RegistryInv, Unplaced, Sessionless
<1>4. Settled' = Settled \cup {c}
  BY <1>1, <1>2 DEF Settled, PCs
<1>5. Closed' = Closed
  BY <1>1, <1>2, <1>3 DEF Closed, Erased, Live
<1>6. UNCHANGED <<Waiting, Playing>>
  BY <1>1 DEF Waiting, Playing
<1>7. QED
  BY <1>4, <1>5, <1>6 DEF R!TurnAway, Waiting, Playing, Closed

(* A join is an entry; having picked a session is not visible yet.         *)
LEMMA PickStutters ==
  ASSUME RoomsInv, NEW c \in Clients, NEW from \in {"join", "random"},
         NEW id \in DOMAIN sessions, EnterJoin(c, from, id)
  PROVE  UNCHANGED R!vars
<1> USE DEF RoomsInv, TypeInv, TypeOK
<1> PICK o \in Clients : o = sessions[id] /\ Live(o)
  BY DEF Live
<1>1. /\ pc[c] = from /\ pc' = [pc EXCEPT ![c] = "emplace"]
      /\ session' = [session EXCEPT ![c] = o]
      /\ UNCHANGED <<players, game, sessions>>
  BY DEF EnterJoin, Step, objectVars
<1>2. session[c] = NoOne /\ c # NoOne
  BY <1>1, LobbyAssumption DEF SessionInv, Unplaced
<1>3. o # c
  BY <1>1 DEF RegistryInv, Unplaced, Sessionless
<1>4. Settled' = Settled
  BY <1>1, <1>2 DEF Settled, PCs
<1>5. Closed' = Closed
  BY <1>1, <1>2, <1>3 DEF Closed, Erased, Live
<1>6. UNCHANGED <<Waiting, Playing>>
  BY <1>1 DEF Waiting, Playing
<1>7. QED
  BY <1>4, <1>5, <1>6, RoomsVars

LEMMA JoinEnters ==
  ASSUME RoomsInv, NEW c \in Clients, EmplacePlayer(c)
  PROVE  R!Enter(session[c], c)
<1> USE DEF RoomsInv, TypeInv, TypeOK
<1> PICK o \in Clients : o = session[c]
  BY DEF EmplacePlayer, Step, RefsBound, JoinPCs
<1>1. /\ pc[c] = "emplace" /\ pc' = [pc EXCEPT ![c] = "joinAck"]
      /\ players' = [players EXCEPT ![o] = Append(@, c)]
      /\ UNCHANGED <<session, sessions, game>>
  BY DEF EmplacePlayer, AddPlayer, Step, threadVars
<1>2. Live(o) /\ Len(players[o]) < MaxPlayers
  BY <1>1, LobbyAssumption DEF LeaderInv, CapacityInv
<1>3. c \notin Settled /\ o \notin Closed
  BY <1>1, <1>2 DEF Settled, Closed, Erased
<1>4. Settled' = Settled \cup {c}
  BY <1>1, LobbyAssumption DEF Settled, PCs
<1>5. Closed' = Closed
  BY <1>1, ClosedStays DEF Live
<1>6. Waiting' = [Waiting EXCEPT ![o] = Waiting[o] \cup {c}]
  <2>1. Range(players'[o]) = Range(players[o]) \cup {c}
    BY <1>1, AppendToVector
  <2>2. \A q \in Clients : q # o => players'[q] = players[q]
    BY <1>1
  <2>3. QED
    BY <2>1, <2>2 DEF Waiting
<1>7. Cardinality(Waiting[o]) < MaxPlayers
  <2>1. Cardinality(Waiting[o]) <= Len(players[o])
    BY RangeFits DEF Waiting
  <2>2. Range(players[o]) \subseteq Clients
    BY DEF Range
  <2>3. Cardinality(Waiting[o]) \in Nat
    BY <2>2, LobbyAssumption, FS_Subset, FS_CardinalityType DEF Waiting
  <2>4. QED
    BY <1>2, <2>1, <2>3, LobbyAssumption
<1>8. UNCHANGED Playing
  BY <1>1 DEF Playing
<1>9. QED
  BY <1>3, <1>4, <1>5, <1>6, <1>7, <1>8, SameCardinality DEF R!Enter, Waiting, Playing, Closed
-----------------------------------------------------------------------------
(* An erase closes a session that was created, and is invisible when it    *)
(* finds none or one that NotifyErased has left behind.                    *)
LEMMA EraseCloses ==
  ASSUME RoomsInv, NEW c \in Clients, EraseQuit(c) \/ EraseStart(c)
  PROVE  (\E o \in Clients : R!Close(o)) \/ UNCHANGED R!vars
<1> USE DEF RoomsInv, TypeInv
<1>1. EraseSession(c)
  BY DEF EraseQuit, EraseStart
<1>2. UNCHANGED <<session, game>>
  BY <1>1, EraseEffect
<1>3. Settled' = Settled
  BY <1>2, SettledStays DEF EraseQuit, EraseStart, Step, TypeOK
<1>4. UNCHANGED Playing
  BY <1>2 DEF Playing
<1>5. \A q \in Clients :
        \/ (Live(q)' <=> Live(q)) /\ players'[q] = players[q]
        \/ /\ ~Live(q)' /\ players'[q] = <<>>
           /\ Registered(session_id[c]) /\ sessions[session_id[c]] = q
  BY <1>1, EraseLive
<1>6. CASE \A q \in Clients :
             session[q] = q => (Live(q)' <=> Live(q)) /\ players'[q] = players[q]
  <2>1. \A q \in Clients : players'[q] = players[q]
    BY <1>5, <1>6 DEF SessionInv
  <2>2. UNCHANGED Waiting
    BY <2>1 DEF Waiting
  <2>3. UNCHANGED Closed
    BY <1>2, <1>6, ClosedStays
  <2>4. QED
    BY <1>3, <1>4, <2>2, <2>3, RoomsVars
<1>7. ASSUME NEW o \in Clients, session[o] = o,
             ~((Live(o)' <=> Live(o)) /\ players'[o] = players[o])
      PROVE  R!Close(o)
  <2>1. ~Live(o)' /\ players'[o] = <<>> /\ sessions[session_id[c]] = o
    BY <1>5, <1>7
  <2>2. \A q \in Clients : q # o => (Live(q)' <=> Live(q)) /\ players'[q] = players[q]
    BY <1>5, <2>1
  <2>3. Waiting' = [Waiting EXCEPT ![o] = {}]
    BY <2>1, <2>2, EmptyVector DEF Waiting
  <2>4. Closed' = Closed \cup {o}
    BY <1>2, <1>7, <2>1, <2>2 DEF Closed, Erased
  <2>5. QED
    BY <1>3, <1>4, <2>3, <2>4 DEF R!Close, Waiting, Playing, Closed
<1>8. QED
  BY <1>6, <1>7

(* Building a game takes everybody who waits in its session along.         *)
LEMMA BuildBegins ==
  ASSUME RoomsInv, NEW c \in Clients, BuildGame(c)
  PROVE  session[c] \in Clients /\ R!Begin(session[c], c)
<1> USE DEF RoomsInv, TypeInv, TypeOK
<1> PICK o \in Clients : o = session[c]
  BY DEF BuildGame, Step, RefsBound, LeadPCs
<1>1. /\ pc[c] = "build" /\ pc' = [pc EXCEPT ![c] = "eraseStart"]
      /\ game' = [game EXCEPT ![c] = players[o]]
      /\ players' = [players EXCEPT ![o] = <<>>]
      /\ UNCHANGED <<session, sessions>>
  BY DEF BuildGame, MovePlayers, Step, threadVars
<1>2. Playing[c] = {}
  BY <1>1, EmptyVector DEF PlaceInv, InGame, Playing
<1>3. Playing' = [Playing EXCEPT ![c] = Waiting[o]]
  BY <1>1 DEF Playing, Waiting
<1>4. Waiting' = [Waiting EXCEPT ![o] = {}]
  BY <1>1, EmptyVector DEF Waiting
<1>5. UNCHANGED <<Settled, Closed>>
  BY <1>1, SettledStays, ClosedStays DEF Live
<1>6. QED
  BY <1>2, <1>3, <1>4, <1>5 DEF R!Begin, Waiting, Playing, Closed

LEMMA EndEnds ==
  ASSUME RoomsInv, NEW c \in Clients, EndGame(c)
  PROVE  R!End(c)
<1> USE DEF RoomsInv, TypeInv, TypeOK
<1>1. /\ pc[c] = "turn" /\ pc' = [pc EXCEPT ![c] = "done"]
      /\ game' = [game EXCEPT ![c] = <<>>]
      /\ UNCHANGED <<session, sessions, players>>
  BY DEF EndGame, Step, threadVars, objectVars
<1>2. Playing' = [Playing EXCEPT ![c] = {}] /\ UNCHANGED Waiting
  BY <1>1, EmptyVector DEF Playing, Waiting
<1>3. UNCHANGED <<Settled, Closed>>
  BY <1>1, SettledStays, ClosedStays DEF Live
<1>4. QED
  BY <1>2, <1>3 DEF R!End, Waiting, Playing, Closed

(* The empty Session that a late notification registers is no room.        *)
LEMMA NotifyStutters ==
  ASSUME RoomsInv, NEW c \in Clients, NotifyErased(c)
  PROVE  UNCHANGED R!vars
<1> USE DEF RoomsInv, TypeInv, TypeOK
<1>1. /\ pc[c] = "notify" /\ pc' = [pc EXCEPT ![c] = "done"]
      /\ players' = [players EXCEPT ![c] = <<>>]
      /\ UNCHANGED <<session, game>>
  BY DEF NotifyErased, Step, threadVars
<1>2. players[c] = <<>> /\ session[c] # c
  BY <1>1 DEF CountInv, SessionInv, Sessionless
<1>3. \A q \in Clients : Live(q)' <=> Live(q) \/ q = c
  BY InsertLive DEF NotifyErased
<1>4. UNCHANGED <<Waiting, Playing>>
  BY <1>1, <1>2 DEF Waiting, Playing
<1>5. UNCHANGED Closed
  BY <1>1, <1>2, <1>3, ClosedStays
<1>6. QED
  BY <1>1, <1>4, <1>5, SettledStays, RoomsVars
-----------------------------------------------------------------------------
LEMMA RoomsStep == RoomsInv /\ [Next]_vars => [R!Next]_(R!vars)
<1> SUFFICES ASSUME RoomsInv, [Next]_vars PROVE [R!Next]_(R!vars)
  OBVIOUS
<1>0. TypeOK
  BY DEF RoomsInv, TypeInv
<1>1. CASE Quiet
  BY <1>0, <1>1, QuietStutters
<1>2. ASSUME NEW c \in Clients, EmplaceSession(c) \/ ReuseSession(c) PROVE R!Next
  BY <1>2, CreateEnters, ReuseTurnsAway DEF R!Next
<1>3. ASSUME NEW c \in Clients, EraseQuit(c) \/ EraseStart(c) PROVE [R!Next]_(R!vars)
  BY <1>3, EraseCloses DEF R!Next
<1>4. ASSUME NEW c \in Clients, BuildGame(c) \/ EndGame(c) PROVE R!Next
  BY <1>4, BuildBegins, EndEnds DEF R!Next
<1>5. ASSUME NEW c \in Clients, EmplacePlayer(c) PROVE R!Next
  <2>1. session[c] \in Clients
    BY <1>5 DEF EmplacePlayer, Step, RoomsInv, TypeInv, RefsBound, JoinPCs
  <2>2. QED
    BY <1>5, <2>1, JoinEnters DEF R!Next
<1>6. ASSUME NEW c \in Clients, Loud(c) PROVE [R!Next]_(R!vars)
  BY <1>2, <1>3, <1>4, <1>5, <1>6, PickStutters, NotifyStutters DEF Loud
<1>7. QED
  BY <1>0, <1>1, <1>6, StepKinds

(* However the threads interleave, with any number of clients and any      *)
(* capacity, the lobby is one as Rooms promises it: ImplementsRooms.       *)
THEOREM LobbyImplementsRooms == Spec => ImplementsRooms
<1>1. Spec => R!Init /\ [][R!Next]_(R!vars)
  BY InitialRooms, RoomsStep, RoomsInvHolds, PTL DEF Spec
<1>2. QED
  BY <1>1 DEF ImplementsRooms, R!Spec
=============================================================================
