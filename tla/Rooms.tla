-------------------------------- MODULE Rooms --------------------------------
(***************************************************************************)
(* What a lobby promises, whatever its threads, locks and ids: a client    *)
(* enters at most one room, once, while the room is open and has a place;  *)
(* those waiting in a room leave it together, into one game or out, and    *)
(* those in a game leave it together.  Module Lobby implements this.       *)
(***************************************************************************)
EXTENDS Naturals, FiniteSets

CONSTANTS Clients, MaxPlayers

VARIABLES
  waiting,  \* who is waiting in each room; rooms are named after clients
  playing,  \* who plays each game; so are games
  settled,  \* clients that have entered a room or been turned away
  closed    \* rooms that nobody can enter any more

vars == <<waiting, playing, settled, closed>>

Init ==
  /\ waiting = [o \in Clients |-> {}]
  /\ playing = [g \in Clients |-> {}]
  /\ settled = {} /\ closed = {}

Enter(o, c) ==
  /\ c \notin settled /\ o \notin closed
  /\ Cardinality(waiting[o]) < MaxPlayers
  /\ waiting' = [waiting EXCEPT ![o] = @ \cup {c}]
  /\ settled' = settled \cup {c}
  /\ UNCHANGED <<playing, closed>>

TurnAway(c) ==
  /\ settled' = settled \cup {c}
  /\ UNCHANGED <<waiting, playing, closed>>

Begin(o, g) ==
  /\ playing[g] = {}
  /\ playing' = [playing EXCEPT ![g] = waiting[o]]
  /\ waiting' = [waiting EXCEPT ![o] = {}]
  /\ UNCHANGED <<settled, closed>>

Close(o) ==
  /\ waiting' = [waiting EXCEPT ![o] = {}]
  /\ closed' = closed \cup {o}
  /\ UNCHANGED <<playing, settled>>

End(g) ==
  /\ playing' = [playing EXCEPT ![g] = {}]
  /\ UNCHANGED <<waiting, settled, closed>>

Next ==
  \E o, c \in Clients :
    Enter(o, c) \/ TurnAway(c) \/ Begin(o, c) \/ Close(o) \/ End(c)

Spec == Init /\ [][Next]_vars
=============================================================================
