-------------------------------- MODULE Rules --------------------------------
(***************************************************************************)
(* A game of Hanabi without its dialogue: whose turn it is and what a turn *)
(* may do.  Every turn is one move; a move touches one hand, the player's  *)
(* own when a card is played or discarded, somebody else's when it is a    *)
(* hint, which changes no card.  Module Game implements this.              *)
(***************************************************************************)
EXTENDS Integers

CONSTANTS NumPlayers, Colours, MaxNumber, totalBlueTokens, totalBlackFuseTokens

VARIABLES
  phase,   \* "deal", "think", "moved" or "over"
  player,  \* whose turn it is
  hands,
  table,   \* the top number of each stack
  pile,    \* how many cards are discarded
  blue,
  fuse

vars == <<phase, player, hands, table, pile, blue, fuse>>

Players == 0 .. NumPlayers - 1

Init ==
  /\ phase = "deal" /\ player = 0
  /\ hands = [p \in Players |-> <<>>]
  /\ table = [c \in Colours |-> 0]
  /\ pile = 0 /\ blue = totalBlueTokens /\ fuse = totalBlackFuseTokens

Deal ==
  /\ phase = "deal" /\ phase' \in {"deal", "think"}
  /\ UNCHANGED <<player, table, pile, blue, fuse>>

(* The player's move, on the hand of q.                                    *)
Move(q) ==
  /\ phase = "think" /\ phase' = "moved"
  /\ \A p \in Players \ {q} : hands'[p] = hands[p]
  /\ UNCHANGED player

(* A completed stack gives a blue token back, if one is spent.             *)
Play ==
  /\ Move(player)
  /\ \E c \in Colours :
       /\ table[c] < MaxNumber
       /\ table' = [table EXCEPT ![c] = @ + 1]
       /\ blue' = IF table[c] + 1 = MaxNumber /\ blue < totalBlueTokens
                    THEN blue + 1 ELSE blue
  /\ UNCHANGED <<pile, fuse>>

Misplay ==
  /\ Move(player)
  /\ fuse > 0 /\ fuse' = fuse - 1
  /\ pile' = pile + 1
  /\ UNCHANGED <<hands, table, blue>>

Discard ==
  /\ Move(player)
  /\ pile' = pile + 1 /\ blue' = blue + 1
  /\ UNCHANGED <<table, fuse>>

SameCards(s, t) ==
  /\ DOMAIN s = DOMAIN t
  /\ \A i \in DOMAIN s : s[i].number = t[i].number /\ s[i].colour = t[i].colour

Hint ==
  /\ \E q \in Players \ {player} : Move(q) /\ SameCards(hands[q], hands'[q])
  /\ blue > 0 /\ blue' = blue - 1
  /\ UNCHANGED <<table, pile, fuse>>

(* The turn passes on unless the game is won or lost.                      *)
Pass ==
  /\ phase = "moved" /\ phase' = "think"
  /\ fuse > 0 /\ \E c \in Colours : table[c] # MaxNumber
  /\ player' = (player + 1) % NumPlayers
  /\ UNCHANGED <<hands, table, pile, blue, fuse>>

Stop ==
  /\ phase' = "over"
  /\ UNCHANGED <<hands, table, pile, blue, fuse>>

Next == Deal \/ Play \/ Misplay \/ Discard \/ Hint \/ Pass \/ Stop

Spec == Init /\ [][Next]_vars
=============================================================================
