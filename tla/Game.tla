-------------------------------- MODULE Game --------------------------------
(***************************************************************************)
(* One game of Hanabi as hanabi_game/src/game.cpp plays it: the deal, the  *)
(* dialogue of a turn with its prompts, wrong answers and changes of mind, *)
(* the three moves, and players that hang up meanwhile.                    *)
(*                                                                         *)
(* start() plays MaxTurns turns.  In the code this is 1 ("only do 1 turn   *)
(* for now"); larger values run the loop that is written around it.        *)
(*                                                                         *)
(* The deck is the bag of the cards still to be drawn, since nobody can    *)
(* tell one shuffle from another before the cards come up.                 *)
(***************************************************************************)
EXTENDS Integers, Sequences, FiniteSets

CONSTANTS
  NumPlayers,            \* players.size()
  Colours,               \* Card::Colours without numColours and EMPTY
  MaxNumber,             \* the highest card, 5 in the code
  Copies,                \* how many cards of each number a colour has
  DisplayedCards,        \* cards of a hand that displayHands prints, 5
  totalBlueTokens,
  totalBlackFuseTokens,
  MaxTurns,              \* turns that start() plays, 1
  Leavers,               \* players that may hang up
  EMPTY                  \* the colour of the card that an empty deck yields

ASSUME GameAssumption ==
  /\ NumPlayers \in Nat \ {0, 1}
  /\ IsFiniteSet(Colours) /\ EMPTY \notin Colours
  /\ MaxNumber \in Nat \ {0}
  /\ Copies \in [1..MaxNumber -> Nat]
  /\ DisplayedCards \in Nat \ {0}
  /\ totalBlueTokens \in Nat
  /\ totalBlackFuseTokens \in Nat \ {0}
  /\ MaxTurns \in Nat \ {0}
  /\ Leavers \subseteq 0 .. NumPlayers - 1

Players == 0 .. NumPlayers - 1
Kinds == [number : 1..MaxNumber, colour : Colours]
Cards == [number : 0..MaxNumber, colour : Colours \cup {EMPTY},
          colourRevealed : BOOLEAN, numberRevealed : BOOLEAN]

(* Five cards each for up to three players, four for more.                 *)
cardsPerHand == IF NumPlayers <= 3 THEN DisplayedCards ELSE DisplayedCards - 1

VARIABLES
  pc,                  \* where start() stands; a prompt's name while it waits
  deck,                \* how many cards of each kind are still to be drawn
  hands,
  table,               \* the top number of each colour's stack
  discardPile,
  numBlueTokens,
  numBlackFuseTokens,
  curPlayer,
  hintee,              \* giveHint's hinteeIndexO
  turns,               \* turns completed
  gone,                \* players that have closed their connection
  fault                \* why the process has died, "none" while it runs

cardVars == <<deck, hands, table, discardPile>>
tokenVars == <<numBlueTokens, numBlackFuseTokens>>
turnVars == <<curPlayer, hintee, turns>>
vars == <<pc, cardVars, tokenVars, turnVars, gone, fault>>

Prompts == {"action", "play", "discard", "hintee", "hintType", "colour", "number"}

Init ==
  /\ pc = "deal"
  /\ deck = [k \in Kinds |-> Copies[k.number]]
  /\ hands = [p \in Players |-> <<>>]
  /\ table = [c \in Colours |-> 0]
  /\ discardPile = <<>>
  /\ numBlueTokens = totalBlueTokens
  /\ numBlackFuseTokens = totalBlackFuseTokens
  /\ curPlayer = 0 /\ hintee = 0 /\ turns = 0
  /\ gone = {} /\ fault = "none"
-----------------------------------------------------------------------------
(***************************************************************************)
(* Helpers.                                                                *)
(***************************************************************************)

Step(from, to) == fault = "none" /\ pc = from /\ pc' = to

(* A card as it comes from the deck: nothing about it is revealed.         *)
Fresh(k) == [number |-> k.number, colour |-> k.colour,
             colourRevealed |-> FALSE, numberRevealed |-> FALSE]

EmptyCard == [number |-> 0, colour |-> EMPTY,
              colourRevealed |-> TRUE, numberRevealed |-> TRUE]

(* What Deck::draw can yield, and the deck it leaves.                      *)
DrawsAgain == {[card |-> Fresh(k), rest |-> deck] : k \in {j \in Kinds : deck[j] > 0}}
DrawsPastEnd == {[card |-> Fresh(k), rest |-> [deck EXCEPT ![k] = @ - 1]] : k \in Kinds}
DrawsButLast ==
  IF \E k \in Kinds : deck[k] <= 1 /\ \A j \in Kinds \ {k} : deck[j] = 0
    THEN {[card |-> EmptyCard, rest |-> deck]}
    ELSE {[card |-> Fresh(k), rest |-> [deck EXCEPT ![k] = @ - 1]] :
            k \in {j \in Kinds : deck[j] > 0}}

Draws ==
  IF \A k \in Kinds : deck[k] = 0
    THEN {[card |-> EmptyCard, rest |-> deck]}
    ELSE {[card |-> Fresh(k), rest |-> [deck EXCEPT ![k] = @ - 1]] :
            k \in {j \in Kinds : deck[j] > 0}}

(* A send to a player that has hung up throws once the reset is back.  The *)
(* handler in start() broadcasts to the same players and throws again, out *)
(* of the thread: the process ends.                                        *)
SendOutcomes(S) == IF S \cap gone = {} THEN {"none"} ELSE {"none", "terminate"}

(* requestInt reads an answer of the player whose turn it is, who may have *)
(* sent it and hung up since.  An answer out of range is refused and the   *)
(* query repeated, which changes nothing, so only the answers that         *)
(* requestInt returns are steps.                                           *)
Answer(prompt, next) == Step(prompt, next)

FitsAbove(card) == table[card.colour] < card.number
Fits(card) == table[card.colour] + 1 = card.number

(* The blue token that completing a stack gives back.                      *)
FreeToken(card) == IF card.number = MaxNumber THEN 1 ELSE 0
Regained(card) ==
  IF card.number = MaxNumber /\ numBlueTokens < totalBlueTokens THEN 1 ELSE 0

(* The card at place i of the current hand gives way to a drawn one.       *)
Dwindle(i) ==
  /\ hands' = [hands EXCEPT ![curPlayer] = [j \in 1 .. Len(@) - 1 |-> IF j < i THEN @[j] ELSE @[j + 1]]]
  /\ UNCHANGED deck

Replace(i) ==
  \E d \in Draws : /\ hands' = [hands EXCEPT ![curPlayer][i] = d.card]
                   /\ deck' = d.rest

StacksComplete == \A c \in Colours : table[c] = MaxNumber
GameIsOver == StacksComplete \/ numBlackFuseTokens = 0
-----------------------------------------------------------------------------
(***************************************************************************)
(* start and turn.                                                         *)
(***************************************************************************)

(* The deal, one card at a time, hand after hand.                          *)
Deal ==
  /\ Step("deal", "deal")
  /\ \E p \in Players, d \in Draws :
       /\ Len(hands[p]) < cardsPerHand
       /\ \A q \in 0 .. p - 1 : Len(hands[q]) = cardsPerHand
       /\ hands' = [hands EXCEPT ![p] = Append(@, d.card)]
       /\ deck' = d.rest
  /\ UNCHANGED <<table, discardPile, tokenVars, turnVars, gone, fault>>

DealDone ==
  /\ Step("deal", "turn")
  /\ \A p \in Players : Len(hands[p]) = cardsPerHand
  /\ UNCHANGED <<cardVars, tokenVars, turnVars, gone, fault>>

(* displayHands prints DisplayedCards cards of every hand, however many    *)
(* there are.                                                              *)
DisplayOverruns == cardsPerHand < DisplayedCards

(* display(), the announcements and the first query of the turn.           *)
BeginTurn ==
  /\ Step("turn", "action")
  /\ fault' \in IF DisplayOverruns THEN {"bounds"} \cup (SendOutcomes(Players) \ {"none"})
                  ELSE SendOutcomes(Players)
  /\ UNCHANGED <<cardVars, tokenVars, turnVars, gone>>

(* requestQuery finds the connection of the current player closed, with no *)
(* answer left to read, and throws; start() tells everybody and returns.   *)
RetryRead ==
  /\ pc \in Prompts /\ curPlayer \in gone /\ Step(pc, pc)
  /\ UNCHANGED <<cardVars, tokenVars, turnVars, gone, fault>>

LoseCurrent ==
  /\ pc \in Prompts /\ curPlayer \in gone /\ Step(pc, "done")
  /\ fault' \in SendOutcomes(Players)
  /\ UNCHANGED <<cardVars, tokenVars, turnVars, gone>>

(* After a turn the index moves on; start() returns after the last turn it *)
(* plays and otherwise looks at the table and the fuse tokens.             *)
NextTurn ==
  /\ \/ turns = MaxTurns /\ Step("next", "done")
     \/ turns < MaxTurns /\ GameIsOver /\ Step("next", "over")
     \/ turns < MaxTurns /\ ~GameIsOver /\ Step("next", "turn")
  /\ curPlayer' = (curPlayer + 1) % NumPlayers
  /\ UNCHANGED <<cardVars, tokenVars, hintee, turns, gone, fault>>

(* "Game Over!" and the result.                                            *)
GameOver ==
  /\ Step("over", "done")
  /\ fault' \in SendOutcomes(Players)
  /\ UNCHANGED <<cardVars, tokenVars, turnVars, gone>>
-----------------------------------------------------------------------------
(***************************************************************************)
(* selectAction.                                                           *)
(***************************************************************************)
ChoosePlay ==
  /\ Answer("action", "play")
  /\ UNCHANGED <<cardVars, tokenVars, turnVars, gone, fault>>

ChooseDiscard ==
  /\ Answer("action", "discard")
  /\ UNCHANGED <<cardVars, tokenVars, turnVars, gone, fault>>

ChooseHint ==
  /\ Answer("action", IF numBlueTokens = 0 THEN "action" ELSE "hintee")
  /\ UNCHANGED <<cardVars, tokenVars, turnVars, gone, fault>>

(* -1 at any prompt behind the first: back to selectAction.                *)
GoBack ==
  /\ pc \in Prompts \ {"action"}
  /\ Answer(pc, "action")
  /\ UNCHANGED <<cardVars, tokenVars, turnVars, gone, fault>>
-----------------------------------------------------------------------------
(***************************************************************************)
(* playCard and discardCard.                                               *)
(***************************************************************************)

(* A played card that is the next of its stack.                            *)
PlayRight ==
  /\ Answer("play", "next")
  /\ \E i \in DOMAIN hands[curPlayer] :
       LET card == hands[curPlayer][i]
       IN /\ card.colour # EMPTY /\ Fits(card)
          /\ table' = [table EXCEPT ![card.colour] = card.number]
          /\ Replace(i)
          /\ numBlueTokens' = numBlueTokens + Regained(card)
  /\ turns' = turns + 1
  /\ fault' \in SendOutcomes(Players)
  /\ UNCHANGED <<discardPile, numBlackFuseTokens, curPlayer, hintee, gone>>

(* A card that is not: a copy goes to the pile and the card stays in hand. *)
PlayWrong ==
  /\ Answer("play", "next")
  /\ \E i \in DOMAIN hands[curPlayer] :
       LET card == hands[curPlayer][i]
       IN /\ card.colour # EMPTY /\ ~Fits(card)
          /\ discardPile' = Append(discardPile, card)
  /\ numBlackFuseTokens' = numBlackFuseTokens - 1
  /\ turns' = turns + 1
  /\ fault' \in SendOutcomes(Players)
  /\ UNCHANGED <<deck, hands, table, numBlueTokens, curPlayer, hintee, gone>>

(* The card of an empty deck has a colour that no stack has.               *)
PlayEmpty ==
  /\ Answer("play", "done")
  /\ \E i \in DOMAIN hands[curPlayer] : hands[curPlayer][i].colour = EMPTY
  /\ fault' = "bounds"
  /\ UNCHANGED <<cardVars, tokenVars, turnVars, gone>>

Discard ==
  /\ Answer("discard", "next")
  /\ \E i \in DOMAIN hands[curPlayer] :
       /\ discardPile' = Append(discardPile, hands[curPlayer][i])
       /\ Replace(i)
  /\ numBlueTokens' = numBlueTokens + 1
  /\ turns' = turns + 1
  /\ fault' \in SendOutcomes(Players)
  /\ UNCHANGED <<table, numBlackFuseTokens, curPlayer, hintee, gone>>
-----------------------------------------------------------------------------
(***************************************************************************)
(* giveHint.                                                               *)
(***************************************************************************)

(* Another player, or oneself and the question is put again.               *)
AnyHintee ==
  /\ \E p \in Players : Answer("hintee", "hintType") /\ hintee' = p
  /\ UNCHANGED <<cardVars, tokenVars, curPlayer, turns, gone, fault>>

ChooseHintee ==
  /\ \E p \in Players :
       /\ Answer("hintee", IF p = curPlayer THEN "hintee" ELSE "hintType")
       /\ hintee' = IF p = curPlayer THEN hintee ELSE p
  /\ UNCHANGED <<cardVars, tokenVars, curPlayer, turns, gone, fault>>

ChooseHintType ==
  /\ \E what \in {"colour", "number"} : Answer("hintType", what)
  /\ UNCHANGED <<cardVars, tokenVars, turnVars, gone, fault>>

(* Nothing in the hintee's hand matches, or the number is 0: ask again.    *)
HintMisses ==
  /\ pc \in {"colour", "number"} /\ Answer(pc, pc)
  /\ \/ pc = "colour" /\ \E c \in Colours : \A i \in DOMAIN hands[hintee] : hands[hintee][i].colour # c
     \/ pc = "number"
  /\ UNCHANGED <<cardVars, tokenVars, turnVars, gone, fault>>

(* The hintee's hand becomes told, at the price of a blue token.           *)
GiveHint(told) ==
  /\ hands' = [hands EXCEPT ![hintee] = told]
  /\ numBlueTokens' = numBlueTokens - 1
  /\ turns' = turns + 1
  /\ fault' \in SendOutcomes(Players)
  /\ UNCHANGED <<deck, table, discardPile, numBlackFuseTokens, curPlayer, hintee, gone>>

HintColour ==
  /\ Answer("colour", "next")
  /\ \E c \in Colours :
       /\ \E i \in DOMAIN hands[hintee] : hands[hintee][i].colour = c
       /\ GiveHint([i \in DOMAIN hands[hintee] |->
            [hands[hintee][i] EXCEPT !.colourRevealed = @ \/ hands[hintee][i].colour = c]])

HintNumber ==
  /\ Answer("number", "next")
  /\ \E n \in 1 .. MaxNumber :
       /\ \E i \in DOMAIN hands[hintee] : hands[hintee][i].number = n
       /\ GiveHint([i \in DOMAIN hands[hintee] |->
            [hands[hintee][i] EXCEPT !.numberRevealed = @ \/ hands[hintee][i].number = n]])
-----------------------------------------------------------------------------
Leave(p) ==
  /\ fault = "none" /\ pc # "done"
  /\ p \in Leavers \ gone
  /\ gone' = gone \cup {p}
  /\ UNCHANGED <<pc, cardVars, tokenVars, turnVars, fault>>

ServerStep == Deal \/ DealDone \/ BeginTurn \/ LoseCurrent \/ NextTurn \/ GameOver

PlayerStep ==
  \/ ChoosePlay \/ ChooseDiscard \/ ChooseHint \/ GoBack
  \/ PlayRight \/ PlayWrong \/ PlayEmpty \/ Discard
  \/ ChooseHintee \/ ChooseHintType \/ HintMisses \/ HintColour \/ HintNumber
  \/ \E p \in Players : Leave(p)

Finished == (pc = "done" \/ fault # "none") /\ UNCHANGED vars

Next == ServerStep \/ PlayerStep \/ Finished

Spec == Init /\ [][Next]_vars

(* The game's thread goes on whenever it does not wait for an answer.      *)
FairSpec == Spec /\ WF_vars(ServerStep)
-----------------------------------------------------------------------------
(***************************************************************************)
(* Properties.                                                             *)
(***************************************************************************)

(* Every variable keeps its type.                                          *)
TypeOK ==
  /\ pc \in Prompts \cup {"deal", "turn", "next", "over", "done"}
  /\ deck \in [Kinds -> Nat]
  /\ hands \in [Players -> Seq(Cards)]
  /\ table \in [Colours -> 0..MaxNumber]
  /\ discardPile \in Seq(Cards)
  /\ numBlueTokens \in Int
  /\ numBlackFuseTokens \in Int
  /\ curPlayer \in Players /\ hintee \in Players
  /\ turns \in Nat
  /\ gone \subseteq Players
  /\ fault \in {"none", "terminate", "bounds"}

(* The assertion of displayHands: every hand has its cards when a turn     *)
(* begins, whatever was played, discarded or hinted before.                *)
HandsFull == pc # "deal" => \A p \in Players : Len(hands[p]) = cardsPerHand

(* Where the cards of kind k are.                                          *)
Here(k, card) == card.number = k.number /\ card.colour = k.colour

Held == {pi \in Players \X (1 .. cardsPerHand) : pi[2] \in DOMAIN hands[pi[1]]}
InHands(k) == {pi \in Held : Here(k, hands[pi[1]][pi[2]])}
InPile(k) == {i \in DOMAIN discardPile : Here(k, discardPile[i])}

Found(k) ==
  deck[k] + Cardinality(InPile(k)) + Cardinality(InHands(k))
  + (IF table[k.colour] >= k.number THEN 1 ELSE 0)

(* Copies of the same kind of card are told apart by numbers, here those   *)
(* above lo[k] and up to hi[k].                                            *)
Numbered(lo, hi) == UNION {{k} \X (lo[k] + 1 .. hi[k]) : k \in Kinds}

NoCopies == [k \in Kinds |-> 0]
AllCopies == [k \in Kinds |-> Copies[k.number]]
Surplus == Numbered(AllCopies, [k \in Kinds |-> Found(k)])

(* No card is ever lost, and the only cards that exist twice are the       *)
(* misplayed ones, which stay in hand and go to the pile: one for each     *)
(* fuse token used.                                                        *)
CardsAccounted ==
  /\ \A k \in Kinds : Found(k) >= Copies[k.number]
  /\ Cardinality(Surplus) = totalBlackFuseTokens - numBlackFuseTokens

(* No turn is played without a fuse token: the check after each turn       *)
(* catches the last one.                                                   *)
FusesLeft ==
  /\ pc \in Prompts \cup {"turn"} => numBlackFuseTokens > 0
  /\ numBlackFuseTokens >= 0

(* Blue tokens: the check at the start of giveHint covers the payment many *)
(* prompts later, and only a discard can lift them above the supply.       *)
TokenLedger ==
  /\ numBlueTokens >= 0
  /\ pc \in {"hintee", "hintType", "colour", "number"} => numBlueTokens > 0
  /\ numBlueTokens <= totalBlueTokens
       + Len(discardPile) - (totalBlackFuseTokens - numBlackFuseTokens)

(* One turn makes one move: wrong answers and changes of mind leave no     *)
(* trace.  (Said of the only turn, the one the code plays.)                *)
Stacked == {cn \in Colours \X (1 .. MaxNumber) : cn[2] <= table[cn[1]]}

Hinted ==
  \E p \in Players : \E i \in DOMAIN hands[p] :
    /\ hands[p][i].colour # EMPTY
    /\ hands[p][i].colourRevealed \/ hands[p][i].numberRevealed

MovesMade ==
  Cardinality(Stacked) + Len(discardPile) + (IF Hinted THEN 1 ELSE 0)

OneMovePerTurn == MaxTurns = 1 => MovesMade = turns

(* A game whose current player hangs up comes to an end.                   *)
LeaverEndsGame ==
  (pc \in Prompts /\ curPlayer \in gone) ~> (pc = "done" \/ fault # "none")

(* "An error occurred in the game loop! likely that someone left", "Ending *)
(* Game...": a player that leaves ends its game and not the server.        *)
ServerSurvives == fault # "terminate"

(* Every hand that is displayed holds the cards that are printed.          *)
DisplayInBounds == fault # "bounds"
-----------------------------------------------------------------------------
(* The card that an empty deck yields gets into a hand only when every     *)
(* real card has been drawn.                                               *)
HoldsEmpty ==
  \E p \in Players : \E i \in DOMAIN hands[p] : hands[p][i].colour = EMPTY

EmptyMeansDrawn == HoldsEmpty => \A k \in Kinds : deck[k] = 0

(* A game reads nothing out of bounds, in displayHands or on the table, if *)
(* hands are as long as what is printed of them and nobody holds a card    *)
(* of the empty deck; and nobody does until more turns are played than the *)
(* deck has cards left after the deal.  With 50 cards, at most three       *)
(* players and one turn it never comes to that.                            *)
InBoundsWhileDeckLasts ==
  /\ fault = "bounds" => DisplayOverruns \/ HoldsEmpty
  /\ HoldsEmpty =>
       NumPlayers * cardsPerHand + turns > Cardinality(Numbered(NoCopies, AllCopies))

(* The game as module Rules sees it.                                       *)
Phase ==
  CASE pc = "deal" -> "deal"
    [] pc = "next" -> "moved"
    [] pc \in {"over", "done"} -> "over"
    [] OTHER -> "think"

Abstract == INSTANCE Rules WITH
  phase <- Phase, player <- curPlayer, pile <- Len(discardPile),
  blue <- numBlueTokens, fuse <- numBlackFuseTokens

(* However long its dialogue, with wrong answers and changes of mind, a    *)
(* turn makes one move that the rules allow, and a hint that was begun in  *)
(* one place of the tree is given to another player's hand.                *)
ImplementsRules == Abstract!Spec
=============================================================================
