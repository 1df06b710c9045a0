------------------------------ MODULE GameProofs ------------------------------
(***************************************************************************)
(* Theorems about the game, for any number of players, any deck, any       *)
(* number of tokens and any number of turns.                               *)
(***************************************************************************)
EXTENDS Game, SequenceTheorems, TLAPS

(* A function on a sequence's places is a sequence of its length.          *)
LEMMA SamePlaces ==
  ASSUME NEW S, NEW s \in Seq(S), NEW t \in [DOMAIN s -> S]
  PROVE  t \in Seq(S) /\ Len(t) = Len(s)
<1>1. Len(s) \in Nat /\ DOMAIN s = 1 .. Len(s)
  BY LenProperties
<1>2. t \in [1 .. Len(s) -> S]
  BY <1>1
<1>3. t \in Seq(S)
  BY <1>1, <1>2, SeqDef
<1>4. QED
  BY <1>1, <1>2, <1>3, LenProperties

(* A drawn card is a card and leaves a deck.                               *)
LEMMA DrawsType ==
  ASSUME TypeOK, NEW d \in Draws
  PROVE  d.card \in Cards /\ d.rest \in [Kinds -> Nat]
<1>1. CASE \A k \in Kinds : deck[k] = 0
  <2>1. d = [card |-> EmptyCard, rest |-> deck]
    BY <1>1 DEF Draws
  <2>2. d.card = EmptyCard /\ d.rest = deck
    BY <2>1
  <2>3. EmptyCard \in Cards
    BY GameAssumption DEF EmptyCard, Cards
  <2>4. QED
    BY <2>2, <2>3 DEF TypeOK
<1>2. CASE ~ \A k \in Kinds : deck[k] = 0
  <2>1. PICK k \in Kinds : deck[k] > 0 /\ d = [card |-> Fresh(k), rest |-> [deck EXCEPT ![k] = @ - 1]]
    BY <1>2 DEF Draws
  <2>2. d.card = Fresh(k) /\ d.rest = [deck EXCEPT ![k] = @ - 1]
    BY <2>1
  <2>3. deck[k] - 1 \in Nat
    BY <2>1 DEF TypeOK
  <2>4. Fresh(k) \in Cards
    BY DEF Fresh, Cards, Kinds
  <2>5. QED
    BY <2>2, <2>3, <2>4 DEF TypeOK
<1>3. QED
  BY <1>1, <1>2

LEMMA OutcomesType == \A S : SendOutcomes(S) \subseteq {"none", "terminate", "bounds"}
BY DEF SendOutcomes

(* Putting a drawn card in a discarded one's place keeps types and length. *)
LEMMA ReplaceType ==
  ASSUME TypeOK, NEW i \in DOMAIN hands[curPlayer], Replace(i)
  PROVE  /\ hands' \in [Players -> Seq(Cards)] /\ deck' \in [Kinds -> Nat]
         /\ \A p \in Players : Len(hands'[p]) = Len(hands[p])
<1>1. PICK d \in Draws : hands' = [hands EXCEPT ![curPlayer][i] = d.card] /\ deck' = d.rest
  BY DEF Replace
<1>2. d.card \in Cards /\ d.rest \in [Kinds -> Nat]
  BY DrawsType
<1> DEFINE h == [hands[curPlayer] EXCEPT ![i] = d.card]
<1>3. hands' = [hands EXCEPT ![curPlayer] = h]
  BY <1>1
<1>4. hands[curPlayer] \in Seq(Cards)
  BY DEF TypeOK
<1>5. h \in Seq(Cards) /\ Len(h) = Len(hands[curPlayer])
  <2>1. h \in [DOMAIN hands[curPlayer] -> Cards]
    BY <1>2, <1>4, LenProperties
  <2>2. QED
    BY <1>4, <2>1, SamePlaces
<1>6. QED
  BY <1>1, <1>2, <1>3, <1>5 DEF TypeOK

(* Revealing cards keeps types and length.                                 *)
LEMMA HintColourType ==
  ASSUME TypeOK, HintColour
  PROVE  /\ hands' \in [Players -> Seq(Cards)]
         /\ \A p \in Players : Len(hands'[p]) = Len(hands[p])
         /\ numBlueTokens' = numBlueTokens - 1 /\ turns' = turns + 1
         /\ fault' \in SendOutcomes(Players)
         /\ UNCHANGED <<deck, table, discardPile, numBlackFuseTokens, curPlayer, hintee, gone>>
<1>1. PICK c \in Colours :
        GiveHint([i \in DOMAIN hands[hintee] |->
          [hands[hintee][i] EXCEPT !.colourRevealed = @ \/ hands[hintee][i].colour = c]])
  BY DEF HintColour
<1> DEFINE h == [i \in DOMAIN hands[hintee] |->
                   [hands[hintee][i] EXCEPT !.colourRevealed = @ \/ hands[hintee][i].colour = c]]
<1>2. hands' = [hands EXCEPT ![hintee] = h]
  BY <1>1 DEF GiveHint
<1>3. hands[hintee] \in Seq(Cards)
  BY DEF TypeOK
<1>4. h \in [DOMAIN hands[hintee] -> Cards]
  <2>1. SUFFICES ASSUME NEW i \in DOMAIN hands[hintee] PROVE h[i] \in Cards
    OBVIOUS
  <2>2. hands[hintee][i] \in Cards
    BY <1>3, LenProperties
  <2>3. QED
    BY <2>2 DEF Cards
<1>5. h \in Seq(Cards) /\ Len(h) = Len(hands[hintee])
  BY <1>3, <1>4, SamePlaces
<1>6. QED
  BY <1>1, <1>2, <1>5 DEF TypeOK, GiveHint

LEMMA HintNumberType ==
  ASSUME TypeOK, HintNumber
  PROVE  /\ hands' \in [Players -> Seq(Cards)]
         /\ \A p \in Players : Len(hands'[p]) = Len(hands[p])
         /\ numBlueTokens' = numBlueTokens - 1 /\ turns' = turns + 1
         /\ fault' \in SendOutcomes(Players)
         /\ UNCHANGED <<deck, table, discardPile, numBlackFuseTokens, curPlayer, hintee, gone>>
<1>1. PICK n \in 1 .. MaxNumber :
        GiveHint([i \in DOMAIN hands[hintee] |->
          [hands[hintee][i] EXCEPT !.numberRevealed = @ \/ hands[hintee][i].number = n]])
  BY DEF HintNumber
<1> DEFINE h == [i \in DOMAIN hands[hintee] |->
                   [hands[hintee][i] EXCEPT !.numberRevealed = @ \/ hands[hintee][i].number = n]]
<1>2. hands' = [hands EXCEPT ![hintee] = h]
  BY <1>1 DEF GiveHint
<1>3. hands[hintee] \in Seq(Cards)
  BY DEF TypeOK
<1>4. h \in [DOMAIN hands[hintee] -> Cards]
  <2>1. SUFFICES ASSUME NEW i \in DOMAIN hands[hintee] PROVE h[i] \in Cards
    OBVIOUS
  <2>2. hands[hintee][i] \in Cards
    BY <1>3, LenProperties
  <2>3. QED
    BY <2>2 DEF Cards
<1>5. h \in Seq(Cards) /\ Len(h) = Len(hands[hintee])
  BY <1>3, <1>4, SamePlaces
<1>6. QED
  BY <1>1, <1>2, <1>5 DEF TypeOK, GiveHint
-----------------------------------------------------------------------------
LEMMA TypeInit == Init => TypeOK
BY GameAssumption DEF Init, TypeOK, Kinds, Players, Prompts

LEMMA TypeStep == ASSUME TypeOK, [Next]_vars PROVE TypeOK'
<1> USE DEF TypeOK, Prompts, Step, Answer, cardVars, tokenVars, turnVars
<1>1. CASE Deal
  <2>1. PICK p \in Players, d \in Draws :
          hands' = [hands EXCEPT ![p] = Append(@, d.card)] /\ deck' = d.rest
    BY <1>1 DEF Deal
  <2>2. d.card \in Cards /\ d.rest \in [Kinds -> Nat]
    BY DrawsType
  <2>3. Append(hands[p], d.card) \in Seq(Cards)
    BY <2>2
  <2>4. QED
    BY <1>1, <2>1, <2>2, <2>3 DEF Deal
<1>2. CASE DealDone
  BY <1>2 DEF DealDone
<1>3. CASE BeginTurn
  BY <1>3, OutcomesType DEF BeginTurn
<1>4. CASE LoseCurrent
  BY <1>4, OutcomesType DEF LoseCurrent
<1>5. CASE NextTurn
  <2>1. (curPlayer + 1) % NumPlayers \in Players
    BY GameAssumption DEF Players
  <2>2. QED
    BY <1>5, <2>1 DEF NextTurn
<1>6. CASE GameOver
  BY <1>6, OutcomesType DEF GameOver
<1>7. CASE ChoosePlay \/ ChooseDiscard \/ ChooseHint
  BY <1>7 DEF ChoosePlay, ChooseDiscard, ChooseHint
<1>8. CASE GoBack
  BY <1>8 DEF GoBack
<1>9. CASE PlayRight
  <2>1. PICK i \in DOMAIN hands[curPlayer] :
          /\ hands[curPlayer][i].colour # EMPTY
          /\ table' = [table EXCEPT ![hands[curPlayer][i].colour] = hands[curPlayer][i].number]
          /\ Replace(i)
          /\ numBlueTokens' = numBlueTokens + Regained(hands[curPlayer][i])
    BY <1>9 DEF PlayRight
  <2>2. hands[curPlayer][i] \in Cards
    OBVIOUS
  <2>3. table' \in [Colours -> 0..MaxNumber]
    BY <2>1, <2>2 DEF Cards
  <2>4. numBlueTokens' \in Int
    BY <2>1 DEF Regained
  <2>5. hands' \in [Players -> Seq(Cards)] /\ deck' \in [Kinds -> Nat]
    BY <2>1, ReplaceType
  <2>6. QED
    BY <1>9, <2>3, <2>4, <2>5, OutcomesType DEF PlayRight
<1>10. CASE PlayWrong
  <2>1. discardPile' \in Seq(Cards)
    BY <1>10 DEF PlayWrong
  <2>2. QED
    BY <1>10, <2>1, OutcomesType DEF PlayWrong
<1>11. CASE PlayEmpty
  BY <1>11 DEF PlayEmpty
<1>12. CASE Discard
  <2>1. PICK i \in DOMAIN hands[curPlayer] :
          discardPile' = Append(discardPile, hands[curPlayer][i]) /\ Replace(i)
    BY <1>12 DEF Discard
  <2>2. hands' \in [Players -> Seq(Cards)] /\ deck' \in [Kinds -> Nat]
    BY <2>1, ReplaceType
  <2>3. discardPile' \in Seq(Cards)
    BY <2>1
  <2>4. QED
    BY <1>12, <2>2, <2>3, OutcomesType DEF Discard
<1>13. CASE ChooseHintee \/ ChooseHintType
  BY <1>13 DEF ChooseHintee, ChooseHintType
<1>14. CASE HintMisses
  <2>1. pc' = pc
    BY <1>14 DEF HintMisses
  <2>2. QED
    BY <1>14, <2>1 DEF HintMisses
<1>15. CASE HintColour
  <2>1. pc' = "next"
    BY <1>15 DEF HintColour
  <2>2. QED
    BY <1>15, <2>1, HintColourType, OutcomesType
<1>16. CASE HintNumber
  <2>1. pc' = "next"
    BY <1>16 DEF HintNumber
  <2>2. QED
    BY <1>16, <2>1, HintNumberType, OutcomesType
<1>17. ASSUME NEW p \in Players, Leave(p) PROVE TypeOK'
  BY <1>17 DEF Leave
<1>18. CASE UNCHANGED vars
  BY <1>18 DEF vars
<1>19. QED
  BY <1>1, <1>2, <1>3, <1>4, <1>5, <1>6, <1>7, <1>8, <1>9, <1>10, <1>11, <1>12,
     <1>13, <1>14, <1>15, <1>16, <1>17, <1>18
     DEF Next, ServerStep, PlayerStep, Finished

(* The game keeps its types: no deck count goes below zero, and every card *)
(* in a hand or on the pile is one the deck can yield.                     *)
THEOREM TypeCorrect == Spec => []TypeOK
BY TypeInit, TypeStep, PTL DEF Spec
-----------------------------------------------------------------------------
(***************************************************************************)
(* Full hands, fuse tokens and blue tokens.  FusesLeft says nothing of the *)
(* deal, which comes before the first turn; TokenLedger needs that every   *)
(* fuse token used has put a card on the pile, so that a completed stack   *)
(* never lifts the blue tokens above the discards.                         *)
(***************************************************************************)
FusesKept == FusesLeft /\ (pc = "deal" => numBlackFuseTokens > 0)

MisplaysOnPile == totalBlackFuseTokens - numBlackFuseTokens <= Len(discardPile)

GameInv == TypeOK /\ HandsFull /\ FusesKept /\ TokenLedger /\ MisplaysOnPile

LEMMA GameInvInit == Init => GameInv
<1> SUFFICES ASSUME Init PROVE GameInv
  OBVIOUS
<1>1. TypeOK
  BY TypeInit
<1>2. HandsFull
  BY DEF Init, HandsFull
<1>3. FusesKept
  BY GameAssumption DEF Init, FusesKept, FusesLeft, Prompts
<1>4. Len(discardPile) = 0
  BY DEF Init
<1>5. TokenLedger /\ MisplaysOnPile
  BY <1>4, GameAssumption DEF Init, TokenLedger, MisplaysOnPile
<1>6. QED
  BY <1>1, <1>2, <1>3, <1>5 DEF GameInv

(* What the moves and the dialogue leave alone.                            *)
LEMMA SameLengths ==
  ASSUME TypeOK, HandsFull, pc # "deal",
         \A p \in Players : Len(hands'[p]) = Len(hands[p])
  PROVE  HandsFull'
BY DEF HandsFull, cardsPerHand

(* A step that changes neither hands, pile nor tokens.                     *)
LEMMA QuietStep ==
  ASSUME GameInv, UNCHANGED <<hands, discardPile, numBlueTokens, numBlackFuseTokens>>,
         pc # "deal" \/ pc' = "deal",
         pc' = "deal" => pc = "deal",
         pc' \in Prompts \cup {"turn"} => numBlackFuseTokens > 0,
         pc' \in {"hintee", "hintType", "colour", "number"} => numBlueTokens > 0
  PROVE  HandsFull' /\ FusesKept' /\ TokenLedger' /\ MisplaysOnPile'
<1>1. HandsFull'
  BY DEF GameInv, HandsFull, cardsPerHand
<1>2. FusesKept'
  BY DEF GameInv, FusesKept, FusesLeft, Prompts
<1>3. TokenLedger' /\ MisplaysOnPile'
  BY DEF GameInv, TokenLedger, MisplaysOnPile
<1>4. QED
  BY <1>1, <1>2, <1>3

LEMMA GameInvStep == ASSUME GameInv, [Next]_vars PROVE GameInv'
<1>0. TypeOK /\ TypeOK'
  BY TypeStep DEF GameInv
<1> DEFINE Rest == HandsFull' /\ FusesKept' /\ TokenLedger' /\ MisplaysOnPile'
<1> SUFFICES Rest
  BY <1>0 DEF GameInv
<1>1. CASE Deal
  <2>1. HandsFull'
    BY <1>1 DEF Deal, Step, HandsFull
  <2>2. FusesKept' /\ TokenLedger' /\ MisplaysOnPile'
    BY <1>1 DEF GameInv, Deal, Step, tokenVars, FusesKept, FusesLeft, TokenLedger, MisplaysOnPile, Prompts
  <2>3. QED
    BY <2>1, <2>2
<1>2. CASE DealDone
  <2>1. HandsFull'
    BY <1>2 DEF DealDone, cardVars, HandsFull, cardsPerHand
  <2>2. FusesKept' /\ TokenLedger' /\ MisplaysOnPile'
    BY <1>2 DEF GameInv, DealDone, Step, cardVars, tokenVars, FusesKept, FusesLeft, TokenLedger, MisplaysOnPile, Prompts
  <2>3. QED
    BY <2>1, <2>2
<1>3. CASE BeginTurn
  BY <1>3, QuietStep DEF GameInv, BeginTurn, Step, cardVars, tokenVars, FusesKept, FusesLeft
<1>4. CASE LoseCurrent
  BY <1>4, QuietStep DEF LoseCurrent, Step, cardVars, tokenVars, Prompts
<1>5. CASE NextTurn
  <2>1. pc' = "turn" => numBlackFuseTokens > 0
    BY <1>5, <1>0 DEF GameInv, NextTurn, Step, GameIsOver, FusesKept, FusesLeft, TypeOK
  <2>2. pc = "next" /\ pc' \in {"done", "over", "turn"}
    BY <1>5 DEF NextTurn, Step
  <2>3. QED
    BY <1>5, <2>1, <2>2, QuietStep DEF NextTurn, cardVars, tokenVars, Prompts
<1>6. CASE GameOver
  BY <1>6, QuietStep DEF GameOver, Step, cardVars, tokenVars, Prompts
<1>7. CASE ChoosePlay \/ ChooseDiscard
  BY <1>7, QuietStep DEF GameInv, ChoosePlay, ChooseDiscard, Answer, Step, cardVars, tokenVars,
     Prompts, FusesKept, FusesLeft
<1>8. CASE ChooseHint
  <2>1. pc = "action" /\ pc' = (IF numBlueTokens = 0 THEN "action" ELSE "hintee")
    BY <1>8 DEF ChooseHint, Answer, Step
  <2>2. numBlackFuseTokens > 0 /\ (numBlueTokens # 0 => numBlueTokens > 0)
    BY <2>1, <1>0 DEF GameInv, FusesKept, FusesLeft, TokenLedger, Prompts, TypeOK
  <2>3. QED
    BY <1>8, <2>1, <2>2, QuietStep DEF ChooseHint, cardVars, tokenVars
<1>9. CASE GoBack
  BY <1>9, QuietStep DEF GameInv, GoBack, Answer, Step, cardVars, tokenVars, Prompts, FusesKept, FusesLeft
<1>10. CASE PlayRight
  <2>1. PICK i \in DOMAIN hands[curPlayer] :
          /\ Replace(i)
          /\ numBlueTokens' = numBlueTokens + Regained(hands[curPlayer][i])
    BY <1>10 DEF PlayRight
  <2>2. pc = "play" /\ pc' = "next" /\ UNCHANGED <<discardPile, numBlackFuseTokens>>
    BY <1>10 DEF PlayRight, Answer, Step
  <2>3. HandsFull'
    BY <2>1, <2>2, <1>0, ReplaceType, SameLengths DEF GameInv
  <2>4. FusesKept' /\ MisplaysOnPile'
    BY <2>2 DEF GameInv, FusesKept, FusesLeft, MisplaysOnPile, Prompts
  <2>5. numBlueTokens \in Int /\ numBlackFuseTokens \in Int /\ Len(discardPile) \in Nat
    BY <1>0 DEF TypeOK
  <2>6. \/ numBlueTokens' = numBlueTokens
        \/ numBlueTokens' = numBlueTokens + 1 /\ numBlueTokens < totalBlueTokens
    BY <2>1, <2>5 DEF Regained
  <2>7. TokenLedger'
    BY <2>2, <2>5, <2>6, GameAssumption DEF GameInv, TokenLedger, MisplaysOnPile
  <2>8. QED
    BY <2>3, <2>4, <2>7
<1>11. CASE PlayWrong
  <2>1. pc = "play" /\ pc' = "next" /\ numBlackFuseTokens' = numBlackFuseTokens - 1
        /\ UNCHANGED <<hands, numBlueTokens>>
    BY <1>11 DEF PlayWrong, Answer, Step
  <2>2. Len(discardPile') = Len(discardPile) + 1 /\ Len(discardPile) \in Nat
    BY <1>11, <1>0 DEF PlayWrong, TypeOK
  <2>3. HandsFull'
    BY <2>1, <1>0, SameLengths DEF GameInv
  <2>4. FusesKept'
    BY <2>1, <1>0 DEF GameInv, FusesKept, FusesLeft, Prompts, TypeOK
  <2>5. TokenLedger' /\ MisplaysOnPile'
    BY <1>0, <2>1, <2>2, GameAssumption DEF GameInv, TypeOK, TokenLedger, MisplaysOnPile
  <2>6. QED
    BY <2>3, <2>4, <2>5
<1>12. CASE PlayEmpty
  BY <1>12, QuietStep DEF PlayEmpty, Answer, Step, cardVars, tokenVars, Prompts
<1>13. CASE Discard
  <2>1. PICK i \in DOMAIN hands[curPlayer] :
          discardPile' = Append(discardPile, hands[curPlayer][i]) /\ Replace(i)
    BY <1>13 DEF Discard
  <2>2. pc = "discard" /\ pc' = "next" /\ numBlueTokens' = numBlueTokens + 1
        /\ UNCHANGED numBlackFuseTokens
    BY <1>13 DEF Discard, Answer, Step
  <2>3. Len(discardPile') = Len(discardPile) + 1 /\ Len(discardPile) \in Nat
    BY <2>1, <1>0 DEF TypeOK
  <2>4. HandsFull'
    BY <2>1, <2>2, <1>0, ReplaceType, SameLengths DEF GameInv
  <2>5. FusesKept'
    BY <2>2 DEF GameInv, FusesKept, FusesLeft, Prompts
  <2>6. numBlueTokens \in Int /\ numBlackFuseTokens \in Int
    BY <1>0 DEF TypeOK
  <2>7. TokenLedger' /\ MisplaysOnPile'
    BY <2>2, <2>3, <2>6, GameAssumption DEF GameInv, TokenLedger, MisplaysOnPile
  <2>8. QED
    BY <2>4, <2>5, <2>7
<1>14. CASE ChooseHintee \/ ChooseHintType
  <2>1. /\ pc \in {"hintee", "hintType"} /\ pc' \in {"hintee", "hintType", "colour", "number"}
        /\ UNCHANGED <<hands, discardPile, numBlueTokens, numBlackFuseTokens>>
    BY <1>14 DEF ChooseHintee, ChooseHintType, Answer, Step, cardVars, tokenVars
  <2>2. numBlackFuseTokens > 0 /\ numBlueTokens > 0
    BY <2>1 DEF GameInv, FusesKept, FusesLeft, TokenLedger, Prompts
  <2>3. QED
    BY <2>1, <2>2, QuietStep
<1>15. CASE HintMisses
  <2>1. /\ pc \in {"colour", "number"} /\ pc' = pc
        /\ UNCHANGED <<hands, discardPile, numBlueTokens, numBlackFuseTokens>>
    BY <1>15 DEF HintMisses, Answer, Step, cardVars, tokenVars
  <2>2. numBlackFuseTokens > 0 /\ numBlueTokens > 0
    BY <2>1 DEF GameInv, FusesKept, FusesLeft, TokenLedger, Prompts
  <2>3. QED
    BY <2>1, <2>2, QuietStep
<1>16. CASE HintColour \/ HintNumber
  <2>1. pc \in {"colour", "number"} /\ pc' = "next"
    BY <1>16 DEF HintColour, HintNumber, Answer, Step
  <2>2. /\ \A p \in Players : Len(hands'[p]) = Len(hands[p])
        /\ numBlueTokens' = numBlueTokens - 1
        /\ UNCHANGED <<discardPile, numBlackFuseTokens>>
    BY <1>16, <1>0, HintColourType, HintNumberType
  <2>3. HandsFull'
    BY <2>1, <2>2, <1>0, SameLengths DEF GameInv
  <2>4. FusesKept' /\ MisplaysOnPile'
    BY <2>1, <2>2 DEF GameInv, FusesKept, FusesLeft, MisplaysOnPile, Prompts
  <2>5. Len(discardPile) \in Nat
    BY <1>0 DEF TypeOK
  <2>6. TokenLedger'
    BY <1>0, <2>1, <2>2, <2>5, GameAssumption DEF GameInv, TypeOK, TokenLedger
  <2>7. QED
    BY <2>3, <2>4, <2>6
<1>17. ASSUME NEW p \in Players, Leave(p) PROVE Rest
  BY <1>17, QuietStep DEF GameInv, Leave, cardVars, tokenVars, FusesKept, FusesLeft, TokenLedger
<1>18. CASE UNCHANGED vars
  BY <1>18, QuietStep DEF GameInv, vars, cardVars, tokenVars, FusesKept, FusesLeft, TokenLedger
<1>19. QED
  BY <1>1, <1>2, <1>3, <1>4, <1>5, <1>6, <1>7, <1>8, <1>9, <1>10, <1>11, <1>12,
     <1>13, <1>14, <1>15, <1>16, <1>17, <1>18
     DEF Next, ServerStep, PlayerStep, Finished

LEMMA GameInvHolds == Spec => []GameInv
BY GameInvInit, GameInvStep, PTL DEF Spec

(* The assertion in displayHands never fails: moves and hints keep every   *)
(* hand as long as the deal made it.                                       *)
THEOREM HandsStayFull == Spec => []HandsFull
<1>1. GameInv => HandsFull
  BY DEF GameInv
<1>2. QED
  BY <1>1, GameInvHolds, PTL

(* start() never begins or goes on with a turn once the fuse is burnt, and *)
(* the fuse tokens never go below zero.                                    *)
THEOREM FuseCheckCatches == Spec => []FusesLeft
<1>1. GameInv => FusesLeft
  BY DEF GameInv, FusesKept
<1>2. QED
  BY <1>1, GameInvHolds, PTL

(* A hint is never given on credit, and the blue tokens exceed their       *)
(* supply by no more than the cards that were discarded on purpose.        *)
THEOREM TokensBalance == Spec => []TokenLedger
<1>1. GameInv => TokenLedger
  BY DEF GameInv
<1>2. QED
  BY <1>1, GameInvHolds, PTL
=============================================================================
