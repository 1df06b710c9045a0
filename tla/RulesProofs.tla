----------------------------- MODULE RulesProofs -----------------------------
(***************************************************************************)
(* The game of module Game, with its dialogue, implements the game of      *)
(* module Rules: every step is a move, a pass, a stop or a stutter of it.  *)
(* What it adds to the rules, the empty deck's card, comes last.           *)
(***************************************************************************)
EXTENDS GameProofs

(* A hint that is being put together is for somebody else.                 *)
HinteeIsOther == pc \in {"hintType", "colour", "number"} => hintee # curPlayer

LEMMA HinteeInit == Init => HinteeIsOther
BY DEF Init, HinteeIsOther

LEMMA HinteeStep == HinteeIsOther /\ [Next]_vars => HinteeIsOther'
<1> SUFFICES ASSUME HinteeIsOther, [Next]_vars PROVE HinteeIsOther'
  OBVIOUS
<1> USE DEF HinteeIsOther, Step, Answer, turnVars
<1>1. CASE ServerStep
  BY <1>1 DEF ServerStep, Deal, DealDone, BeginTurn, LoseCurrent, NextTurn, GameOver
<1>2. CASE ChoosePlay \/ ChooseDiscard \/ ChooseHint \/ GoBack
  BY <1>2 DEF ChoosePlay, ChooseDiscard, ChooseHint, GoBack
<1>3. CASE PlayRight \/ PlayWrong \/ PlayEmpty \/ Discard
  BY <1>3 DEF PlayRight, PlayWrong, PlayEmpty, Discard
<1>4. CASE ChooseHintee
  BY <1>4 DEF ChooseHintee
<1>5. CASE ChooseHintType \/ HintMisses
  BY <1>5 DEF ChooseHintType, HintMisses
<1>6. CASE HintColour \/ HintNumber
  BY <1>6 DEF HintColour, HintNumber
<1>7. ASSUME NEW p \in Players, Leave(p) PROVE HinteeIsOther'
  BY <1>7 DEF Leave
<1>8. CASE UNCHANGED vars
  BY <1>8 DEF vars
<1>9. QED
  BY <1>1, <1>2, <1>3, <1>4, <1>5, <1>6, <1>7, <1>8 DEF Next, PlayerStep, Finished

RulesInv == GameInv /\ HinteeIsOther

LEMMA RulesInvHolds == Spec => []RulesInv
<1>1. Spec => []HinteeIsOther
  BY HinteeInit, HinteeStep, PTL DEF Spec
<1>2. QED
  BY <1>1, GameInvHolds, PTL DEF RulesInv
-----------------------------------------------------------------------------
(* Which phase a place of start() is in.                                   *)
LEMMA PhaseOf ==
  /\ pc = "deal" => Phase = "deal"
  /\ pc = "next" => Phase = "moved"
  /\ pc \in {"over", "done"} => Phase = "over"
  /\ pc \in Prompts \cup {"turn"} => Phase = "think"
BY DEF Phase, Prompts

LEMMA PhaseOfNext ==
  /\ pc' = "deal" => Phase' = "deal"
  /\ pc' = "next" => Phase' = "moved"
  /\ pc' \in {"over", "done"} => Phase' = "over"
  /\ pc' \in Prompts \cup {"turn"} => Phase' = "think"
BY DEF Phase, Prompts

LEMMA InitialRules == Init => Abstract!Init
BY PhaseOf DEF Init, Abstract!Init, Players, Abstract!Players

(* A dialogue's step is invisible.                                         *)
LEMMA DialogueStutters ==
  ASSUME pc \in Prompts \cup {"turn"}, pc' \in Prompts \cup {"turn"},
         UNCHANGED <<cardVars, tokenVars, curPlayer>>
  PROVE  UNCHANGED Abstract!vars
BY PhaseOf, PhaseOfNext DEF Abstract!vars, cardVars, tokenVars

(* The end of a game shows no other change.                                *)
LEMMA EndIsStop ==
  ASSUME pc' \in {"over", "done"}, UNCHANGED <<cardVars, tokenVars>>
  PROVE  Abstract!Stop
BY PhaseOfNext DEF Abstract!Stop, cardVars, tokenVars

(* A move touches the hand of q only.                                      *)
LEMMA MoveOn ==
  ASSUME NEW q \in Players, NEW h, TypeOK,
         pc \in Prompts, pc' = "next", curPlayer' = curPlayer,
         hands' = [hands EXCEPT ![q] = h]
  PROVE  Abstract!Move(q)
<1>1. Phase = "think" /\ Phase' = "moved"
  BY PhaseOf, PhaseOfNext
<1>2. \A p \in Players \ {q} : hands'[p] = hands[p]
  BY DEF TypeOK
<1>3. QED
  BY <1>1, <1>2 DEF Abstract!Move, Abstract!Players, Players

(* A card that gives way to a drawn one changes its player's hand.         *)
LEMMA ReplaceMoves ==
  ASSUME NEW i, Replace(i)
  PROVE  \E h : hands' = [hands EXCEPT ![curPlayer] = h]
<1>1. PICK d \in Draws : hands' = [hands EXCEPT ![curPlayer][i] = d.card]
  BY DEF Replace
<1>2. hands' = [hands EXCEPT ![curPlayer] = [hands[curPlayer] EXCEPT ![i] = d.card]]
  BY <1>1
<1>3. QED
  BY <1>2
-----------------------------------------------------------------------------
LEMMA PlayIsPlay == RulesInv /\ PlayRight => Abstract!Play
<1> SUFFICES ASSUME RulesInv, PlayRight PROVE Abstract!Play
  OBVIOUS
<1>1. /\ pc = "play" /\ pc' = "next"
      /\ UNCHANGED <<discardPile, numBlackFuseTokens, curPlayer>>
  BY DEF PlayRight, Answer, Step
<1>2. PICK i \in DOMAIN hands[curPlayer] :
        /\ hands[curPlayer][i].colour # EMPTY /\ Fits(hands[curPlayer][i])
        /\ table' = [table EXCEPT ![hands[curPlayer][i].colour] = hands[curPlayer][i].number]
        /\ Replace(i)
        /\ numBlueTokens' = numBlueTokens + Regained(hands[curPlayer][i])
  BY DEF PlayRight
<1> DEFINE card == hands[curPlayer][i]
<1>3. curPlayer \in Players /\ card \in Cards /\ TypeOK
  BY LenProperties DEF RulesInv, GameInv, TypeOK
<1>4. Abstract!Move(curPlayer)
  BY <1>1, <1>2, <1>3, ReplaceMoves, MoveOn DEF Prompts
<1>5. /\ card.colour \in Colours /\ card.number \in 0 .. MaxNumber
      /\ table[card.colour] + 1 = card.number /\ table[card.colour] \in 0 .. MaxNumber
  BY <1>2, <1>3 DEF Cards, Fits, TypeOK
<1>6. /\ table[card.colour] < MaxNumber
      /\ table' = [table EXCEPT ![card.colour] = table[card.colour] + 1]
  <2>1. card.number = table[card.colour] + 1 /\ MaxNumber \in Nat
    BY <1>5, GameAssumption
  <2>2. table' = [table EXCEPT ![card.colour] = table[card.colour] + 1]
    BY <1>2, <2>1
  <2>3. table[card.colour] < MaxNumber
    <3> DEFINE t == table[card.colour]
               n == card.number
    <3>1. n = t + 1 /\ t \in 0 .. MaxNumber /\ n \in 0 .. MaxNumber
      BY <1>5, <2>1
    <3> HIDE DEF t, n
    <3>2. t < MaxNumber
      BY <2>1, <3>1
    <3>3. QED
      BY <3>2 DEF t
  <2>4. QED
    BY <2>2, <2>3
<1>7. numBlueTokens' = IF table[card.colour] + 1 = MaxNumber /\ numBlueTokens < totalBlueTokens
                         THEN numBlueTokens + 1 ELSE numBlueTokens
  BY <1>2, <1>3, <1>5 DEF Regained, TypeOK
<1>8. QED
  BY <1>1, <1>4, <1>5, <1>6, <1>7 DEF Abstract!Play

LEMMA MisplayIsMisplay == RulesInv /\ PlayWrong => Abstract!Misplay
<1> SUFFICES ASSUME RulesInv, PlayWrong PROVE Abstract!Misplay
  OBVIOUS
<1>1. /\ pc = "play" /\ pc' = "next"
      /\ UNCHANGED <<hands, table, numBlueTokens, curPlayer>>
      /\ numBlackFuseTokens' = numBlackFuseTokens - 1
  BY DEF PlayWrong, Answer, Step
<1>2. TypeOK /\ curPlayer \in Players /\ numBlackFuseTokens > 0
  BY <1>1 DEF RulesInv, GameInv, TypeOK, FusesKept, FusesLeft, Prompts
<1>3. Abstract!Move(curPlayer)
  BY <1>1, PhaseOf, PhaseOfNext DEF Abstract!Move, Prompts
<1>4. Len(discardPile') = Len(discardPile) + 1
  <2>1. PICK i \in DOMAIN hands[curPlayer] :
          discardPile' = Append(discardPile, hands[curPlayer][i])
    BY DEF PlayWrong
  <2>2. hands[curPlayer][i] \in Cards
    BY <1>2, LenProperties DEF TypeOK
  <2>3. QED
    BY <1>2, <2>1, <2>2 DEF TypeOK
<1>5. QED
  BY <1>1, <1>2, <1>3, <1>4 DEF Abstract!Misplay

LEMMA DiscardIsDiscard == RulesInv /\ Discard => Abstract!Discard
<1> SUFFICES ASSUME RulesInv, Discard PROVE Abstract!Discard
  OBVIOUS
<1>1. /\ pc = "discard" /\ pc' = "next"
      /\ UNCHANGED <<table, numBlackFuseTokens, curPlayer>>
      /\ numBlueTokens' = numBlueTokens + 1
  BY DEF Discard, Answer, Step
<1>2. PICK i \in DOMAIN hands[curPlayer] :
        discardPile' = Append(discardPile, hands[curPlayer][i]) /\ Replace(i)
  BY DEF Discard
<1>3. TypeOK /\ curPlayer \in Players /\ hands[curPlayer][i] \in Cards
  BY LenProperties DEF RulesInv, GameInv, TypeOK
<1>4. Abstract!Move(curPlayer)
  BY <1>1, <1>2, <1>3, ReplaceMoves, MoveOn DEF Prompts
<1>5. Len(discardPile') = Len(discardPile) + 1
  BY <1>2, <1>3 DEF TypeOK
<1>6. QED
  BY <1>1, <1>4, <1>5 DEF Abstract!Discard

(* A hint reveals and changes no card, in somebody else's hand.            *)
LEMMA HintIsHint ==
  ASSUME RulesInv, NEW told, GiveHint(told), pc \in {"colour", "number"}, pc' = "next",
         DOMAIN told = DOMAIN hands[hintee],
         \A i \in DOMAIN told : /\ told[i].number = hands[hintee][i].number
                                /\ told[i].colour = hands[hintee][i].colour
  PROVE  Abstract!Hint
<1>1. /\ hands' = [hands EXCEPT ![hintee] = told]
      /\ numBlueTokens' = numBlueTokens - 1
      /\ UNCHANGED <<table, discardPile, numBlackFuseTokens, curPlayer>>
  BY DEF GiveHint
<1>2. TypeOK /\ hintee \in Players \ {curPlayer} /\ numBlueTokens > 0
  BY DEF RulesInv, GameInv, TypeOK, HinteeIsOther, TokenLedger
<1>3. Abstract!Move(hintee)
  BY <1>1, <1>2, MoveOn DEF Prompts
<1>4. Abstract!SameCards(hands[hintee], hands'[hintee])
  BY <1>1, <1>2 DEF Abstract!SameCards, TypeOK
<1>5. QED
  BY <1>1, <1>2, <1>3, <1>4 DEF Abstract!Hint, Abstract!Players, Players
-----------------------------------------------------------------------------
LEMMA RulesStep == RulesInv /\ [Next]_vars => [Abstract!Next]_(Abstract!vars)
<1> SUFFICES ASSUME RulesInv, [Next]_vars PROVE [Abstract!Next]_(Abstract!vars)
  OBVIOUS
<1>0. TypeOK
  BY DEF RulesInv, GameInv
<1> USE DEF Step, Answer, Abstract!Next
<1>1. CASE Deal \/ DealDone
  BY <1>1, PhaseOf, PhaseOfNext
     DEF Deal, DealDone, Abstract!Deal, cardVars, tokenVars, turnVars, Prompts
<1>2. CASE BeginTurn
  BY <1>2, DialogueStutters DEF BeginTurn, Prompts, turnVars
<1>3. CASE LoseCurrent \/ GameOver \/ PlayEmpty
  BY <1>3, EndIsStop DEF LoseCurrent, GameOver, PlayEmpty
<1>4. CASE NextTurn
  <2>1. CASE pc' \in {"over", "done"}
    BY <1>4, <2>1, EndIsStop DEF NextTurn
  <2>2. CASE pc' = "turn" /\ ~GameIsOver
    <3>1. numBlackFuseTokens > 0
      BY <2>2, <1>0 DEF GameIsOver, RulesInv, GameInv, FusesKept, FusesLeft, TypeOK
    <3>2. \E c \in Colours : table[c] # MaxNumber
      BY <2>2 DEF GameIsOver, StacksComplete
    <3>3. QED
      BY <1>4, <2>2, <3>1, <3>2, PhaseOf, PhaseOfNext
         DEF NextTurn, Abstract!Pass, cardVars, tokenVars, Prompts
  <2>3. QED
    BY <1>4, <2>1, <2>2 DEF NextTurn
<1>5. CASE ChoosePlay \/ ChooseDiscard \/ ChooseHint \/ GoBack
  BY <1>5, DialogueStutters DEF ChoosePlay, ChooseDiscard, ChooseHint, GoBack, Prompts, turnVars
<1>6. CASE PlayRight
  BY <1>6, PlayIsPlay
<1>7. CASE PlayWrong
  BY <1>7, MisplayIsMisplay
<1>8. CASE Discard
  BY <1>8, DiscardIsDiscard
<1>9. CASE ChooseHintee \/ ChooseHintType \/ HintMisses
  BY <1>9, DialogueStutters DEF ChooseHintee, ChooseHintType, HintMisses, Prompts, turnVars
<1>10. CASE HintColour
  <2>1. PICK c \in Colours :
          GiveHint([i \in DOMAIN hands[hintee] |->
            [hands[hintee][i] EXCEPT !.colourRevealed = @ \/ hands[hintee][i].colour = c]])
    BY <1>10 DEF HintColour
  <2>2. \A i \in DOMAIN hands[hintee] : hands[hintee][i] \in Cards
    BY <1>0, LenProperties DEF TypeOK
  <2>3. QED
    BY <1>10, <2>1, <2>2, HintIsHint DEF HintColour, Cards
<1>11. CASE HintNumber
  <2>1. PICK n \in 1 .. MaxNumber :
          GiveHint([i \in DOMAIN hands[hintee] |->
            [hands[hintee][i] EXCEPT !.numberRevealed = @ \/ hands[hintee][i].number = n]])
    BY <1>11 DEF HintNumber
  <2>2. \A i \in DOMAIN hands[hintee] : hands[hintee][i] \in Cards
    BY <1>0, LenProperties DEF TypeOK
  <2>3. QED
    BY <1>11, <2>1, <2>2, HintIsHint DEF HintNumber, Cards
<1>12. ASSUME NEW p \in Players, Leave(p) PROVE UNCHANGED Abstract!vars
  BY <1>12 DEF Leave, Abstract!vars, Phase, cardVars, tokenVars, turnVars
<1>13. CASE UNCHANGED vars
  BY <1>13 DEF vars, Abstract!vars, Phase, cardVars, tokenVars, turnVars
<1>14. QED
  BY <1>1, <1>2, <1>3, <1>4, <1>5, <1>6, <1>7, <1>8, <1>9, <1>10, <1>11, <1>12, <1>13
     DEF Next, ServerStep, PlayerStep, Finished

(* Whatever is answered at the prompts, in a game of any size, a turn is   *)
(* one move that the rules allow: ImplementsRules.                         *)
THEOREM GameImplementsRules == Spec => ImplementsRules
<1>1. Spec => Abstract!Init /\ [][Abstract!Next]_(Abstract!vars)
  BY InitialRules, RulesStep, RulesInvHolds, PTL DEF Spec
<1>2. QED
  BY <1>1 DEF ImplementsRules, Abstract!Spec
-----------------------------------------------------------------------------
(* The card without a colour is drawn from an empty deck only, which stays *)
(* as it is.                                                               *)
DeckEmpty == \A k \in Kinds : deck[k] = 0

LEMMA DrawsWhileAny ==
  ASSUME NEW d \in Draws
  PROVE  /\ d.card.colour = EMPTY => DeckEmpty
         /\ DeckEmpty => d.rest = deck
<1>1. CASE DeckEmpty
  <2>1. d = [card |-> EmptyCard, rest |-> deck]
    BY <1>1 DEF Draws, DeckEmpty
  <2>2. QED
    BY <1>1, <2>1
<1>2. CASE ~DeckEmpty
  <2>1. PICK k \in Kinds : d = [card |-> Fresh(k), rest |-> [deck EXCEPT ![k] = @ - 1]]
    BY <1>2 DEF Draws, DeckEmpty
  <2>2. d.card.colour = k.colour /\ k.colour \in Colours
    BY <2>1 DEF Fresh, Kinds
  <2>3. QED
    BY <1>2, <2>2, GameAssumption
<1>3. QED
  BY <1>1, <1>2

(* Steps that add no card without a colour while the deck has cards.       *)
LEMMA EmptyKept ==
  ASSUME EmptyMeansDrawn, DeckEmpty => deck' = deck,
         \A p \in Players : \A i \in DOMAIN hands'[p] :
           hands'[p][i].colour = EMPTY =>
             DeckEmpty \/ (i \in DOMAIN hands[p] /\ hands[p][i].colour = EMPTY)
  PROVE  EmptyMeansDrawn'
BY DEF EmptyMeansDrawn, HoldsEmpty, DeckEmpty

LEMMA ReplaceKept ==
  ASSUME TypeOK, EmptyMeansDrawn, NEW i \in DOMAIN hands[curPlayer], Replace(i)
  PROVE  EmptyMeansDrawn'
<1>1. PICK d \in Draws : hands' = [hands EXCEPT ![curPlayer][i] = d.card] /\ deck' = d.rest
  BY DEF Replace
<1>2. /\ d.card.colour = EMPTY => DeckEmpty
      /\ DeckEmpty => deck' = deck
  BY <1>1, DrawsWhileAny
<1>3. ASSUME NEW p \in Players, NEW j \in DOMAIN hands'[p]
      PROVE  /\ j \in DOMAIN hands[p]
             /\ hands'[p][j] = hands[p][j] \/ hands'[p][j] = d.card
  BY <1>1 DEF TypeOK
<1>4. QED
  BY <1>2, <1>3, EmptyKept

LEMMA HintKept ==
  ASSUME TypeOK, EmptyMeansDrawn, NEW told, GiveHint(told), hintee \in Players,
         DOMAIN told = DOMAIN hands[hintee],
         \A i \in DOMAIN told : told[i].colour = hands[hintee][i].colour
  PROVE  EmptyMeansDrawn'
<1>1. hands' = [hands EXCEPT ![hintee] = told] /\ deck' = deck
  BY DEF GiveHint
<1>2. \A p \in Players : \A i \in DOMAIN hands'[p] :
        i \in DOMAIN hands[p] /\ hands'[p][i].colour = hands[p][i].colour
  BY <1>1 DEF TypeOK
<1>3. QED
  BY <1>1, <1>2, EmptyKept

LEMMA EmptyStep == TypeOK /\ EmptyMeansDrawn /\ [Next]_vars => EmptyMeansDrawn'
<1> SUFFICES ASSUME TypeOK, EmptyMeansDrawn, [Next]_vars PROVE EmptyMeansDrawn'
  OBVIOUS
<1>1. CASE UNCHANGED <<hands, deck>>
  BY <1>1, EmptyKept
<1>2. CASE Deal
  <2>1. PICK p \in Players, d \in Draws :
          hands' = [hands EXCEPT ![p] = Append(@, d.card)] /\ deck' = d.rest
    BY <1>2 DEF Deal
  <2>2. /\ d.card.colour = EMPTY => DeckEmpty
        /\ DeckEmpty => deck' = deck
    BY <2>1, DrawsWhileAny
  <2>3. ASSUME NEW q \in Players, NEW i \in DOMAIN hands'[q]
        PROVE  hands'[q][i] = d.card \/ (i \in DOMAIN hands[q] /\ hands'[q][i] = hands[q][i])
    <3>1. CASE q # p
      BY <2>1, <3>1 DEF TypeOK
    <3>2. CASE q = p
      <4>1. hands[p] \in Seq(Cards) /\ hands'[p] = Append(hands[p], d.card)
        BY <2>1 DEF TypeOK
      <4>2. /\ DOMAIN hands[p] = 1 .. Len(hands[p]) /\ Len(hands[p]) \in Nat
            /\ DOMAIN hands'[p] = 1 .. Len(hands[p]) + 1
            /\ \A j \in 1 .. Len(hands[p]) : hands'[p][j] = hands[p][j]
            /\ hands'[p][Len(hands[p]) + 1] = d.card
        BY <2>1, <4>1, DrawsType DEF TypeOK
      <4>3. QED
        BY <3>2, <4>2
    <3>3. QED
      BY <3>1, <3>2
  <2>4. QED
    BY <2>2, <2>3, EmptyKept
<1>3. CASE PlayRight \/ Discard
  <2>1. PICK i \in DOMAIN hands[curPlayer] : Replace(i)
    BY <1>3 DEF PlayRight, Discard
  <2>2. QED
    BY <2>1, ReplaceKept
<1>4. CASE HintColour \/ HintNumber
  <2>1. PICK told : /\ GiveHint(told) /\ DOMAIN told = DOMAIN hands[hintee]
                    /\ \A i \in DOMAIN told : told[i].colour = hands[hintee][i].colour
    <3>1. hintee \in Players /\ \A i \in DOMAIN hands[hintee] : hands[hintee][i] \in Cards
      BY LenProperties DEF TypeOK
    <3>2. CASE HintColour
      BY <3>1, <3>2 DEF HintColour, Cards
    <3>3. CASE HintNumber
      BY <3>1, <3>3 DEF HintNumber, Cards
    <3>4. QED
      BY <1>4, <3>2, <3>3
  <2>2. QED
    BY <2>1, HintKept DEF TypeOK
<1>5. QED
  <2> USE DEF cardVars
  <2>1. ASSUME DealDone \/ BeginTurn \/ LoseCurrent \/ NextTurn \/ GameOver
        PROVE  UNCHANGED <<hands, deck>>
    BY <2>1 DEF DealDone, BeginTurn, LoseCurrent, NextTurn, GameOver
  <2>2. ASSUME \/ ChoosePlay \/ ChooseDiscard \/ ChooseHint \/ GoBack \/ PlayWrong \/ PlayEmpty
               \/ ChooseHintee \/ ChooseHintType \/ HintMisses
        PROVE  UNCHANGED <<hands, deck>>
    BY <2>2 DEF ChoosePlay, ChooseDiscard, ChooseHint, GoBack, PlayWrong, PlayEmpty,
                ChooseHintee, ChooseHintType, HintMisses
  <2>3. ASSUME (\E p \in Players : Leave(p)) \/ Finished \/ UNCHANGED vars
        PROVE  UNCHANGED <<hands, deck>>
    BY <2>3 DEF Leave, Finished, vars
  <2>4. QED
    BY <1>1, <1>2, <1>3, <1>4, <2>1, <2>2, <2>3 DEF Next, ServerStep, PlayerStep

(* A card without a colour is in no hand while the deck has cards, so that *)
(* only a game that outlasts its deck can play one.                        *)
THEOREM EmptyCardsComeLast == Spec => []EmptyMeansDrawn
<1>1. Init => EmptyMeansDrawn
  BY DEF Init, EmptyMeansDrawn, HoldsEmpty
<1>2. QED
  BY <1>1, TypeInit, TypeStep, EmptyStep, PTL DEF Spec
=============================================================================
