----------------------------- MODULE CardsProofs -----------------------------
(***************************************************************************)
(* Where the cards of a game are, for any deck, any number of players and  *)
(* any number of turns: none is lost, copies are misplays, nobody holds a  *)
(* card of the empty deck early, and a turn is one move.                   *)
(***************************************************************************)
EXTENDS RulesProofs, FiniteSetTheorems

(* Counting a set that changes in one place.                               *)
LEMMA OnePlaceCount ==
  ASSUME NEW S, NEW T, NEW x, IsFiniteSet(S), S \ {x} = T \ {x}
  PROVE  /\ IsFiniteSet(T)
         /\ Cardinality(S) \in Nat /\ Cardinality(T) \in Nat
         /\ Cardinality(T) + (IF x \in S THEN 1 ELSE 0)
              = Cardinality(S) + (IF x \in T THEN 1 ELSE 0)
<1>1. IsFiniteSet(S \cup {x}) /\ T \in SUBSET (S \cup {x})
  BY FS_AddElement
<1>2. IsFiniteSet(T)
  BY <1>1, FS_Subset
<1>3. Cardinality(S) \in Nat /\ Cardinality(T) \in Nat
  BY <1>2, FS_CardinalityType
<1>4. /\ Cardinality(S \ {x}) = IF x \in S THEN Cardinality(S) - 1 ELSE Cardinality(S)
      /\ Cardinality(T \ {x}) = IF x \in T THEN Cardinality(T) - 1 ELSE Cardinality(T)
  BY <1>2, FS_RemoveElement
<1>5. QED
  BY <1>2, <1>3, <1>4

(* Numbered copies, one by one.                                            *)
LEMMA NumberedElements ==
  ASSUME NEW lo, NEW hi
  PROVE  \A x : x \in Numbered(lo, hi) <=>
           \E k \in Kinds : \E n \in lo[k] + 1 .. hi[k] : x = <<k, n>>
BY DEF Numbered

LEMMA NumberedAdds ==
  ASSUME NEW lo \in [Kinds -> Nat], NEW hi \in [Kinds -> Nat], NEW g \in [Kinds -> Nat],
         NEW k \in Kinds, hi[k] >= lo[k], g[k] = hi[k] + 1,
         \A j \in Kinds \ {k} : g[j] = hi[j],
         IsFiniteSet(Numbered(lo, hi))
  PROVE  /\ IsFiniteSet(Numbered(lo, g))
         /\ Cardinality(Numbered(lo, hi)) \in Nat
         /\ Cardinality(Numbered(lo, g)) = Cardinality(Numbered(lo, hi)) + 1
<1> DEFINE new == <<k, g[k]>>
<1>1. \A n \in Nat : n \in lo[k] + 1 .. g[k] <=> n \in lo[k] + 1 .. hi[k] \/ n = g[k]
  OBVIOUS
<1>2. g[k] \notin lo[k] + 1 .. hi[k]
  OBVIOUS
<1>3. \A j \in Kinds, n \in Nat : <<j, n>> \in Numbered(lo, hi) <=> n \in lo[j] + 1 .. hi[j]
  BY NumberedElements
<1>4. \A j \in Kinds, n \in Nat : <<j, n>> \in Numbered(lo, g) <=> n \in lo[j] + 1 .. g[j]
  BY NumberedElements
<1>5. /\ \A x \in Numbered(lo, hi) : \E j \in Kinds, n \in Nat : x = <<j, n>>
      /\ \A x \in Numbered(lo, g) : \E j \in Kinds, n \in Nat : x = <<j, n>>
  BY NumberedElements
<1>6. new \in Numbered(lo, g) /\ new \notin Numbered(lo, hi)
  BY <1>1, <1>2, <1>3, <1>4
<1>7. Numbered(lo, hi) \ {new} = Numbered(lo, g) \ {new}
  <2>1. \A j \in Kinds, n \in Nat : <<j, n>> # new =>
          (<<j, n>> \in Numbered(lo, hi) <=> <<j, n>> \in Numbered(lo, g))
    BY <1>1, <1>3, <1>4
  <2>2. QED
    BY <1>5, <2>1
<1>8. QED
  BY <1>6, <1>7, OnePlaceCount

(* The image of a finite set is finite.                                    *)
LEMMA FiniteImage ==
  ASSUME NEW S, NEW T, IsFiniteSet(S), NEW f \in [S -> T], \A t \in T : \E s \in S : f[s] = t
  PROVE  IsFiniteSet(T)
<1>1. f \in Surjection(S, T)
  BY DEF Surjection
<1>2. QED
  BY <1>1, FS_Surjection

LEMMA KindsFinite == IsFiniteSet(Kinds)
<1> DEFINE S == (1 .. MaxNumber) \X Colours
           f == [p \in S |-> [number |-> p[1], colour |-> p[2]]]
<1>1. IsFiniteSet(S)
  <2>1. IsFiniteSet(1 .. MaxNumber) /\ IsFiniteSet(Colours)
    BY FS_Interval, GameAssumption
  <2>2. QED
    BY <2>1, FS_Product
<1>2. f \in [S -> Kinds]
  BY DEF Kinds
<1>3. ASSUME NEW k \in Kinds PROVE \E p \in S : f[p] = k
  <2>1. <<k.number, k.colour>> \in S
    BY DEF Kinds
  <2>2. f[<<k.number, k.colour>>] = k
    BY <2>1 DEF Kinds
  <2>3. QED
    BY <2>1, <2>2
<1> HIDE DEF f, S
<1>4. QED
  BY <1>1, <1>2, <1>3, FiniteImage

LEMMA NumberedFinite ==
  ASSUME NEW lo \in [Kinds -> Nat], NEW hi \in [Kinds -> Nat]
  PROVE  IsFiniteSet(Numbered(lo, hi))
<1> DEFINE rows == {{k} \X (lo[k] + 1 .. hi[k]) : k \in Kinds}
           row == [k \in Kinds |-> {k} \X (lo[k] + 1 .. hi[k])]
<1>1. IsFiniteSet(rows)
  <2>1. row \in [Kinds -> rows]
    OBVIOUS
  <2>2. ASSUME NEW r \in rows PROVE \E k \in Kinds : row[k] = r
    <3>1. PICK k \in Kinds : r = {k} \X (lo[k] + 1 .. hi[k])
      OBVIOUS
    <3>2. QED
      BY <3>1
  <2> HIDE DEF row, rows
  <2>3. QED
    BY <2>1, <2>2, KindsFinite, FiniteImage
<1>2. ASSUME NEW r \in rows PROVE IsFiniteSet(r)
  <2>1. PICK k \in Kinds : r = {k} \X (lo[k] + 1 .. hi[k])
    OBVIOUS
  <2>2. IsFiniteSet({k})
    BY FS_Singleton
  <2>3. IsFiniteSet(lo[k] + 1 .. hi[k])
    <3>1. lo[k] + 1 \in Int /\ hi[k] \in Int
      OBVIOUS
    <3>2. QED
      BY <3>1, FS_Interval
  <2>4. QED
    BY <2>1, <2>2, <2>3, FS_Product
<1>3. IsFiniteSet(UNION rows)
  <2> HIDE DEF rows
  <2>1. QED
    BY <1>1, <1>2, FS_UNION
<1>4. QED
  BY <1>3 DEF Numbered
-----------------------------------------------------------------------------
(* The steps that touch a card, a fuse token or the count of turns.        *)
LEMMA StepKinds ==
  ASSUME [Next]_vars
  PROVE  \/ Deal \/ PlayRight \/ PlayWrong \/ Discard \/ HintColour \/ HintNumber
         \/ UNCHANGED <<cardVars, numBlackFuseTokens, turns>>
<1> USE DEF turnVars, tokenVars
<1>1. ASSUME DealDone \/ BeginTurn \/ LoseCurrent \/ NextTurn \/ GameOver
      PROVE  UNCHANGED <<cardVars, numBlackFuseTokens, turns>>
  BY <1>1 DEF DealDone, BeginTurn, LoseCurrent, NextTurn, GameOver
<1>2. ASSUME \/ ChoosePlay \/ ChooseDiscard \/ ChooseHint \/ GoBack \/ PlayEmpty
             \/ ChooseHintee \/ ChooseHintType \/ HintMisses
      PROVE  UNCHANGED <<cardVars, numBlackFuseTokens, turns>>
  BY <1>2 DEF ChoosePlay, ChooseDiscard, ChooseHint, GoBack, PlayEmpty,
              ChooseHintee, ChooseHintType, HintMisses
<1>3. ASSUME (\E p \in Players : Leave(p)) \/ Finished \/ UNCHANGED vars
      PROVE  UNCHANGED <<cardVars, numBlackFuseTokens, turns>>
  BY <1>3 DEF Leave, Finished, vars
<1>4. QED
  BY <1>1, <1>2, <1>3 DEF Next, ServerStep, PlayerStep

(* Place i of p's hand takes a card, and no other place changes.           *)
PlaceTakes(p, i, card) ==
  /\ i \in DOMAIN hands'[p] /\ hands'[p][i] = card
  /\ \A q \in Players, j \in 1 .. cardsPerHand :
       q # p \/ j # i => /\ j \in DOMAIN hands'[q] <=> j \in DOMAIN hands[q]
                         /\ j \in DOMAIN hands[q] => hands'[q][j] = hands[q][j]

LEMMA cardsPerHandType == cardsPerHand \in Nat
BY GameAssumption DEF cardsPerHand

LEMMA HeldFinite ==
  /\ IsFiniteSet(Held)
  /\ Cardinality(Held) \in Nat /\ Cardinality(Held) <= NumPlayers * cardsPerHand
<1>1. /\ IsFiniteSet(Players) /\ Cardinality(Players) = NumPlayers
      /\ IsFiniteSet(1 .. cardsPerHand) /\ Cardinality(1 .. cardsPerHand) = cardsPerHand
  <2>1. NumPlayers \in Int /\ NumPlayers > 0 /\ NumPlayers - 1 \in Int
    BY GameAssumption
  <2>2. IsFiniteSet(Players) /\ Cardinality(Players) = NumPlayers
    BY <2>1, FS_Interval DEF Players
  <2>3. IsFiniteSet(1 .. cardsPerHand) /\ Cardinality(1 .. cardsPerHand) = cardsPerHand
    BY FS_Interval, cardsPerHandType
  <2>4. QED
    BY <2>2, <2>3
<1>2. /\ IsFiniteSet(Players \X (1 .. cardsPerHand))
      /\ Cardinality(Players \X (1 .. cardsPerHand)) = NumPlayers * cardsPerHand
  BY <1>1, FS_Product
<1>3. Held \in SUBSET (Players \X (1 .. cardsPerHand))
  BY DEF Held
<1>4. IsFiniteSet(Held) /\ Cardinality(Held) <= NumPlayers * cardsPerHand
  BY <1>2, <1>3, FS_Subset
<1>5. QED
  BY <1>4, FS_CardinalityType

LEMMA InHandsFinite ==
  ASSUME NEW k PROVE IsFiniteSet(InHands(k)) /\ Cardinality(InHands(k)) \in Nat
<1>1. InHands(k) \in SUBSET Held
  BY DEF InHands
<1>2. QED
  BY <1>1, HeldFinite, FS_Subset, FS_CardinalityType

LEMMA PlacesOf ==
  /\ \A x \in Held : \E q \in Players, j \in 1 .. cardsPerHand : x = <<q, j>>
  /\ \A q \in Players, j \in 1 .. cardsPerHand : <<q, j>> \in Held <=> j \in DOMAIN hands[q]
  /\ \A k, x : x \in InHands(k) <=> x \in Held /\ Here(k, hands[x[1]][x[2]])
BY DEF Held, InHands

LEMMA PlacesOfNext ==
  /\ \A x \in Held' : \E q \in Players, j \in 1 .. cardsPerHand : x = <<q, j>>
  /\ \A q \in Players, j \in 1 .. cardsPerHand : <<q, j>> \in Held' <=> j \in DOMAIN hands'[q]
  /\ \A k, x : x \in InHands(k)' <=> x \in Held' /\ Here(k, hands'[x[1]][x[2]])
BY DEF Held, InHands

LEMMA PlaceCounts ==
  ASSUME NEW p \in Players, NEW i \in 1 .. cardsPerHand, NEW card, PlaceTakes(p, i, card)
  PROVE  /\ Cardinality(Held)' \in Nat
         /\ Cardinality(Held)' + (IF i \in DOMAIN hands[p] THEN 1 ELSE 0)
              = Cardinality(Held) + 1
         /\ \A k \in Kinds :
              /\ Cardinality(InHands(k))' \in Nat
              /\ Cardinality(InHands(k))'
                   + (IF i \in DOMAIN hands[p] /\ Here(k, hands[p][i]) THEN 1 ELSE 0)
                 = Cardinality(InHands(k)) + (IF Here(k, card) THEN 1 ELSE 0)
<1> DEFINE place == <<p, i>>
<1>1. /\ place \in Held <=> i \in DOMAIN hands[p]
      /\ place \in Held'
  BY DEF Held, PlaceTakes
<1>2. /\ \A x \in Held \ {place} : x \in Held' /\ hands'[x[1]][x[2]] = hands[x[1]][x[2]]
      /\ \A x \in Held' \ {place} : x \in Held
  <2>1. ASSUME NEW q \in Players, NEW j \in 1 .. cardsPerHand, <<q, j>> # place
        PROVE  /\ <<q, j>> \in Held' <=> <<q, j>> \in Held
               /\ <<q, j>> \in Held => hands'[q][j] = hands[q][j]
    <3>1. /\ j \in DOMAIN hands'[q] <=> j \in DOMAIN hands[q]
          /\ j \in DOMAIN hands[q] => hands'[q][j] = hands[q][j]
      BY <2>1 DEF PlaceTakes
    <3>2. <<q, j>> \in Held <=> j \in DOMAIN hands[q]
      BY PlacesOf
    <3>3. <<q, j>> \in Held' <=> j \in DOMAIN hands'[q]
      BY PlacesOfNext
    <3>4. QED
      BY <3>1, <3>2, <3>3
  <2>2. \A q, j : <<q, j>>[1] = q /\ <<q, j>>[2] = j
    OBVIOUS
  <2>3. ASSUME NEW x \in Held \ {place}
        PROVE  x \in Held' /\ hands'[x[1]][x[2]] = hands[x[1]][x[2]]
    <3>1. PICK q \in Players, j \in 1 .. cardsPerHand : x = <<q, j>>
      BY PlacesOf
    <3>2. QED
      BY <2>1, <2>2, <3>1
  <2>4. ASSUME NEW x \in Held' \ {place} PROVE x \in Held
    <3>1. PICK q \in Players, j \in 1 .. cardsPerHand : x = <<q, j>>
      BY PlacesOfNext
    <3>2. QED
      BY <2>1, <3>1
  <2>5. QED
    BY <2>3, <2>4
<1>3. /\ Cardinality(Held)' \in Nat
      /\ Cardinality(Held)' + (IF i \in DOMAIN hands[p] THEN 1 ELSE 0) = Cardinality(Held) + 1
  <2>1. Held \ {place} = Held' \ {place}
    BY <1>2
  <2>2. QED
    BY <1>1, <2>1, HeldFinite, OnePlaceCount
<1>4. ASSUME NEW k \in Kinds
      PROVE  /\ Cardinality(InHands(k))' \in Nat
             /\ Cardinality(InHands(k))'
                  + (IF i \in DOMAIN hands[p] /\ Here(k, hands[p][i]) THEN 1 ELSE 0)
                = Cardinality(InHands(k)) + (IF Here(k, card) THEN 1 ELSE 0)
  <2>1. /\ place \in InHands(k) <=> i \in DOMAIN hands[p] /\ Here(k, hands[p][i])
        /\ place \in InHands(k)' <=> Here(k, card)
    BY <1>1 DEF InHands, PlaceTakes
  <2>2. InHands(k) \ {place} = InHands(k)' \ {place}
    BY <1>2, PlacesOf, PlacesOfNext
  <2>3. QED
    BY <2>1, <2>2, InHandsFinite, OnePlaceCount
<1>5. QED
  BY <1>3, <1>4
-----------------------------------------------------------------------------
(* Hands never get longer than cardsPerHand, and only the card of an empty *)
(* deck has no number.                                                     *)
HandsFit == \A p \in Players : Len(hands[p]) <= cardsPerHand

RealHands ==
  \A p \in Players : \A i \in DOMAIN hands[p] :
    hands[p][i].colour = EMPTY <=> hands[p][i].number = 0

HandsInv == TypeOK /\ HandsFit /\ RealHands

(* A hand's places and the cards in them.                                  *)
LEMMA HandPlaces ==
  ASSUME HandsInv, NEW p \in Players
  PROVE  /\ hands[p] \in Seq(Cards) /\ Len(hands[p]) \in 0 .. cardsPerHand
         /\ DOMAIN hands[p] = 1 .. Len(hands[p])
         /\ DOMAIN hands[p] \subseteq 1 .. cardsPerHand
         /\ \A i \in DOMAIN hands[p] :
              /\ hands[p][i] \in Cards
              /\ hands[p][i].colour # EMPTY =>
                   [number |-> hands[p][i].number, colour |-> hands[p][i].colour] \in Kinds
<1>1. hands[p] \in Seq(Cards) /\ Len(hands[p]) <= cardsPerHand /\ cardsPerHand \in Nat
  BY cardsPerHandType DEF HandsInv, TypeOK, HandsFit
<1>2. /\ Len(hands[p]) \in Nat /\ DOMAIN hands[p] = 1 .. Len(hands[p])
      /\ \A i \in DOMAIN hands[p] : hands[p][i] \in Cards
  BY <1>1, LenProperties
<1>3. ASSUME NEW i \in DOMAIN hands[p], hands[p][i].colour # EMPTY
      PROVE  [number |-> hands[p][i].number, colour |-> hands[p][i].colour] \in Kinds
  <2>1. hands[p][i].number # 0
    BY <1>3 DEF HandsInv, RealHands
  <2>2. hands[p][i].number \in 1 .. MaxNumber /\ hands[p][i].colour \in Colours
    BY <1>2, <1>3, <2>1, GameAssumption DEF Cards
  <2>3. QED
    BY <2>2 DEF Kinds
<1>4. QED
  BY <1>1, <1>2, <1>3

(* A draw takes the card it yields out of the deck; an empty deck yields   *)
(* the empty card.                                                         *)
Undrawn == Numbered(NoCopies, deck)
AllCards == Numbered(NoCopies, AllCopies)

LEMMA DrawCounts ==
  ASSUME TypeOK, NEW d \in Draws
  PROVE  /\ \A k \in Kinds : d.rest[k] + (IF Here(k, d.card) THEN 1 ELSE 0) = deck[k]
         /\ d.card.colour = EMPTY <=> d.card.number = 0
         /\ (~d.card.colourRevealed /\ ~d.card.numberRevealed) \/ d.card.colour = EMPTY
         /\ IF DeckEmpty
              THEN d.rest = deck
              ELSE \E k \in Kinds : /\ deck[k] = d.rest[k] + 1
                                    /\ \A j \in Kinds \ {k} : d.rest[j] = deck[j]
<1>1. CASE DeckEmpty
  <2>1. d.card = EmptyCard /\ d.rest = deck
    BY <1>1 DEF Draws, DeckEmpty
  <2>2. \A k \in Kinds : ~Here(k, d.card)
    BY <2>1, GameAssumption DEF Here, Kinds, EmptyCard
  <2>3. deck \in [Kinds -> Nat]
    BY DEF TypeOK
  <2>4. d.card.colour = EMPTY /\ d.card.number = 0
    BY <2>1 DEF EmptyCard
  <2>5. QED
    BY <1>1, <2>1, <2>2, <2>3, <2>4
<1>2. CASE ~DeckEmpty
  <2>1. PICK k \in Kinds : /\ deck[k] > 0
                           /\ d = [card |-> Fresh(k), rest |-> [deck EXCEPT ![k] = @ - 1]]
    BY <1>2 DEF Draws, DeckEmpty
  <2>2. d.card = Fresh(k) /\ d.rest = [deck EXCEPT ![k] = deck[k] - 1]
    BY <2>1
  <2>3. \A j \in Kinds : Here(j, d.card) <=> j = k
    BY <2>2 DEF Here, Kinds, Fresh
  <2>4. deck \in [Kinds -> Nat]
    BY DEF TypeOK
  <2>5. d.rest[k] = deck[k] - 1 /\ \A j \in Kinds \ {k} : d.rest[j] = deck[j]
    BY <2>2, <2>4
  <2>6. /\ d.card.colour # EMPTY /\ d.card.number # 0
        /\ ~d.card.colourRevealed /\ ~d.card.numberRevealed
    BY <2>2, GameAssumption DEF Fresh, Kinds
  <2>7. QED
    BY <1>2, <2>3, <2>4, <2>5, <2>6
<1>3. QED
  BY <1>1, <1>2

(* The pile grows by one card.                                             *)
LEMMA PileCounts ==
  ASSUME TypeOK, NEW card \in Cards, discardPile' = Append(discardPile, card), NEW k
  PROVE  /\ Cardinality(InPile(k)) \in Nat /\ Cardinality(InPile(k))' \in Nat
         /\ Cardinality(InPile(k))' = Cardinality(InPile(k)) + (IF Here(k, card) THEN 1 ELSE 0)
<1> DEFINE n == Len(discardPile)
<1>1. /\ n \in Nat /\ DOMAIN discardPile = 1 .. n /\ DOMAIN discardPile' = 1 .. n + 1
      /\ \A i \in 1 .. n : discardPile'[i] = discardPile[i]
      /\ discardPile'[n + 1] = card
  BY DEF TypeOK
<1> HIDE DEF n
<1>2. /\ \A i : i \in InPile(k) <=> i \in 1 .. n /\ Here(k, discardPile[i])
      /\ \A i : i \in InPile(k)' <=> i \in 1 .. n + 1 /\ Here(k, discardPile'[i])
  BY <1>1 DEF InPile
<1>3. n + 1 \notin InPile(k) /\ (n + 1 \in InPile(k)' <=> Here(k, card))
  BY <1>1, <1>2
<1>4. InPile(k) \ {n + 1} = InPile(k)' \ {n + 1}
  <2>1. \A i \in 1 .. n + 1 : i # n + 1 => i \in 1 .. n
    BY <1>1
  <2>2. \A i \in 1 .. n : i \in 1 .. n + 1
    BY <1>1
  <2>3. QED
    BY <1>1, <1>2, <2>1, <2>2
<1>5. IsFiniteSet(InPile(k))
  <2>1. IsFiniteSet(1 .. n) /\ InPile(k) \in SUBSET (1 .. n)
    BY <1>1, <1>2, FS_Interval
  <2>2. QED
    BY <2>1, FS_Subset
<1>6. QED
  BY <1>3, <1>4, <1>5, OnePlaceCount

LEMMA PileFinite ==
  ASSUME TypeOK, NEW k PROVE Cardinality(InPile(k)) \in Nat
<1>1. IsFiniteSet(DOMAIN discardPile) /\ InPile(k) \in SUBSET DOMAIN discardPile
  <2>1. DOMAIN discardPile = 1 .. Len(discardPile) /\ Len(discardPile) \in Nat
    BY LenProperties DEF TypeOK
  <2>2. QED
    BY <2>1, FS_Interval DEF InPile
<1>2. QED
  BY <1>1, FS_Subset, FS_CardinalityType
-----------------------------------------------------------------------------
(* What the deal, a replaced card and a hint do to the hands.              *)
LEMMA DealPlace ==
  ASSUME HandsInv, Deal
  PROVE  /\ \E p \in Players, i \in 1 .. cardsPerHand, d \in Draws :
              PlaceTakes(p, i, d.card) /\ i \notin DOMAIN hands[p] /\ deck' = d.rest
         /\ HandsFit'
         /\ UNCHANGED <<table, discardPile, numBlackFuseTokens, turns>>
<1>1. PICK p \in Players, d \in Draws :
        /\ Len(hands[p]) < cardsPerHand
        /\ hands' = [hands EXCEPT ![p] = Append(@, d.card)] /\ deck' = d.rest
  BY DEF Deal
<1> DEFINE n == Len(hands[p])
<1>2. /\ n \in Nat /\ n + 1 \in 1 .. cardsPerHand
      /\ DOMAIN hands[p] = 1 .. n /\ hands[p] \in Seq(Cards)
  BY <1>1, HandPlaces, cardsPerHandType
<1>3. hands'[p] = Append(hands[p], d.card) /\ \A q \in Players \ {p} : hands'[q] = hands[q]
  BY <1>1 DEF HandsInv, TypeOK
<1>4. d.card \in Cards
  BY DrawsType DEF HandsInv
<1>5. /\ DOMAIN hands'[p] = 1 .. n + 1 /\ Len(hands'[p]) = n + 1
      /\ hands'[p][n + 1] = d.card
      /\ \A j \in 1 .. n : hands'[p][j] = hands[p][j]
  BY <1>2, <1>3, <1>4
<1>6. PlaceTakes(p, n + 1, d.card)
  <2>1. ASSUME NEW q \in Players, NEW j \in 1 .. cardsPerHand, q # p \/ j # n + 1
        PROVE  /\ j \in DOMAIN hands'[q] <=> j \in DOMAIN hands[q]
               /\ j \in DOMAIN hands[q] => hands'[q][j] = hands[q][j]
    <3>1. CASE q # p
      BY <1>3, <3>1
    <3>2. CASE q = p
      <4> HIDE DEF n
      <4>1. j \in 1 .. n + 1 <=> j \in 1 .. n
        BY <1>2, <2>1, <3>2
      <4>2. QED
        BY <1>2, <1>5, <3>2, <4>1
    <3>3. QED
      BY <3>1, <3>2
  <2>2. n + 1 \in DOMAIN hands'[p]
    BY <1>2, <1>5
  <2>3. QED
    BY <1>5, <2>1, <2>2 DEF PlaceTakes
<1>7. HandsFit'
  BY <1>1, <1>2, <1>3, <1>5, cardsPerHandType DEF HandsFit, HandsInv
<1>8. n + 1 \notin DOMAIN hands[p]
  BY <1>2
<1>9. UNCHANGED <<table, discardPile, numBlackFuseTokens, turns>>
  BY DEF Deal, tokenVars, turnVars
<1>10. QED
  BY <1>1, <1>2, <1>6, <1>7, <1>8, <1>9

LEMMA ReplacePlace ==
  ASSUME HandsInv, NEW i \in DOMAIN hands[curPlayer], Replace(i)
  PROVE  /\ \E d \in Draws : PlaceTakes(curPlayer, i, d.card) /\ deck' = d.rest
         /\ i \in 1 .. cardsPerHand /\ curPlayer \in Players
         /\ HandsFit'
<1>1. PICK d \in Draws : hands' = [hands EXCEPT ![curPlayer][i] = d.card] /\ deck' = d.rest
  BY DEF Replace
<1>2. curPlayer \in Players /\ i \in 1 .. cardsPerHand
  BY HandPlaces DEF HandsInv, TypeOK
<1>3. PlaceTakes(curPlayer, i, d.card)
  BY <1>1, <1>2 DEF PlaceTakes, HandsInv, TypeOK
<1>4. HandsFit'
  BY ReplaceType DEF HandsInv, HandsFit
<1>5. QED
  BY <1>1, <1>2, <1>3, <1>4

SameFaces ==
  \A p \in Players :
    /\ DOMAIN hands'[p] = DOMAIN hands[p]
    /\ \A i \in DOMAIN hands[p] : /\ hands'[p][i].number = hands[p][i].number
                                 /\ hands'[p][i].colour = hands[p][i].colour

LEMMA HintFaces ==
  ASSUME HandsInv, HintColour \/ HintNumber
  PROVE  /\ SameFaces /\ HandsFit' /\ turns' = turns + 1
         /\ UNCHANGED <<deck, table, discardPile, numBlackFuseTokens>>
<1>0. hintee \in Players /\ \A i \in DOMAIN hands[hintee] : hands[hintee][i] \in Cards
  BY HandPlaces DEF HandsInv, TypeOK
<1>1. PICK told : /\ GiveHint(told) /\ DOMAIN told = DOMAIN hands[hintee]
                  /\ \A i \in DOMAIN told : /\ told[i].number = hands[hintee][i].number
                                           /\ told[i].colour = hands[hintee][i].colour
  <2>1. CASE HintColour
    BY <1>0, <2>1 DEF HintColour, Cards
  <2>2. CASE HintNumber
    BY <1>0, <2>2 DEF HintNumber, Cards
  <2>3. QED
    BY <2>1, <2>2
<1>2. SameFaces
  BY <1>0, <1>1 DEF GiveHint, SameFaces, HandsInv, TypeOK
<1>3. HandsFit'
  BY HintColourType, HintNumberType DEF HandsInv, HandsFit
<1>4. QED
  BY <1>1, <1>2, <1>3 DEF GiveHint

LEMMA SameFacesCount ==
  ASSUME SameFaces
  PROVE  /\ Held' = Held /\ \A k : InHands(k)' = InHands(k)
         /\ HoldsEmpty' <=> HoldsEmpty
         /\ RealHands => RealHands'
<1>1. Held' = Held
  BY DEF Held, SameFaces
<1>2. ASSUME NEW k PROVE InHands(k)' = InHands(k)
  <2>1. ASSUME NEW x \in Held
        PROVE  Here(k, hands'[x[1]][x[2]]) <=> Here(k, hands[x[1]][x[2]])
    <3>1. PICK q \in Players, j \in 1 .. cardsPerHand : x = <<q, j>> /\ j \in DOMAIN hands[q]
      BY DEF Held
    <3>2. /\ hands'[q][j].number = hands[q][j].number
          /\ hands'[q][j].colour = hands[q][j].colour
      BY <3>1 DEF SameFaces
    <3>3. x[1] = q /\ x[2] = j
      BY <3>1
    <3>4. QED
      BY <3>2, <3>3 DEF Here
  <2>2. \A x : x \in InHands(k)' <=> x \in InHands(k)
    <3>1. \A x : /\ x \in InHands(k) <=> x \in Held /\ Here(k, hands[x[1]][x[2]])
                 /\ x \in InHands(k)' <=> x \in Held' /\ Here(k, hands'[x[1]][x[2]])
      BY PlacesOf, PlacesOfNext
    <3>2. QED
      BY <1>1, <2>1, <3>1
  <2>3. QED
    BY <2>2
<1>3. (HoldsEmpty' <=> HoldsEmpty) /\ (RealHands => RealHands')
  BY DEF HoldsEmpty, RealHands, SameFaces
<1>4. QED
  BY <1>1, <1>2, <1>3

LEMMA TakesOnly ==
  ASSUME TypeOK', HandsFit', NEW p, NEW i, NEW card, PlaceTakes(p, i, card)
  PROVE  \A q \in Players : \A j \in DOMAIN hands'[q] :
           hands'[q][j] = card \/ (j \in DOMAIN hands[q] /\ hands'[q][j] = hands[q][j])
<1> SUFFICES ASSUME NEW q \in Players, NEW j \in DOMAIN hands'[q]
             PROVE  hands'[q][j] = card \/ (j \in DOMAIN hands[q] /\ hands'[q][j] = hands[q][j])
  OBVIOUS
<1>1. hands'[q] \in Seq(Cards) /\ Len(hands'[q]) <= cardsPerHand
  BY DEF TypeOK, HandsFit
<1>2. j \in 1 .. cardsPerHand
  BY <1>1, cardsPerHandType, LenProperties
<1>3. QED
  BY <1>2 DEF PlaceTakes

LEMMA TakesReal ==
  ASSUME RealHands, TypeOK', HandsFit', NEW p, NEW i, NEW card, PlaceTakes(p, i, card),
         card.colour = EMPTY <=> card.number = 0
  PROVE  RealHands'
BY TakesOnly DEF RealHands

LEMMA HandsInvInit == Init => HandsInv
BY TypeInit, cardsPerHandType DEF Init, HandsInv, HandsFit, RealHands

LEMMA HandsInvStep == ASSUME HandsInv, [Next]_vars PROVE HandsInv'
<1>0. TypeOK' /\ TypeOK /\ RealHands
  BY TypeStep DEF HandsInv
<1>1. CASE Deal
  BY <1>0, <1>1, DealPlace, DrawCounts, TakesReal DEF HandsInv
<1>2. CASE PlayRight \/ Discard
  <2>1. PICK i \in DOMAIN hands[curPlayer] : Replace(i)
    BY <1>2 DEF PlayRight, Discard
  <2>2. HandsFit' /\ curPlayer \in Players
    BY <2>1, ReplacePlace
  <2>3. PICK d \in Draws : PlaceTakes(curPlayer, i, d.card)
    BY <2>1, ReplacePlace
  <2>4. QED
    BY <1>0, <2>2, <2>3, DrawCounts, TakesReal DEF HandsInv
<1>3. CASE HintColour \/ HintNumber
  BY <1>0, <1>3, HintFaces, SameFacesCount DEF HandsInv
<1>4. CASE hands' = hands
  BY <1>0, <1>4 DEF HandsInv, HandsFit, RealHands
<1>5. QED
  BY <1>1, <1>2, <1>3, <1>4, StepKinds DEF PlayWrong, cardVars

LEMMA HandsInvHolds == Spec => []HandsInv
<1>1. HandsInv /\ [Next]_vars => HandsInv'
  BY HandsInvStep
<1>2. QED
  BY <1>1, HandsInvInit, PTL DEF Spec
-----------------------------------------------------------------------------
(* Every card is somewhere, and what is found too often was misplayed.     *)
CardsInv == HandsInv /\ CardsAccounted

LEMMA FoundType ==
  ASSUME TypeOK, NEW k \in Kinds PROVE Found(k) \in Nat
<1>1. deck[k] \in Nat
  BY DEF TypeOK
<1>2. QED
  BY <1>1, PileFinite, InHandsFinite DEF Found

(* Of a hand's real card there is one kind.                                *)
LEMMA OneKind ==
  ASSUME NEW card, [number |-> card.number, colour |-> card.colour] \in Kinds
  PROVE  \E k \in Kinds : \A j \in Kinds : Here(j, card) <=> j = k
<1> DEFINE k == [number |-> card.number, colour |-> card.colour]
<1>1. ASSUME NEW j \in Kinds PROVE Here(j, card) <=> j = k
  BY DEF Here, Kinds
<1>2. QED
  BY <1>1

LEMMA DealFound ==
  ASSUME HandsInv, Deal, NEW k \in Kinds
  PROVE  Found(k)' = Found(k)
<1>1. PICK p \in Players, i \in 1 .. cardsPerHand, d \in Draws :
        PlaceTakes(p, i, d.card) /\ i \notin DOMAIN hands[p] /\ deck' = d.rest
  BY DealPlace
<1>2. /\ Cardinality(InHands(k))' \in Nat
      /\ Cardinality(InHands(k))' = Cardinality(InHands(k)) + (IF Here(k, d.card) THEN 1 ELSE 0)
  BY <1>1, PlaceCounts
<1>3. deck[k] \in Nat /\ deck'[k] + (IF Here(k, d.card) THEN 1 ELSE 0) = deck[k]
  BY <1>1, DrawCounts DEF HandsInv, TypeOK
<1>4. deck'[k] \in Nat
  BY <1>1, DrawsType DEF HandsInv
<1>5. UNCHANGED <<table, discardPile>>
  BY DealPlace
<1>6. InPile(k)' = InPile(k)
  BY <1>5 DEF InPile
<1>7. Cardinality(InPile(k)) \in Nat /\ Cardinality(InHands(k)) \in Nat
  BY PileFinite, InHandsFinite DEF HandsInv
<1>8. QED
  BY <1>2, <1>3, <1>4, <1>5, <1>6, <1>7 DEF Found

(* A card that leaves a hand for the table or the pile is found there.     *)
LEMMA ReplaceFound ==
  ASSUME HandsInv, NEW i \in DOMAIN hands[curPlayer], Replace(i), NEW k \in Kinds
  PROVE  /\ deck'[k] + Cardinality(InHands(k))' + (IF Here(k, hands[curPlayer][i]) THEN 1 ELSE 0)
              = deck[k] + Cardinality(InHands(k))
         /\ deck'[k] \in Nat /\ Cardinality(InHands(k))' \in Nat
<1>1. PICK d \in Draws : PlaceTakes(curPlayer, i, d.card) /\ deck' = d.rest
  BY ReplacePlace
<1>2. i \in 1 .. cardsPerHand /\ curPlayer \in Players
  BY ReplacePlace
<1>3. /\ Cardinality(InHands(k))' \in Nat
      /\ Cardinality(InHands(k))' + (IF Here(k, hands[curPlayer][i]) THEN 1 ELSE 0)
           = Cardinality(InHands(k)) + (IF Here(k, d.card) THEN 1 ELSE 0)
  BY <1>1, <1>2, PlaceCounts
<1>4. deck[k] \in Nat /\ deck'[k] + (IF Here(k, d.card) THEN 1 ELSE 0) = deck[k]
  BY <1>1, DrawCounts DEF HandsInv, TypeOK
<1>5. deck'[k] \in Nat /\ Cardinality(InHands(k)) \in Nat
  BY <1>1, DrawsType, InHandsFinite DEF HandsInv
<1>6. QED
  BY <1>3, <1>4, <1>5

LEMMA PlayFound ==
  ASSUME HandsInv, PlayRight, NEW k \in Kinds
  PROVE  Found(k)' = Found(k)
<1>1. PICK i \in DOMAIN hands[curPlayer] :
        /\ hands[curPlayer][i].colour # EMPTY /\ Fits(hands[curPlayer][i])
        /\ table' = [table EXCEPT ![hands[curPlayer][i].colour] = hands[curPlayer][i].number]
        /\ Replace(i)
  BY DEF PlayRight
<1> DEFINE card == hands[curPlayer][i]
<1>2. /\ card.colour \in Colours /\ card.number \in 1 .. MaxNumber
  <2>1. curPlayer \in Players
    BY DEF HandsInv, TypeOK
  <2>2. [number |-> card.number, colour |-> card.colour] \in Kinds
    BY <1>1, <2>1, HandPlaces
  <2>3. QED
    BY <2>2 DEF Kinds
<1>3. table \in [Colours -> 0 .. MaxNumber] /\ table[card.colour] + 1 = card.number
  BY <1>1 DEF Fits, HandsInv, TypeOK
<1> DEFINE under(t) == IF t[k.colour] >= k.number THEN 1 ELSE 0
<1>4. under(table') = under(table) + (IF Here(k, card) THEN 1 ELSE 0)
  <2> DEFINE c == k.colour
             n == k.number
             top == table[c]
  <2>1. c \in Colours /\ n \in Nat /\ top \in Nat
    BY <1>3, GameAssumption DEF Kinds
  <2>2. table'[c] = IF c = card.colour THEN card.number ELSE top
    BY <1>1, <1>3, <2>1
  <2>3. Here(k, card) <=> c = card.colour /\ n = card.number
    BY DEF Here
  <2>4. CASE c = card.colour
    <3>1. table'[c] = top + 1 /\ (Here(k, card) <=> n = top + 1)
      BY <1>3, <2>2, <2>3, <2>4
    <3> HIDE DEF c, n, top
    <3>2. (IF top + 1 >= n THEN 1 ELSE 0)
            = (IF top >= n THEN 1 ELSE 0) + (IF n = top + 1 THEN 1 ELSE 0)
      BY <2>1
    <3>3. QED
      BY <3>1, <3>2 DEF c, n, top
  <2>5. CASE c # card.colour
    BY <2>2, <2>3, <2>5
  <2>6. QED
    BY <2>4, <2>5
<1>5. discardPile' = discardPile
  BY DEF PlayRight
<1>6. InPile(k)' = InPile(k)
  BY <1>5 DEF InPile
<1>7. /\ deck'[k] + Cardinality(InHands(k))' + (IF Here(k, card) THEN 1 ELSE 0)
           = deck[k] + Cardinality(InHands(k))
      /\ deck'[k] \in Nat /\ Cardinality(InHands(k))' \in Nat
  BY <1>1, ReplaceFound
<1>8. /\ Cardinality(InPile(k)) \in Nat /\ Cardinality(InHands(k)) \in Nat /\ deck[k] \in Nat
      /\ under(table) \in Nat
  BY PileFinite, InHandsFinite DEF HandsInv, TypeOK
<1>9. /\ Found(k) = deck[k] + Cardinality(InPile(k)) + Cardinality(InHands(k)) + under(table)
      /\ Found(k)' = deck'[k] + Cardinality(InPile(k))' + Cardinality(InHands(k))' + under(table')
  BY DEF Found
<1> HIDE DEF under, card
<1>10. QED
  BY <1>4, <1>6, <1>7, <1>8, <1>9

LEMMA DiscardFound ==
  ASSUME HandsInv, Discard, NEW k \in Kinds
  PROVE  Found(k)' = Found(k)
<1>1. PICK i \in DOMAIN hands[curPlayer] :
        discardPile' = Append(discardPile, hands[curPlayer][i]) /\ Replace(i)
  BY DEF Discard
<1>2. hands[curPlayer][i] \in Cards /\ TypeOK
  BY HandPlaces DEF HandsInv, TypeOK
<1>3. /\ Cardinality(InPile(k)) \in Nat
      /\ Cardinality(InPile(k))'
           = Cardinality(InPile(k)) + (IF Here(k, hands[curPlayer][i]) THEN 1 ELSE 0)
  BY <1>1, <1>2, PileCounts
<1>4. /\ deck'[k] + Cardinality(InHands(k))' + (IF Here(k, hands[curPlayer][i]) THEN 1 ELSE 0)
           = deck[k] + Cardinality(InHands(k))
      /\ deck'[k] \in Nat /\ Cardinality(InHands(k))' \in Nat
  BY <1>1, ReplaceFound
<1>5. table' = table
  BY DEF Discard
<1>6. Cardinality(InHands(k)) \in Nat /\ deck[k] \in Nat
  BY <1>2, InHandsFinite DEF TypeOK
<1> DEFINE under(t) == IF t[k.colour] >= k.number THEN 1 ELSE 0
<1>7. under(table') = under(table) /\ under(table) \in Nat
  BY <1>5
<1>8. /\ Found(k) = deck[k] + Cardinality(InPile(k)) + Cardinality(InHands(k)) + under(table)
      /\ Found(k)' = deck'[k] + Cardinality(InPile(k))' + Cardinality(InHands(k))' + under(table')
  BY DEF Found
<1> HIDE DEF under
<1>9. QED
  BY <1>3, <1>4, <1>6, <1>7, <1>8

(* A misplayed card is found once more than before.                        *)
LEMMA MisplayFound ==
  ASSUME HandsInv, PlayWrong
  PROVE  /\ \E k \in Kinds : Found(k)' = Found(k) + 1 /\ \A j \in Kinds \ {k} : Found(j)' = Found(j)
         /\ numBlackFuseTokens' = numBlackFuseTokens - 1
<1>1. PICK i \in DOMAIN hands[curPlayer] :
        hands[curPlayer][i].colour # EMPTY /\ discardPile' = Append(discardPile, hands[curPlayer][i])
  BY DEF PlayWrong
<1> DEFINE card == hands[curPlayer][i]
<1>2. TypeOK /\ card \in Cards /\ [number |-> card.number, colour |-> card.colour] \in Kinds
  BY <1>1, HandPlaces DEF HandsInv, TypeOK
<1>3. PICK k \in Kinds : \A j \in Kinds : Here(j, card) <=> j = k
  BY <1>2, OneKind
<1>4. UNCHANGED <<deck, hands, table>> /\ numBlackFuseTokens' = numBlackFuseTokens - 1
  BY DEF PlayWrong
<1>5. ASSUME NEW j \in Kinds PROVE Found(j)' = Found(j) + (IF Here(j, card) THEN 1 ELSE 0)
  <2>1. /\ Cardinality(InPile(j)) \in Nat
        /\ Cardinality(InPile(j))' = Cardinality(InPile(j)) + (IF Here(j, card) THEN 1 ELSE 0)
    BY <1>1, <1>2, PileCounts
  <2>2. InHands(j)' = InHands(j)
    BY <1>4 DEF InHands, Held
  <2>3. Cardinality(InHands(j)) \in Nat /\ deck[j] \in Nat
    BY <1>2, InHandsFinite DEF TypeOK
  <2>4. QED
    BY <1>4, <2>1, <2>2, <2>3 DEF Found
<1>6. \A j \in Kinds : Found(j) \in Nat
  BY <1>2, FoundType
<1>7. QED
  BY <1>3, <1>4, <1>5, <1>6

LEMMA HintFound ==
  ASSUME HandsInv, HintColour \/ HintNumber, NEW k \in Kinds
  PROVE  Found(k)' = Found(k)
<1>1. SameFaces /\ UNCHANGED <<deck, table, discardPile>>
  BY HintFaces
<1>2. InHands(k)' = InHands(k)
  BY <1>1, SameFacesCount
<1>3. InPile(k)' = InPile(k)
  BY <1>1 DEF InPile
<1>4. QED
  BY <1>1, <1>2, <1>3 DEF Found

(* The surplus of a step that finds what was found before.                 *)
LEMMA SurplusIs ==
  /\ Surplus = Numbered(AllCopies, [k \in Kinds |-> Found(k)])
  /\ Surplus' = Numbered(AllCopies, [k \in Kinds |-> Found(k)'])
BY DEF Surplus, Numbered, AllCopies

LEMMA AccountedKept ==
  ASSUME CardsAccounted, \A k \in Kinds : Found(k)' = Found(k),
         numBlackFuseTokens' = numBlackFuseTokens
  PROVE  CardsAccounted'
<1>1. [k \in Kinds |-> Found(k)'] = [k \in Kinds |-> Found(k)]
  OBVIOUS
<1>2. Surplus' = Surplus
  BY <1>1, SurplusIs
<1>3. QED
  BY <1>2 DEF CardsAccounted

LEMMA MisplayAccounted ==
  ASSUME CardsInv, PlayWrong PROVE CardsAccounted'
<1>1. PICK k \in Kinds : Found(k)' = Found(k) + 1 /\ \A j \in Kinds \ {k} : Found(j)' = Found(j)
  BY MisplayFound DEF CardsInv
<1>2. \A j \in Kinds : Found(j) \in Nat /\ Copies[j.number] \in Nat
  BY FoundType, GameAssumption DEF CardsInv, HandsInv, Kinds
<1>3. \A j \in Kinds : Found(j) >= Copies[j.number] /\ Found(j)' >= Copies[j.number]
  BY <1>1, <1>2 DEF CardsInv, CardsAccounted
<1> DEFINE hi == [j \in Kinds |-> Found(j)]
           g == [j \in Kinds |-> Found(j)']
<1>4. AllCopies \in [Kinds -> Nat] /\ hi \in [Kinds -> Nat] /\ g \in [Kinds -> Nat]
  <2>1. \A j \in Kinds : Found(j)' \in Nat
    BY <1>1, <1>2
  <2>2. QED
    BY <1>2, <2>1 DEF AllCopies
<1>5. hi[k] >= AllCopies[k] /\ g[k] = hi[k] + 1 /\ \A j \in Kinds \ {k} : g[j] = hi[j]
  BY <1>1, <1>3 DEF AllCopies
<1>6. Surplus = Numbered(AllCopies, hi) /\ Surplus' = Numbered(AllCopies, g)
  BY SurplusIs
<1> HIDE DEF hi, g
<1>7. Cardinality(Surplus) \in Nat /\ Cardinality(Surplus') = Cardinality(Surplus) + 1
  BY <1>4, <1>5, <1>6, NumberedFinite, NumberedAdds
<1>8. /\ numBlackFuseTokens' = numBlackFuseTokens - 1
      /\ numBlackFuseTokens \in Int /\ totalBlackFuseTokens \in Nat
  BY MisplayFound, GameAssumption DEF CardsInv, HandsInv, TypeOK
<1>9. Cardinality(Surplus)' = totalBlackFuseTokens - numBlackFuseTokens'
  BY <1>7, <1>8 DEF CardsInv, CardsAccounted
<1>10. QED
  BY <1>3, <1>9 DEF CardsAccounted

LEMMA CardsInit == Init => CardsInv
<1> SUFFICES ASSUME Init PROVE CardsInv
  OBVIOUS
<1>1. HandsInv
  BY HandsInvInit
<1>2. ASSUME NEW k \in Kinds PROVE Found(k) = Copies[k.number]
  <2>1. InHands(k) = {} /\ InPile(k) = {}
    BY DEF Init, InHands, Held, InPile
  <2>2. Cardinality(InHands(k)) = 0 /\ Cardinality(InPile(k)) = 0
    BY <2>1, FS_EmptySet
  <2>3. ~(table[k.colour] >= k.number) /\ deck[k] = Copies[k.number] /\ Copies[k.number] \in Nat
    BY GameAssumption DEF Init, Kinds
  <2>4. QED
    BY <2>2, <2>3 DEF Found
<1>3. [k \in Kinds |-> Found(k)] = AllCopies
  BY <1>2 DEF AllCopies
<1>4. Surplus = {}
  <2>1. ASSUME NEW k \in Kinds PROVE AllCopies[k] + 1 .. AllCopies[k] = {}
    BY GameAssumption DEF AllCopies, Kinds
  <2>2. QED
    BY <1>3, <2>1, NumberedElements DEF Surplus
<1>5. Cardinality(Surplus) = totalBlackFuseTokens - numBlackFuseTokens
  BY <1>4, FS_EmptySet, GameAssumption DEF Init
<1>6. \A k \in Kinds : Found(k) >= Copies[k.number]
  BY <1>2, GameAssumption DEF Kinds
<1>7. QED
  BY <1>1, <1>5, <1>6 DEF CardsInv, CardsAccounted

LEMMA CardsStep == ASSUME CardsInv, [Next]_vars PROVE CardsInv'
<1>1. HandsInv /\ CardsAccounted /\ HandsInv'
  BY HandsInvStep DEF CardsInv
<1>2. CASE Deal
  BY <1>1, <1>2, DealFound, DealPlace, AccountedKept DEF CardsInv
<1>3. CASE PlayRight
  BY <1>1, <1>3, PlayFound, AccountedKept DEF CardsInv, PlayRight
<1>4. CASE PlayWrong
  BY <1>1, <1>4, MisplayAccounted DEF CardsInv
<1>5. CASE Discard
  BY <1>1, <1>5, DiscardFound, AccountedKept DEF CardsInv, Discard
<1>6. CASE HintColour \/ HintNumber
  BY <1>1, <1>6, HintFound, HintFaces, AccountedKept DEF CardsInv
<1>7. CASE UNCHANGED <<cardVars, numBlackFuseTokens>>
  <2>1. \A k \in Kinds : Found(k)' = Found(k)
    BY <1>7 DEF cardVars, Found, InHands, InPile, Held
  <2>2. QED
    BY <1>1, <1>7, <2>1, AccountedKept DEF CardsInv
<1>8. QED
  BY <1>2, <1>3, <1>4, <1>5, <1>6, <1>7, StepKinds

(* Whatever is dealt, played, discarded and hinted, with any deck and any  *)
(* number of fuse tokens, every card of the deck is still in the deck, in  *)
(* a hand, on the pile or on the table, and one card exists twice for each *)
(* fuse token used: what playCard does with a card that does not fit.      *)
THEOREM CardsAccountedHolds == Spec => []CardsAccounted
<1>1. CardsInv /\ [Next]_vars => CardsInv'
  BY CardsStep
<1>2. Spec => []CardsInv
  BY <1>1, CardsInit, PTL DEF Spec
<1>3. CardsInv => CardsAccounted
  BY DEF CardsInv
<1>4. QED
  BY <1>2, <1>3, PTL
-----------------------------------------------------------------------------
(* Every card that is not in the deck was dealt into a hand's place, where *)
(* it or its successor still is, or drawn in a turn.                       *)
DeckLasts ==
  /\ Cardinality(Undrawn) + Cardinality(Held) + turns >= Cardinality(AllCards)
  /\ HoldsEmpty => Cardinality(Held) + turns > Cardinality(AllCards)

FaultReason == fault = "bounds" => DisplayOverruns \/ HoldsEmpty

DeckInv == HandsInv /\ DeckLasts /\ FaultReason

LEMMA DeckCounts ==
  /\ Cardinality(AllCards) \in Nat /\ Cardinality(AllCards)' = Cardinality(AllCards)
  /\ TypeOK => Cardinality(Undrawn) \in Nat
  /\ TypeOK /\ DeckEmpty => Cardinality(Undrawn) = 0
<1>1. NoCopies \in [Kinds -> Nat] /\ AllCopies \in [Kinds -> Nat]
  BY GameAssumption DEF NoCopies, AllCopies, Kinds
<1>2. Cardinality(AllCards) \in Nat
  BY <1>1, NumberedFinite, FS_CardinalityType DEF AllCards
<1>3. AllCards' = AllCards
  BY DEF AllCards, NoCopies, AllCopies, Numbered
<1>4. TypeOK => Cardinality(Undrawn) \in Nat
  BY <1>1, NumberedFinite, FS_CardinalityType DEF Undrawn, TypeOK
<1>5. DeckEmpty => Cardinality(Undrawn) = 0
  <2> SUFFICES ASSUME DeckEmpty PROVE Cardinality(Undrawn) = 0
    OBVIOUS
  <2>1. ASSUME NEW k \in Kinds PROVE NoCopies[k] + 1 .. deck[k] = {}
    BY DEF NoCopies, DeckEmpty
  <2>2. Undrawn = {}
    BY <2>1, NumberedElements DEF Undrawn
  <2>3. QED
    BY <2>2, FS_EmptySet
<1>6. QED
  BY <1>2, <1>3, <1>4, <1>5

(* A draw from a deck that is not empty takes one card from it.            *)
LEMMA DrawTakesOne ==
  ASSUME TypeOK, TypeOK', NEW d \in Draws, deck' = d.rest
  PROVE  Cardinality(Undrawn) = Cardinality(Undrawn)' + (IF DeckEmpty THEN 0 ELSE 1)
<1>1. Undrawn = Numbered(NoCopies, deck) /\ Undrawn' = Numbered(NoCopies, deck')
  BY DEF Undrawn, Numbered, NoCopies
<1>2. CASE DeckEmpty
  <2>1. deck' = deck
    BY <1>2, DrawCounts
  <2>2. QED
    BY <1>1, <1>2, <2>1, DeckCounts
<1>3. CASE ~DeckEmpty
  <2>1. PICK k \in Kinds : deck[k] = deck'[k] + 1 /\ \A j \in Kinds \ {k} : deck'[j] = deck[j]
    BY <1>3, DrawCounts
  <2>2. /\ deck \in [Kinds -> Nat] /\ deck' \in [Kinds -> Nat] /\ NoCopies \in [Kinds -> Nat]
        /\ deck'[k] >= NoCopies[k]
    BY DEF TypeOK, NoCopies
  <2>3. IsFiniteSet(Numbered(NoCopies, deck'))
    BY <2>2, NumberedFinite
  <2>4. \A j \in Kinds \ {k} : deck[j] = deck'[j]
    BY <2>1
  <2>5. /\ Cardinality(Numbered(NoCopies, deck)) = Cardinality(Numbered(NoCopies, deck')) + 1
        /\ Cardinality(Numbered(NoCopies, deck')) \in Nat
    BY <2>1, <2>2, <2>3, <2>4, NumberedAdds
  <2>6. QED
    BY <1>1, <1>3, <2>5
<1>4. QED
  BY <1>2, <1>3

(* A card is drawn into a new place or, at the cost of a turn, an old one. *)
LEMMA DrawLasts ==
  ASSUME HandsInv, HandsInv', DeckLasts,
         NEW p \in Players, NEW i \in 1 .. cardsPerHand, NEW d \in Draws,
         PlaceTakes(p, i, d.card), deck' = d.rest,
         turns' = turns + (IF i \in DOMAIN hands[p] THEN 1 ELSE 0)
  PROVE  DeckLasts'
<1>0. TypeOK /\ TypeOK' /\ HandsFit' /\ turns \in Nat
  BY DEF HandsInv, TypeOK
<1>1. /\ Cardinality(Held) \in Nat /\ Cardinality(Held)' \in Nat
      /\ Cardinality(Held)' + turns' = Cardinality(Held) + turns + 1
  BY <1>0, PlaceCounts, HeldFinite
<1>2. /\ Cardinality(Undrawn) \in Nat /\ Cardinality(AllCards) \in Nat
      /\ Cardinality(Undrawn) = Cardinality(Undrawn)' + (IF DeckEmpty THEN 0 ELSE 1)
      /\ DeckEmpty => Cardinality(Undrawn) = 0
      /\ Cardinality(AllCards)' = Cardinality(AllCards)
  BY <1>0, DeckCounts, DrawTakesOne
<1>3. Cardinality(Undrawn)' \in Nat
  <2>1. Undrawn' = Numbered(NoCopies, deck') /\ NoCopies \in [Kinds -> Nat] /\ deck' \in [Kinds -> Nat]
    BY <1>0 DEF Undrawn, Numbered, NoCopies, TypeOK
  <2>2. QED
    BY <2>1, NumberedFinite, FS_CardinalityType
<1>4. HoldsEmpty' => HoldsEmpty \/ DeckEmpty
  <2>1. d.card.colour = EMPTY => DeckEmpty
    BY DrawsWhileAny
  <2>2. \A q \in Players : \A j \in DOMAIN hands'[q] :
          hands'[q][j] = d.card \/ (j \in DOMAIN hands[q] /\ hands'[q][j] = hands[q][j])
    BY <1>0, TakesOnly
  <2>3. QED
    BY <2>1, <2>2 DEF HoldsEmpty
<1>5. QED
  BY <1>0, <1>1, <1>2, <1>3, <1>4 DEF DeckLasts

(* A step that moves no card may complete a turn.                          *)
LEMMA QuietLasts ==
  ASSUME TypeOK, DeckLasts, deck' = deck, Held' = Held, HoldsEmpty' <=> HoldsEmpty,
         turns' \in {turns, turns + 1}
  PROVE  DeckLasts'
<1>1. Undrawn' = Undrawn
  BY DEF Undrawn, Numbered, NoCopies
<1>2. /\ turns \in Nat /\ Cardinality(Held) \in Nat
      /\ Cardinality(Undrawn) \in Nat /\ Cardinality(AllCards) \in Nat
      /\ Cardinality(AllCards)' = Cardinality(AllCards)
  BY HeldFinite, DeckCounts DEF TypeOK
<1>3. QED
  BY <1>1, <1>2 DEF DeckLasts

LEMMA DeckInit == Init => DeckInv
<1> SUFFICES ASSUME Init PROVE DeckInv
  OBVIOUS
<1>1. HandsInv
  BY HandsInvInit
<1>2. ~HoldsEmpty
  BY DEF Init, HoldsEmpty
<1>3. Undrawn = AllCards
  BY DEF Init, Undrawn, AllCards, AllCopies
<1>4. Cardinality(Undrawn) + Cardinality(Held) + turns >= Cardinality(AllCards)
  BY <1>3, HeldFinite, DeckCounts DEF Init
<1>5. QED
  BY <1>1, <1>2, <1>4 DEF DeckInv, DeckLasts, FaultReason, Init

LEMMA LastsStep == ASSUME HandsInv, HandsInv', DeckLasts, [Next]_vars PROVE DeckLasts'
<1>0. TypeOK
  BY DEF HandsInv
<1>1. CASE Deal
  <2>1. PICK p \in Players, i \in 1 .. cardsPerHand, d \in Draws :
          PlaceTakes(p, i, d.card) /\ i \notin DOMAIN hands[p] /\ deck' = d.rest
    BY <1>1, DealPlace
  <2>2. turns' = turns /\ turns \in Nat
    BY <1>0, <1>1, DealPlace DEF TypeOK
  <2>3. turns' = turns + (IF i \in DOMAIN hands[p] THEN 1 ELSE 0)
    BY <2>1, <2>2
  <2>4. QED
    BY <2>1, <2>3, DrawLasts
<1>2. CASE PlayRight \/ Discard
  <2>1. PICK i \in DOMAIN hands[curPlayer] : Replace(i)
    BY <1>2 DEF PlayRight, Discard
  <2>2. PICK d \in Draws : PlaceTakes(curPlayer, i, d.card) /\ deck' = d.rest
    BY <2>1, ReplacePlace
  <2>3. i \in 1 .. cardsPerHand /\ curPlayer \in Players
    BY <2>1, ReplacePlace
  <2>4. turns' = turns + (IF i \in DOMAIN hands[curPlayer] THEN 1 ELSE 0)
    BY <1>2 DEF PlayRight, Discard
  <2>5. QED
    BY <2>2, <2>3, <2>4, DrawLasts
<1>3. CASE HintColour \/ HintNumber
  BY <1>0, <1>3, HintFaces, SameFacesCount, QuietLasts
<1>4. CASE UNCHANGED <<deck, hands>> /\ turns' \in {turns, turns + 1}
  <2>1. Held' = Held /\ (HoldsEmpty' <=> HoldsEmpty)
    BY <1>4 DEF Held, HoldsEmpty
  <2>2. QED
    BY <1>0, <1>4, <2>1, QuietLasts
<1>5. PlayWrong => UNCHANGED <<deck, hands>> /\ turns' \in {turns, turns + 1}
  BY DEF PlayWrong
<1>6. QED
  BY <1>1, <1>2, <1>3, <1>4, <1>5, StepKinds DEF cardVars

(* What a step can read out of bounds.                                     *)
LEMMA BoundsStep ==
  ASSUME [Next]_vars, fault' = "bounds"
  PROVE  DisplayOverruns \/ PlayEmpty \/ UNCHANGED vars
<1> USE DEF Step, Answer
<1>0. \A S : "bounds" \notin SendOutcomes(S)
  BY DEF SendOutcomes
<1>1. CASE BeginTurn
  BY <1>0, <1>1 DEF BeginTurn
<1>2. ASSUME fault' \in SendOutcomes(Players) PROVE FALSE
  BY <1>0, <1>2
<1>3. ASSUME \/ LoseCurrent \/ GameOver
             \/ PlayRight \/ PlayWrong \/ Discard \/ HintColour \/ HintNumber
      PROVE  FALSE
  BY <1>2, <1>3 DEF LoseCurrent, GameOver, PlayRight, PlayWrong, Discard, HintColour, HintNumber, GiveHint
<1>4. ASSUME Deal \/ DealDone \/ NextTurn PROVE FALSE
  BY <1>4 DEF Deal, DealDone, NextTurn
<1>5. ASSUME \/ ChoosePlay \/ ChooseDiscard \/ ChooseHint \/ GoBack
             \/ ChooseHintee \/ ChooseHintType \/ HintMisses
      PROVE  FALSE
  BY <1>5 DEF ChoosePlay, ChooseDiscard, ChooseHint, GoBack, ChooseHintee, ChooseHintType, HintMisses
<1>6. ASSUME \E p \in Players : Leave(p) PROVE FALSE
  BY <1>6 DEF Leave
<1>7. QED
  BY <1>1, <1>3, <1>4, <1>5, <1>6 DEF Next, ServerStep, PlayerStep, Finished

LEMMA FaultStep == ASSUME TypeOK, FaultReason, [Next]_vars PROVE FaultReason'
<1> SUFFICES ASSUME fault' = "bounds", ~DisplayOverruns PROVE HoldsEmpty'
  BY DEF FaultReason, DisplayOverruns
<1>1. CASE PlayEmpty
  <2>1. UNCHANGED hands /\ \E i \in DOMAIN hands[curPlayer] : hands[curPlayer][i].colour = EMPTY
    BY <1>1 DEF PlayEmpty, cardVars
  <2>2. QED
    BY <2>1 DEF HoldsEmpty, TypeOK
<1>2. CASE UNCHANGED vars
  BY <1>2 DEF FaultReason, HoldsEmpty, vars, cardVars
<1>3. QED
  BY <1>1, <1>2, BoundsStep

(* With hands as long as what is printed of them, nothing is read out of   *)
(* bounds until more turns are played than the deck has cards left after   *)
(* the deal: the one place where displayHands, playCard and Deck::draw     *)
(* have to agree.                                                          *)
THEOREM InBoundsHolds == Spec => []InBoundsWhileDeckLasts
<1>1. DeckInv /\ [Next]_vars => DeckInv'
  <2> SUFFICES ASSUME DeckInv, [Next]_vars PROVE DeckInv'
    OBVIOUS
  <2>1. HandsInv /\ DeckLasts /\ FaultReason /\ TypeOK
    BY DEF DeckInv, HandsInv
  <2>2. QED
    BY <2>1, HandsInvStep, LastsStep, FaultStep DEF DeckInv
<1>2. Spec => []DeckInv
  BY <1>1, DeckInit, PTL DEF Spec
<1>3. DeckInv => InBoundsWhileDeckLasts
  <2> SUFFICES ASSUME DeckInv PROVE InBoundsWhileDeckLasts
    OBVIOUS
  <2>1. turns \in Nat /\ NumPlayers * cardsPerHand \in Nat
    BY cardsPerHandType, GameAssumption DEF DeckInv, HandsInv, TypeOK
  <2>2. HoldsEmpty => NumPlayers * cardsPerHand + turns > Cardinality(AllCards)
    BY <2>1, HeldFinite, DeckCounts DEF DeckInv, DeckLasts
  <2>3. QED
    BY <2>2 DEF DeckInv, FaultReason, InBoundsWhileDeckLasts, AllCards
<1>4. QED
  BY <1>2, <1>3, PTL
-----------------------------------------------------------------------------
(* The one turn the code plays: nothing has moved before its move, and     *)
(* start() returns after it.                                               *)
BeforeMove == {"deal", "turn"} \cup Prompts

Unmoved ==
  turns = 0 /\ (\A c \in Colours : table[c] = 0) /\ discardPile = <<>> /\ ~Hinted

OneTurn ==
  MaxTurns = 1 => /\ pc \in BeforeMove => Unmoved
                  /\ pc = "next" => turns = 1

MoveInv == HandsInv /\ OneTurn /\ OneMovePerTurn

LEMMA UnstackedCount ==
  (\A c \in Colours : table[c] = 0) => Stacked = {} /\ Cardinality(Stacked) = 0
<1> SUFFICES ASSUME \A c \in Colours : table[c] = 0 PROVE Stacked = {}
  BY FS_EmptySet
<1>1. QED
  BY DEF Stacked

LEMMA UnstackedCountNext ==
  (\A c \in Colours : table'[c] = 0) => Cardinality(Stacked)' = 0
<1> SUFFICES ASSUME \A c \in Colours : table'[c] = 0 PROVE Stacked' = {}
  BY FS_EmptySet
<1>1. QED
  BY DEF Stacked

(* A drawn card tells nobody anything.                                     *)
LEMMA TakesUnhinted ==
  ASSUME HandsInv, HandsInv', ~Hinted,
         NEW p, NEW i, NEW d \in Draws, PlaceTakes(p, i, d.card)
  PROVE  ~Hinted'
<1>1. TypeOK /\ TypeOK' /\ HandsFit'
  BY DEF HandsInv
<1>2. (~d.card.colourRevealed /\ ~d.card.numberRevealed) \/ d.card.colour = EMPTY
  BY <1>1, DrawCounts
<1>3. \A q \in Players : \A j \in DOMAIN hands'[q] :
        hands'[q][j] = d.card \/ (j \in DOMAIN hands[q] /\ hands'[q][j] = hands[q][j])
  BY <1>1, TakesOnly
<1>4. QED
  BY <1>2, <1>3 DEF Hinted

LEMMA ReplaceUnhinted ==
  ASSUME HandsInv, HandsInv', ~Hinted, NEW i \in DOMAIN hands[curPlayer], Replace(i)
  PROVE  ~Hinted'
<1>1. PICK d \in Draws : PlaceTakes(curPlayer, i, d.card)
  BY ReplacePlace
<1>2. QED
  BY <1>1, TakesUnhinted

(* The first card of a stack.                                              *)
LEMMA FirstStacked ==
  ASSUME HandsInv, HandsInv', PlayRight, \A c \in Colours : table[c] = 0
  PROVE  Cardinality(Stacked)' = 1
<1>1. PICK i \in DOMAIN hands[curPlayer] :
        /\ hands[curPlayer][i].colour # EMPTY /\ Fits(hands[curPlayer][i])
        /\ table' = [table EXCEPT ![hands[curPlayer][i].colour] = hands[curPlayer][i].number]
  BY DEF PlayRight
<1> DEFINE c == hands[curPlayer][i].colour
<1>2. c \in Colours /\ hands[curPlayer][i].number \in 1 .. MaxNumber
  <2>1. curPlayer \in Players
    BY DEF HandsInv, TypeOK
  <2>2. [number |-> hands[curPlayer][i].number, colour |-> c] \in Kinds
    BY <1>1, <2>1, HandPlaces
  <2>3. QED
    BY <2>2 DEF Kinds
<1>3. hands[curPlayer][i].number = 1
  BY <1>1, <1>2 DEF Fits
<1>4. table \in [Colours -> 0 .. MaxNumber] /\ table' = [table EXCEPT ![c] = 1]
  BY <1>1, <1>3 DEF HandsInv, TypeOK
<1>5. table'[c] = 1 /\ \A b \in Colours \ {c} : table'[b] = 0
  BY <1>2, <1>4
<1> HIDE DEF c
<1>6. Stacked' = {<<c, 1>>}
  <2>1. ASSUME NEW b \in Colours, NEW n \in 1 .. MaxNumber
        PROVE  n <= table'[b] <=> b = c /\ n = 1
    BY <1>2, <1>5
  <2>2. 1 \in 1 .. MaxNumber
    BY GameAssumption
  <2>3. QED
    BY <1>2, <2>1, <2>2 DEF Stacked
<1>7. QED
  BY <1>6, FS_Singleton

(* A hint reveals a real card.                                             *)
LEMMA HintHints ==
  ASSUME HandsInv, HintColour \/ HintNumber PROVE Hinted'
<1>1. hintee \in Players /\ \A i \in DOMAIN hands[hintee] : hands[hintee][i] \in Cards
  BY HandPlaces DEF HandsInv, TypeOK
<1>2. CASE HintColour
  <2>1. PICK c \in Colours :
          /\ \E i \in DOMAIN hands[hintee] : hands[hintee][i].colour = c
          /\ GiveHint([i \in DOMAIN hands[hintee] |->
               [hands[hintee][i] EXCEPT !.colourRevealed = @ \/ hands[hintee][i].colour = c]])
    BY <1>2 DEF HintColour
  <2>2. PICK i \in DOMAIN hands[hintee] : hands[hintee][i].colour = c
    BY <2>1
  <2>3. hands'[hintee] = [j \in DOMAIN hands[hintee] |->
          [hands[hintee][j] EXCEPT !.colourRevealed = @ \/ hands[hintee][j].colour = c]]
    BY <1>1, <2>1 DEF GiveHint, HandsInv, TypeOK
  <2>4. /\ i \in DOMAIN hands'[hintee]
        /\ hands'[hintee][i] = [hands[hintee][i] EXCEPT !.colourRevealed = @ \/ hands[hintee][i].colour = c]
    BY <2>3
  <2>5. hands'[hintee][i].colourRevealed /\ hands'[hintee][i].colour = c
    BY <1>1, <2>2, <2>4 DEF Cards
  <2>6. c # EMPTY
    BY GameAssumption
  <2>7. QED
    BY <1>1, <2>4, <2>5, <2>6 DEF Hinted
<1>3. CASE HintNumber
  <2>1. PICK n \in 1 .. MaxNumber :
          /\ \E i \in DOMAIN hands[hintee] : hands[hintee][i].number = n
          /\ GiveHint([i \in DOMAIN hands[hintee] |->
               [hands[hintee][i] EXCEPT !.numberRevealed = @ \/ hands[hintee][i].number = n]])
    BY <1>3 DEF HintNumber
  <2>2. PICK i \in DOMAIN hands[hintee] : hands[hintee][i].number = n
    BY <2>1
  <2>3. hands'[hintee] = [j \in DOMAIN hands[hintee] |->
          [hands[hintee][j] EXCEPT !.numberRevealed = @ \/ hands[hintee][j].number = n]]
    BY <1>1, <2>1 DEF GiveHint, HandsInv, TypeOK
  <2>4. /\ i \in DOMAIN hands'[hintee]
        /\ hands'[hintee][i] = [hands[hintee][i] EXCEPT !.numberRevealed = @ \/ hands[hintee][i].number = n]
    BY <2>3
  <2>5. hands'[hintee][i].numberRevealed /\ hands'[hintee][i].colour = hands[hintee][i].colour
    BY <1>1, <2>2, <2>4 DEF Cards
  <2>6. hands[hintee][i].colour # EMPTY
    BY <1>1, <2>2 DEF HandsInv, RealHands
  <2>7. QED
    BY <1>1, <2>4, <2>5, <2>6 DEF Hinted
<1>4. QED
  BY <1>2, <1>3

(* The move of a turn, whichever it is, makes MovesMade 1.                 *)
LEMMA MoveMade ==
  ASSUME HandsInv, HandsInv', Unmoved,
         PlayRight \/ PlayWrong \/ Discard \/ HintColour \/ HintNumber
  PROVE  MovesMade' = 1 /\ turns' = 1 /\ pc' = "next"
<1> USE DEF Unmoved
<1>0. TypeOK /\ turns = 0 /\ ~Hinted /\ Len(discardPile) = 0
  BY DEF HandsInv
<1>1. CASE PlayRight
  <2>1. Cardinality(Stacked)' = 1
    BY <1>1, FirstStacked
  <2>2. ~Hinted'
    <3>1. PICK i \in DOMAIN hands[curPlayer] : Replace(i)
      BY <1>1 DEF PlayRight
    <3>2. QED
      BY <1>0, <3>1, ReplaceUnhinted
  <2>3. discardPile' = discardPile /\ turns' = 1 /\ pc' = "next"
    BY <1>0, <1>1 DEF PlayRight, Answer, Step
  <2>4. QED
    BY <1>0, <2>1, <2>2, <2>3 DEF MovesMade
<1>2. CASE PlayWrong \/ Discard
  <2>1. \A c \in Colours : table'[c] = 0
    BY <1>2 DEF PlayWrong, Discard
  <2>2. ~Hinted'
    <3>1. CASE PlayWrong
      BY <1>0, <3>1 DEF PlayWrong, Hinted
    <3>2. CASE Discard
      <4>1. PICK i \in DOMAIN hands[curPlayer] : Replace(i)
        BY <3>2 DEF Discard
      <4>2. QED
        BY <1>0, <4>1, ReplaceUnhinted
    <3>3. QED
      BY <1>2, <3>1, <3>2
  <2>3. PICK i \in DOMAIN hands[curPlayer] : discardPile' = Append(discardPile, hands[curPlayer][i])
    BY <1>2 DEF PlayWrong, Discard
  <2>4. Len(discardPile') = 1
    BY <2>3
  <2>5. turns' = 1 /\ pc' = "next"
    BY <1>0, <1>2 DEF PlayWrong, Discard, Answer, Step
  <2>6. QED
    BY <2>1, <2>2, <2>4, <2>5, UnstackedCountNext DEF MovesMade
<1>3. CASE HintColour \/ HintNumber
  <2>1. turns' = 1 /\ UNCHANGED <<table, discardPile>>
    BY <1>0, <1>3, HintFaces
  <2>2. pc' = "next"
    BY <1>3 DEF HintColour, HintNumber, Answer, Step
  <2>3. QED
    BY <1>0, <1>3, <2>1, <2>2, HintHints, UnstackedCountNext DEF MovesMade
<1>4. QED
  BY <1>1, <1>2, <1>3

(* Where a step that moves no card leads.                                  *)
LEMMA QuietPc ==
  ASSUME [Next]_vars
  PROVE  \/ Deal \/ PlayRight \/ PlayWrong \/ Discard \/ HintColour \/ HintNumber
         \/ /\ pc' \in BeforeMove => pc \in BeforeMove \/ (pc = "next" /\ turns < MaxTurns)
            /\ pc' = "next" => pc = "next"
<1> DEFINE Quiet == /\ pc' \in BeforeMove => pc \in BeforeMove \/ (pc = "next" /\ turns < MaxTurns)
                    /\ pc' = "next" => pc = "next"
<1> USE DEF Step, Answer, BeforeMove, Prompts
<1>1. ASSUME DealDone \/ BeginTurn \/ LoseCurrent \/ NextTurn \/ GameOver PROVE Quiet
  BY <1>1 DEF DealDone, BeginTurn, LoseCurrent, NextTurn, GameOver
<1>2. ASSUME ChoosePlay \/ ChooseDiscard \/ ChooseHint \/ GoBack \/ PlayEmpty PROVE Quiet
  BY <1>2 DEF ChoosePlay, ChooseDiscard, ChooseHint, GoBack, PlayEmpty
<1>3. ASSUME ChooseHintee \/ ChooseHintType \/ HintMisses PROVE Quiet
  BY <1>3 DEF ChooseHintee, ChooseHintType, HintMisses
<1>4. ASSUME (\E p \in Players : Leave(p)) \/ Finished \/ UNCHANGED vars PROVE Quiet
  BY <1>4 DEF Leave, Finished, vars
<1>5. QED
  BY <1>1, <1>2, <1>3, <1>4 DEF Next, ServerStep, PlayerStep

LEMMA MoveInit == Init => MoveInv
<1> SUFFICES ASSUME Init PROVE MoveInv
  OBVIOUS
<1>1. HandsInv
  BY HandsInvInit
<1>2. Unmoved /\ pc = "deal"
  BY DEF Init, Unmoved, Hinted
<1>3. MovesMade = 0
  BY <1>2, UnstackedCount DEF MovesMade, Unmoved
<1>4. QED
  BY <1>1, <1>2, <1>3 DEF MoveInv, OneTurn, OneMovePerTurn, Unmoved

LEMMA MoveStep == ASSUME MoveInv, [Next]_vars PROVE MoveInv'
<1>0. HandsInv /\ HandsInv'
  BY HandsInvStep DEF MoveInv
<1> SUFFICES ASSUME MaxTurns = 1 PROVE OneTurn' /\ OneMovePerTurn'
  BY <1>0 DEF MoveInv, OneTurn, OneMovePerTurn
<1>1. OneTurn /\ MovesMade = turns
  BY DEF MoveInv, OneMovePerTurn
<1>2. CASE Deal
  <2>1. Unmoved
    BY <1>1, <1>2 DEF OneTurn, Deal, Step, BeforeMove
  <2>2. ~Hinted'
    <3>1. PICK p \in Players, i \in 1 .. cardsPerHand, d \in Draws : PlaceTakes(p, i, d.card)
      BY <1>0, <1>2, DealPlace
    <3>2. QED
      BY <1>0, <2>1, <3>1, TakesUnhinted DEF Unmoved
  <2>3. UNCHANGED <<table, discardPile, turns>>
    BY <1>0, <1>2, DealPlace
  <2>4. Unmoved' /\ pc' = "deal"
    BY <1>2, <2>1, <2>2, <2>3 DEF Unmoved, Deal, Step
  <2>5. MovesMade' = 0
    BY <2>4, UnstackedCountNext DEF MovesMade, Unmoved
  <2>6. QED
    BY <2>4, <2>5 DEF OneTurn, OneMovePerTurn, Unmoved
<1>3. CASE PlayRight \/ PlayWrong \/ Discard \/ HintColour \/ HintNumber
  <2>1. pc \in Prompts
    BY <1>3 DEF PlayRight, PlayWrong, Discard, HintColour, HintNumber, Answer, Step, Prompts
  <2>2. Unmoved
    BY <1>1, <2>1 DEF OneTurn, BeforeMove
  <2>3. MovesMade' = 1 /\ turns' = 1 /\ pc' = "next"
    BY <1>0, <1>3, <2>2, MoveMade
  <2>4. QED
    BY <2>3 DEF OneTurn, OneMovePerTurn, BeforeMove, Prompts
<1>4. CASE /\ UNCHANGED <<cardVars, turns>>
           /\ pc' \in BeforeMove => pc \in BeforeMove \/ (pc = "next" /\ turns < MaxTurns)
           /\ pc' = "next" => pc = "next"
  <2>1. MovesMade' = MovesMade /\ (Unmoved <=> Unmoved') /\ turns' = turns
    BY <1>4 DEF MovesMade, Unmoved, Hinted, Stacked, cardVars
  <2>2. ~(pc = "next" /\ turns < MaxTurns)
    BY <1>1 DEF OneTurn
  <2>3. QED
    BY <1>1, <1>4, <2>1, <2>2 DEF OneTurn, OneMovePerTurn
<1>5. QED
  BY <1>2, <1>3, <1>4, StepKinds, QuietPc

(* In the one turn that start() plays, exactly one card is stacked or      *)
(* discarded or one hint is given, however long the dialogue was.          *)
THEOREM OneMoveHolds == Spec => []OneMovePerTurn
<1>1. MoveInv /\ [Next]_vars => MoveInv'
  BY MoveStep
<1>2. Spec => []MoveInv
  BY <1>1, MoveInit, PTL DEF Spec
<1>3. MoveInv => OneMovePerTurn
  BY DEF MoveInv
<1>4. QED
  BY <1>2, <1>3, PTL
-----------------------------------------------------------------------------
(* Turns are counted up to MaxTurns, cards are played before the last, and *)
(* only players that may leave leave and end the process.                  *)
TurnsFit ==
  /\ turns <= MaxTurns
  /\ pc \in BeforeMove => turns < MaxTurns
  /\ fault = "bounds" => DisplayOverruns \/ turns < MaxTurns

LossReason == gone \subseteq Leavers /\ (fault = "terminate" => gone # {})

LEMMA TurnsStep == ASSUME HandsInv, TurnsFit, [Next]_vars PROVE TurnsFit'
<1>0. turns \in Nat /\ MaxTurns \in Nat
  BY GameAssumption DEF HandsInv, TypeOK
<1> DEFINE Fit == turns <= MaxTurns /\ (pc \in BeforeMove => turns < MaxTurns)
<1>1. Fit'
  <2>1. CASE Deal
    <3>1. pc = "deal" /\ pc' = "deal" /\ turns' = turns
      BY <2>1 DEF Deal, Step, turnVars
    <3>2. QED
      BY <3>1 DEF TurnsFit, BeforeMove
  <2>2. CASE PlayRight \/ PlayWrong \/ Discard \/ HintColour \/ HintNumber
    <3>1. pc \in Prompts /\ pc' = "next" /\ turns' = turns + 1
      BY <2>2 DEF PlayRight, PlayWrong, Discard, HintColour, HintNumber, GiveHint, Answer, Step, Prompts
    <3>2. turns < MaxTurns /\ pc' \notin BeforeMove
      BY <3>1 DEF TurnsFit, BeforeMove, Prompts
    <3>3. QED
      BY <1>0, <3>1, <3>2
  <2>3. CASE /\ turns' = turns
             /\ pc' \in BeforeMove => pc \in BeforeMove \/ (pc = "next" /\ turns < MaxTurns)
    BY <2>3 DEF TurnsFit
  <2>4. QED
    BY <2>1, <2>2, <2>3, StepKinds, QuietPc
<1>2. ASSUME fault' = "bounds", ~DisplayOverruns PROVE turns' < MaxTurns
  <2>1. CASE PlayEmpty
    BY <2>1 DEF PlayEmpty, Answer, Step, turnVars, TurnsFit, BeforeMove, Prompts
  <2>2. CASE UNCHANGED vars
    BY <1>2, <2>2 DEF TurnsFit, vars, turnVars
  <2>3. QED
    BY <1>2, <2>1, <2>2, BoundsStep
<1>3. QED
  BY <1>1, <1>2 DEF TurnsFit, DisplayOverruns

LEMMA LossStep == ASSUME LossReason, [Next]_vars PROVE LossReason'
<1>0. \A S : SendOutcomes(S) \subseteq {"none"} \cup (IF gone = {} THEN {} ELSE {"terminate"})
  BY DEF SendOutcomes
<1> USE DEF LossReason, Step, Answer
<1>1. CASE BeginTurn
  <2>1. gone' = gone /\ fault' \in {"bounds"} \cup SendOutcomes(Players)
    BY <1>1 DEF BeginTurn
  <2>2. QED
    BY <1>0, <2>1
<1>2. ASSUME gone' = gone, fault' \in SendOutcomes(Players) PROVE LossReason'
  BY <1>0, <1>2
<1>3. ASSUME gone' = gone, fault' \in {fault, "bounds"} PROVE LossReason'
  BY <1>3
<1>4. CASE LoseCurrent \/ GameOver \/ PlayRight \/ PlayWrong \/ Discard \/ HintColour \/ HintNumber
  BY <1>2, <1>4 DEF LoseCurrent, GameOver, PlayRight, PlayWrong, Discard, HintColour, HintNumber, GiveHint
<1>5. CASE Deal \/ DealDone \/ NextTurn \/ PlayEmpty
  BY <1>3, <1>5 DEF Deal, DealDone, NextTurn, PlayEmpty
<1>6. CASE \/ ChoosePlay \/ ChooseDiscard \/ ChooseHint \/ GoBack
           \/ ChooseHintee \/ ChooseHintType \/ HintMisses
  BY <1>3, <1>6
     DEF ChoosePlay, ChooseDiscard, ChooseHint, GoBack, ChooseHintee, ChooseHintType, HintMisses
<1>7. ASSUME NEW p \in Players, Leave(p) PROVE LossReason'
  BY <1>7 DEF Leave
<1>8. CASE UNCHANGED vars
  BY <1>3, <1>8 DEF vars
<1>9. QED
  BY <1>1, <1>4, <1>5, <1>6, <1>7, <1>8 DEF Next, ServerStep, PlayerStep, Finished

(* A game harms nobody when nobody leaves it, its hands hold what is       *)
(* printed of them and the deck has a card for every turn but the last:    *)
(* two or three players, fifty cards and the one turn of the code.  Where  *)
(* a condition fails the process can end, at game.cpp:97, :46 or :151.     *)
THEOREM GameIsSafe ==
  ASSUME Leavers = {}, ~DisplayOverruns,
         NumPlayers * cardsPerHand + MaxTurns - 1 <= Cardinality(Numbered(NoCopies, AllCopies))
  PROVE  Spec => [](ServerSurvives /\ DisplayInBounds)
<1> DEFINE Inv == DeckInv /\ TurnsFit /\ LossReason
<1>1. Init => Inv
  <2>1. Init => TurnsFit /\ LossReason
    BY GameAssumption DEF Init, TurnsFit, LossReason
  <2>2. QED
    BY <2>1, DeckInit
<1>2. Inv /\ [Next]_vars => Inv'
  <2> SUFFICES ASSUME Inv, [Next]_vars PROVE Inv'
    OBVIOUS
  <2>1. HandsInv /\ DeckLasts /\ FaultReason /\ TypeOK
    BY DEF DeckInv, HandsInv
  <2>2. QED
    BY <2>1, HandsInvStep, LastsStep, FaultStep, TurnsStep, LossStep DEF DeckInv
<1>3. Inv => ServerSurvives /\ DisplayInBounds
  <2> SUFFICES ASSUME Inv PROVE fault # "terminate" /\ fault # "bounds"
    BY DEF ServerSurvives, DisplayInBounds
  <2>1. turns \in Nat /\ MaxTurns \in Nat /\ NumPlayers * cardsPerHand \in Nat /\ turns <= MaxTurns
    BY cardsPerHandType, GameAssumption DEF DeckInv, HandsInv, TypeOK, TurnsFit
  <2>2. turns < MaxTurns => ~HoldsEmpty
    BY <2>1, HeldFinite, DeckCounts DEF DeckInv, DeckLasts, AllCards
  <2>3. QED
    BY <2>2 DEF DeckInv, FaultReason, TurnsFit, LossReason
<1>4. QED
  BY <1>1, <1>2, <1>3, PTL DEF Spec
=============================================================================
