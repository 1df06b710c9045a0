------------------------------- MODULE MCGame -------------------------------
(* Small decks for TLC.  Of the code's numbers 1 to 5, with 3, 2, 2, 2 and  *)
(* 1 copies, the instances keep a number with several copies and a last one *)
(* with a single copy, which completes a stack.                             *)
EXTENDS Game, TLC

CONSTANTS red, blue

TwoNumbers == <<2, 1>>
ThreeOne == <<3, 1>>

(* Colours differ in nothing but their name.                               *)
ColourSymmetry == Permutations(Colours)
=============================================================================
