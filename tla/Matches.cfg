\* Brackets of 2 to 17 players; those of up to 3 are played, with two submissions at a time.
SPECIFICATION Spec
CONSTANTS
  BracketSizes = {2, 3, 4, 5, 6, 7, 8, 9, 13, 16, 17}
  MaxPlayed = 3
  Submissions = {s1, s2}
  MaxShuffled = 4
SYMMETRY Symmetry
CHECK_DEADLOCK FALSE
INVARIANTS
  BracketIsKnockout
  ShuffleIsFair
  

  
