CONSTANTS
  MaxInt = 20
  NoChoice <- None
  Lists <- MCLists
  ConstraintLists <- MCConstraintLists
SPECIFICATION ChoiceSpec
INVARIANTS
  ChoiceTypeOK
  ChoiceIsBest
  OrderLaws
  MatchingIsInterval
