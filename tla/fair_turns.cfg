SPECIFICATION FairSpec
CONSTANTS
  MainThread = "main"
  Spinners = {"s"}
PROPERTIES
  PokeMeansNap
  MainGetsItsTurn
  NudgeLands
  TurnsCome
CHECK_DEADLOCK FALSE
