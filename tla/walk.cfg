\* Three features or bugs, three kinds of run over features and two over bugs, two troubles.
SPECIFICATION FairSpec
CONSTANTS
  a = a
  b = b
  c = c
  Feature = {a, b, c}
  NoFeature = NoFeature
  Queue <- ABC
  Deps <- DepsABC
  Independent <- IndependentC
  Modes <- AllModes
  Cap = 1
  MaxForward = 3
  MaxTroubles = 2
INVARIANTS
  NoFalseCompletion
  StopsOnlyWhenDone
  DepsFirst
PROPERTIES
  FinishLineIsReached
  NoMonopoly
CHECK_DEADLOCK FALSE
