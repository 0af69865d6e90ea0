\* What the program reads and writes; one component a behaviour.
SPECIFICATION SumSpec
CONSTANTS
  Explored = {"wire", "layout", "bits", "benc", "link", "info", "reply", "blocks"}
  Writes <- MCWrites
  Strange <- MCStrange
  LinkFields <- MCOffered
  Documents <- MCDocuments
  Foreign <- MCForeign
  Lists <- MCLists
  NoField = NoField
  OddField = OddField
  Missing = Missing
  Odd = Odd
INVARIANTS
  MessagesMeanOneThing
  TorrentsAreWhole
  BlocksAreThePiece
PROPERTIES
  StreamIsChannel
  LayoutIsStream
CHECK_DEADLOCK FALSE
