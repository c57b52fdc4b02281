SPECIFICATION FairSpec
CONSTANTS
  Key = {"queue", "agents", "auto"}
  Mutation = {"decide", "pause"}
  Page = {"work", "team"}
  Tap = {x, y}
  MaxActs = 2
  MaxElse = 1
  MaxLost = 1
INVARIANTS OwnWriteShown
PROPERTIES OwnWriteEventuallyShown
CHECK_DEADLOCK FALSE
