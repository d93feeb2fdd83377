\* Handlers that add and remove one another, batches shorter than the list,
\* and a clock that is set, by more than an int holds too.
SPECIFICATION FairSpec
CONSTANTS
  h1 = h1
  h2 = h2
  h3 = h3
  NoHandler = NoHandler
  Handler <- ThreeHandlers
  EvSize = 2
  Second = 2
  Half = 8
  Jumps <- NearAndFar
  MaxLag = 3
INVARIANTS
  TypeOK
  NeverAhead
PROPERTIES
  NoStaleCall
  SecondsGoOn
  Served
