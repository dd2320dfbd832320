SPECIFICATION FairSpec
CONSTANTS
  a = a b = b f1 = f1 f2 = f2 t1 = t1
  Tabs = {t1}
  Nodes = {a, b}
  Pointers = {f1, f2}
  WorldWidth = 94
  WorldHeight = 136
  Size <- MCSize
  Default <- MCDefault
  Deltas <- MCDeltas
  None = None
INVARIANT TypeOK
INVARIANT ListenersOnce
INVARIANT HeldWhileDragged
INVARIANT EdgesFollow
INVARIANT InsideTheWorld
INVARIANT ShownAsSaved
PROPERTY OthersStay
PROPERTY BecomesReady
