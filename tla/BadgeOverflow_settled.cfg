SPECIFICATION FairSpec
CONSTANTS
  a = a b = b c = c d = d s1 = s1
  Selects = {s1}
  Values = {a, b, c, d}
  Layouts <- MCLayouts
  Room <- MCRoom
  Natural <- MCNatural
  Plus <- MCPlus
  Gap = 1
  OptionLists <- MCOptionLists
  OptionsLimit = 3
  Selections <- MCSelections
  MaxBadges = 4
  MaxEvents = 4
  None = None
INVARIANT TypeOK
INVARIANT FocusFollowsSight
INVARIANT DisplayedIsSelected
INVARIANT SettledIsArranged
INVARIANT SettledListIsChecked
INVARIANT ListedUpToLimit
PROPERTY ClearsWhatItSays
PROPERTY ComesToRest
CHECK_DEADLOCK FALSE
