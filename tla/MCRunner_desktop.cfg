SPECIFICATION Spec
CONSTANTS
  v = v
  s = s
  Sizes = {1, 2}
  First = 1
  Themes = {"light", "dark", "missing"}
  MaxNews = 2
  Paste <- Pastes
  Share <- Shares
  Lists <- ToShare
  OtherLists <- Explorer
  Existing <- ThereAre
  MaxOthers = 1
  Limits <- Bounds
CHECK_DEADLOCK FALSE
INVARIANT TypeOK
INVARIANT EndsInOrder
INVARIANT LoopHasEngine
INVARIANT LooksRight
INVARIANT CallsAreClean
INVARIANT ShareTold
PROPERTY PasteFaithful
PROPERTY PasteFirst
PROPERTY Settles
