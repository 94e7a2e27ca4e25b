SPECIFICATION Spec
CONSTANTS
  Stride = 3
  Rows = 3
  PerRow = 2
  DemoAfter = 2
  LastDemo = 1
  Nums = {5, 512}
  MaxEvents = 3
INVARIANTS TypeOK ShownWasSet
PROPERTY LastSetIsShown
