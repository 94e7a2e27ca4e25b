SPECIFICATION Spec
CONSTANTS
  Stride = 16
  Other = 1
  Nums = {1, 8, 10}
  LastDemo = 1
  MaxEvents = 3
PROPERTY SegmentsShowNumber
