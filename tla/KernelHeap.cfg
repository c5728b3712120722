SPECIFICATION FairSpec
CONSTANTS
  HeapSize = 22
  Header = 3
  Slack = 1
  Requests = {0, 1, 5}
INVARIANTS Tiling GivenSound NoFreePair
PROPERTY Returns
