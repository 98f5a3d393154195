SPECIFICATION FairSpec
CONSTANTS
  Tasks = {1, 2, 3, 4}
  Root = 1
  Graphs <- SmallGraphs
  MaxSelected = 2
INVARIANTS
  SubdagRight
  SortRight
  UpstreamCovered
  StatusRight
PROPERTY Ends
