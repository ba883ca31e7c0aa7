SPECIFICATION Spec
CONSTANTS
  n1 = n1  n2 = n2  n3 = n3  c1 = c1  c2 = c2
  fileA = fileA  short = short  long = long
  Nodes = {n1, n2, n3}
  NodeType <- AllLocal
  Files = {fileA}
  Callers = {c1}
  FileOf <- SameFile
  Values = {short, long}
  Size <- Lengths
  None = None  Empty = Empty  Torn = Torn
  Setups <- ThreeNodes
INVARIANTS SuccessMeansRequiredReplicas
