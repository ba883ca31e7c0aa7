SPECIFICATION Spec
CONSTANTS
  index = index  archive = archive  r1 = r1  r2 = r2
  Keys = {index, archive}
  Below <- Nested
  Routable = {index}
  Requests = {r1, r2}
  MaxVersion = 3
  Size <- Lengths
  L1MaxSize = 3
  None = None  Empty = Empty  Torn = Torn
  Plans <- DeletionAndCrash
SYMMETRY Interchangeable
INVARIANTS NothingOlderThanADeletion TiersAgree
PROPERTIES AnswersAreWhole
CHECK_DEADLOCK FALSE
