CONSTANTS
  Ids = {1, 2}
  Instants = {2, 3}
  Requests = {q1}
  Invalidated = {2}
  Filters <- AllOrFew
  MaxLimit = 2
  MaxVersion = 2
SPECIFICATION PaginationFairSpec
INVARIANTS PaginationTypeOK WalkNoRepeat WalkComplete NextPageFollows
PROPERTIES StaleFades
