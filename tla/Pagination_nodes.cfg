CONSTANTS
  Ids = {1, 2}
  Instants = {2, 3}
  Requests = {q1}
  Invalidated = {}
  Filters <- AllOrFew
  MaxLimit = 2
  MaxVersion = 1
SPECIFICATION PaginationSpec
INVARIANTS NodesDefined
