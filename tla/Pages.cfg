SPECIFICATION WalkSpec
CONSTANTS
  Rows = {1, 2, 3, 4}
  Sorts = {1, 2}
  None = None
  PageSize = 2
INVARIANT PagesTrue
