\* A commit fails to delete a field and stores a value.
CONSTANTS
    a = a  b = b  c = c  v = v  w = w  old = old  new = new
    Names = {a, b, c}
    Vals = {v, w}
    Null = Null
    None = None
    Fids = {old, new}
    Columns <- TwoColumns
    Rows <- OneRow
    Templates <- Attrs
    MaxFields = 3
    MaxCmds = 2
    MaxCommits = 1
SPECIFICATION Spec
PROPERTIES
    ValuesOnlyInExpectedFields
CHECK_DEADLOCK FALSE
