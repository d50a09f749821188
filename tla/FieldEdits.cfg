\* Two fields and two more names, three commands, one commit.
CONSTANTS
    a = a  b = b  c = c  v = v  w = w  old = old  new = new
    Names = {a, b, c}
    Vals = {v}
    Null = Null
    None = None
    Fids = {old, new}
    Columns <- TwoColumns
    Rows <- OneRow
    Templates <- Attrs
    MaxFields = 3
    MaxCmds = 3
    MaxCommits = 1
SPECIFICATION Spec
INVARIANTS
    TypeOK
    IndicesFit
PROPERTIES
    History_Spec
    ValuesReachTheirField
    FeaturesReachTheirFields
CHECK_DEADLOCK FALSE
