CONSTANTS
    Flows = {f1}
    Calls = {x1}
    NoFlow = NoFlow
    Missing = Missing
    PkceChecked = FALSE
    MaxToken = 2
SPECIFICATION Spec
INVARIANT FreshestTokenKept
