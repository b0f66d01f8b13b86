CONSTANTS
    Flows = {f1, f2}
    Calls = {x1, x2}
    NoFlow = NoFlow
    Missing = Missing
    PkceChecked = FALSE
    MaxToken = 2
SYMMETRY Symmetries
SPECIFICATION Spec
INVARIANTS
    TypeOK
    TabsDoNotMix
    TokenCarriedForward
