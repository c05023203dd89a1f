\* A takedown between the checks of activateAccount and its UPDATE.
SPECIFICATION Spec
CONSTANTS
    Requests = {r1, r2}
    Names = {}
    NoName = NoName
    MaxId = 4
    MaxTokens = 0
SYMMETRY Symmetry
PROPERTIES NeverReactivated
