\* Two requests at a time on one account, from nothing or from an active account.
SPECIFICATION Spec
CONSTANTS
    Requests = {r1, r2}
    Names = {n1}
    NoName = NoName
    MaxId = 4
    MaxTokens = 1
SYMMETRY Symmetry
INVARIANTS TypeOK IInv AcceptedIsCurrent OneSessionPerRefresh StatusIsAnnounced
PROPERTIES ActivatedHasRepo
