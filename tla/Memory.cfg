CONSTANTS
    x = x  y = y
    c1 = c1  c2 = c2
    None = None
    OwnNotes = {1}
    OwnDiaries = {1}
    Drafts <- TwoDrafts
    Texts = {x, y}
    Patches <- Edits
    Payloads <- OnePayload
    UserNodes = {31}
    UserEdges = {1}
    Links <- TwoLinks
    Saved <- LinkedCores
    Recalls <- Questions
    Calls = {c1}
    MaxId = 9
    MaxOperations = 5
SPECIFICATION Spec
INVARIANTS
    NodesMirrorNotes
    RestoreIsExact
    IndexAgrees
    EffectsReproduce
    RecallIsExact
