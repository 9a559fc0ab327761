CONSTANTS
    x = x  y = y
    c1 = c1  c2 = c2
    None = None
    OwnNotes = {1}
    OwnDiaries = {1}
    Drafts <- TwoDrafts
    Texts = {x, y}
    Patches <- Edits
    Payloads <- OnePayload
    UserNodes = {31}
    UserEdges = {1}
    Links <- TwoLinks
    Saved = {}
    Recalls = {}
    Calls = {c1, c2}
    MaxId = 9
    MaxOperations = 3
SPECIFICATION Spec
PROPERTIES
    ImportKeepsExisting
