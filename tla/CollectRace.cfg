CONSTANTS
    r1 = r1  r2 = r2
    m1 = m1  m2 = m2  m3 = m3
    i1 = i1  i2 = i2
    b1 = b1  b2 = b2
    None = None
    Stale = Stale
    Runtimes = {r1, r2}
    Mutations = {m1, m2, m3}
    Intents = {i1, i2}
    Bodies = {b1, b2}
    Large = {b1}
    Requests <- TwoIdentities
    Envelope = 2
    FrameCap = 1
    MaxHead = 0
    Operations = {"open", "mutate", "gc"}
    Faults = {}
SPECIFICATION Spec
INVARIANTS
    ReferencesPresent

