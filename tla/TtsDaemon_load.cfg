SPECIFICATION Spec
CONSTANTS
    w1 = w1
    w2 = w2
    c1 = c1
    c2 = c2
    en = en
    id = id
    None = None
    Workers = {w1, w2}
    Clients = {c1, c2}
    Langs = {en, id}
    IdleHotPolls = 1
    MaxTries = 2
    Env = {"thermal", "fail", "quit", "hang"}
SYMMETRY Symmetry
INVARIANTS TypeOK SlotAccounting CountersExact LoadsAlone RightModel NobodyCutOff
CHECK_DEADLOCK FALSE
