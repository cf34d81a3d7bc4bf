SPECIFICATION FairSpec
CONSTANTS
    w1 = w1
    c1 = c1
    en = en
    None = None
    Workers = {w1}
    Clients = {c1}
    Langs = {en}
    IdleHotPolls = 2
    MaxTries = 1
    Env = {"thermal"}
PROPERTY IdleReleasesGpu
