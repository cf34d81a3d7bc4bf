SPECIFICATION FairSpec
CONSTANTS
    w1 = w1
    w2 = w2
    c1 = c1
    c2 = c2
    en = en
    None = None
    Workers = {w1, w2}
    Clients = {c1, c2}
    Langs = {en}
    IdleHotPolls = 2
    MaxTries = 1
    Env = {"fail", "hang"}
PROPERTY Answered
