SPECIFICATION FairPoolSpec
CONSTANTS
    Buf = {0, 1}
    Small = Small
    Large = Large
    Caps = {Small}
    Cap <- MCCap
    Tasks = {t1, t2}
    SingleThread = FALSE
    Empty = Empty
PROPERTY
    NextResolves
