SPECIFICATION FairSpec
CONSTANTS
    m1 = m1
    m2 = m2
    big = big
    bad = bad
    junk = junk
    Torn = Torn
    NoMessage = NoMessage
    Message <- MCMessage
    Oversize = {big}
    Invalid = {bad}
    Undecodable = {junk}
    Capacity = 2
    IndexMod = 6
INVARIANTS
    NoSlotShared
PROPERTIES
    RefinesFifo
    CommittedIsConsumed
