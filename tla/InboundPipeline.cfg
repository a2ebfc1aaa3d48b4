SPECIFICATION PipelineSpec
CONSTANTS
    m1 = m1
    m2 = m2
    m3 = m3
    chat1 = chat1
    Ids <- MCIds
    Chats <- MCChats
    ChatOf <- MCChatOf
    TTLs <- MCTTLs
    Briefings = {}
    Media = {m1, m2}
    Cap = 2
    EscalateAfter = 1
    NoticeCooldown = 1
    CompactAt = 2
    Outcomes = {"ok"}
    NoticeSends = {TRUE}
    MaxFaults = 0
    MaxCrashes = 1
    MaxVersion = 0
    MaxTime = 2
INVARIANTS PipelineTypeOK RepeatsAccounted
PROPERTIES KeepsPromise
