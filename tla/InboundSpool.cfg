SPECIFICATION Spec
CONSTANTS
    a = a
    b = b
    c1 = c1
    Ids <- MCIds
    Chats <- MCChats
    ChatOf <- MCChatOf
    Briefings = {b}
    EscalateAfter = 1
    NoticeCooldown = 2
    CompactAt = 3
    Outcomes = {"ok", "unsynced", "lost", "torn"}
    NoticeSends = {TRUE, FALSE}
    MaxFaults = 1
    MaxCrashes = 1
    MaxVersion = 1
    MaxTime = 4
INVARIANTS TypeOK CrashLosesNothing SyncedPutSurvives BurstAnnounced
PROPERTIES EscalationClockKept NoticeSpacing
CHECK_DEADLOCK FALSE
