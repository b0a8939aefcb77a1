CONSTANTS
    c1 = c1 c2 = c2 u1 = u1 u2 = u2 b1 = b1 b2 = b2 sync = sync
    r1 = r1 r2 = r2 r3 = r3 hello = hello bye = bye card = card
    None = None
    Channels <- MCChannels
    Principals <- MCPrincipals
    RequestIds = {r1, r2}
    Contents = {hello, bye, card}
    MessageIds = {1, 2, 3}
    BotOf <- MCBotOf
    UserOf <- MCUserOf
    Worker = sync
    CallerMessages <- Callers
    Refused = {card}
    PendingEventLimit = 2
    HistoryOverlap = 1
    HistoryLookback = 2
    Strangers = {u2}
    MaxCallerMessages = 2
    MaxUserPosts = 1
    MaxFaults = 2
SPECIFICATION Spec
INVARIANTS
    TypeOK ResultsInRequestOrder ResultsNameTheirRequest RecordsOnce
    RecordsLinked HistoryRestorable NothingSkipped StateMatchesLog RequestsKept
    RecordsInOrder ConflictsStopWork
    StreamInv
PROPERTIES RecordsWaitForIngested ImplementsChannelSync
