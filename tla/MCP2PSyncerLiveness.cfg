CONSTANTS
    c1 = c1 c2 = c2 u1 = u1 u2 = u2 b1 = b1 b2 = b2 sync = sync
    r1 = r1 r2 = r2 r3 = r3 hello = hello bye = bye card = card
    None = None
    Channels <- MCChannels
    Principals <- MCPrincipals
    RequestIds = {r1, r2, r3}
    Contents = {hello, card}
    MessageIds = {1, 2, 3}
    BotOf <- MCBotOf
    UserOf <- MCUserOf
    Worker = sync
    CallerMessages <- OneRefused
    Refused = {card}
    PendingEventLimit = 2
    HistoryOverlap = 1
    HistoryLookback = 3
    Strangers = {}
    MaxCallerMessages = 2
    MaxUserPosts = 1
    MaxFaults = 1
SPECIFICATION FairSpec
PROPERTIES RequestsAnswered MessagesRecorded
