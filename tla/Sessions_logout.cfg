SPECIFICATION FairSpec
CONSTANTS
    tab1 = tab1
    tab2 = tab2
    tok1 = tok1
    tok2 = tok2
    NoToken = NoToken
    Tokens <- TwoTokens
    Tabs <- OneTab
    Slots <- OneRequest
    TTL = 1
    MaxTime = 2
    MaxPass = 1
    MaxFaults = 1
PROPERTIES
    StaleTokenLogsOut
CHECK_DEADLOCK FALSE
