SPECIFICATION Spec
CONSTANTS
    app1 = app1  app2 = app2  x1 = x1  x2 = x2  s1 = s1  s2 = s2  r1 = r1
    Bad = Bad  Absent = Absent  Malformed = Malformed  Ignored = Ignored
    UInt64Max = 4
    Apps = {app1, app2}
    Users = {x1, x2}
    Sessions = {s1, s2}
    InitialConfig <- MCConfig
    InitialChannels <- MCChannels
    Numbers <- MCNumbers
    MaxEdits = 2
    Messages <- MCMessages
    Posts <- MCPosts
    MaxLog = 3
    Now = 5
INVARIANTS SourcePrincipalNotWritten
CHECK_DEADLOCK FALSE
