SPECIFICATION GemixSpec
CONSTANTS
    VoiceChats = {c1, c2}
    MaxAudio = 3
    MaxRecent = 2
    MatchWithin = 1
    MaxAge = 2
    LastMoment = 3
    MaxLostWrites = 1
PROPERTY ReportedGoneIsGone
CHECK_DEADLOCK FALSE
