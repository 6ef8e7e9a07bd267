SPECIFICATION Spec
CONSTANTS
    Absent = Absent
    Rows <- MCRows
    Intents <- MCIntents
    Answers <- MCAnswers
    Https <- MCHttps
    Codes <- MCCodes
    Capacity = 6
    MaxCalls = 3
INVARIANTS  EventsAddUp  WireIsTheTranscript
PROPERTY ImplementsEngine
CHECK_DEADLOCK FALSE
