SPECIFICATION FairSpec
CONSTANTS
    Workers = {t1, t2}
    Frames <- FramesOfMessages
    Key = "key"
    Outgoing <- Sent
    Incoming <- Received
    MaxCalls = 2
    Words <- WordsOfBodies
    Digit <- Digits
    Streams <- StreamsOfBodies
    MaxVariables = 7
    MaxPage = 4
INVARIANTS
    SentIsReadable
    HandedIsGenuine
    GenuineIsHanded
    NothingIsCutOff
    PagesMakeTheList
PROPERTIES
    EveryMessageIsRead
    ImplementsReader
CHECK_DEADLOCK FALSE
