SPECIFICATION FairSpec
CONSTANTS
    MaxMsgLenLen = 9
    VersionSize = 3
    TextSize = 15
    JsonSize = 33
    Conversations <- AllConversations
INVARIANTS
    TypeOK
    InStepRoutedAsSent
    InStepRoutedPromptly
    AnswersReadBack
PROPERTIES
    ScanEnds
    ScanNearsEnd
