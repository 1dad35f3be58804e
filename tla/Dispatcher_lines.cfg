SPECIFICATION Spec
CONSTANTS
    MaxMsgLenLen = 9
    VersionSize = 3
    TextSize = 15
    JsonSize = 33
    Conversations <- LineConversations
INVARIANT RoutedAsSent
