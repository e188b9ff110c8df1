\* Two sends, one draft, one thread to answer or forward.
SPECIFICATION ComposeSpec
CONSTANTS
    ann = ann
    self = self
    thread = thread
    Signature = Signature
    Nothing = Nothing
    Words = {word}
    People = {ann, self}
    Me = self
    Threads = {thread}
    Sender <- MCSender
    Receivers <- MCReceivers
    MaxSends = 2
    MaxSaves = 1
    MaxEdits = 5
INVARIANTS
    ComposeTypeOK
    SentIsComposed
PROPERTIES
    WrittenIsKept
CHECK_DEADLOCK FALSE
