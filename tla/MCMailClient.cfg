\* Two threads, two labels, two requests under way, three clicks, two events.
SPECIFICATION FairSpec
CONSTANTS
    inbox = inbox
    archive = archive
    Nothing = Nothing
    MaxThread = 2
    Labels = {inbox, archive}
    Inbox = inbox
    PageSize = 1
    Slots = {1, 2}
    MaxClicks = 3
    MaxEvents = 2
INVARIANTS
    TypeOK
    PageAgrees
PROPERTIES
    Converges
CHECK_DEADLOCK FALSE
