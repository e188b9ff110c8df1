\* Files and folders of the drive, two clicks.
SPECIFICATION Spec
CONSTANTS
    home = home
    work = work
    ann = ann
    None = None
    MonthLength <- MCMonthLength
    FirstWeekday = 4
    Todays <- MCTodays
    Ticks = 2
    Calendars = {home, work}
    Stored <- MCStored
    Old = {12, 13}
    Virtual = {121, 122, 131, 132}
    Later <- MCLater
    Begun = {13}
    Times = {1, 2}
    People = {ann}
    Samples = {21}
    MaxNew = 2
    MaxSteps = 1
    Letters = {1, 2}
    MaxContacts = 2
    MaxKeys = 2
    MaxEmails = 2
    MaxActs = 1
    root = root
    sub = sub
    trash = trash
    starred = starred
    recent = recent
    noFolder = noFolder
    Root = root
    Subfolders = {sub}
    Trash = trash
    StarredView = starred
    Recent = recent
    Views = {trash, starred}
    OldFiles = {11, 12}
    SampleFiles = {21}
    NoFolder = noFolder
    MaxUploads = 1
    MaxDriveActs = 2
    alice = alice
    bob = bob
    nobody = nobody
    Accounts = {alice, bob}
    Nobody = nobody
    MaxCalls = 2
    MaxClicks = 1
    first = first
    second = second
    box1 = box1
    noDomain = noDomain
    Domains = {first, second}
    LocalParts = {box1}
    NoDomain = noDomain
    MaxConsole = 1
    q1 = q1
    q2 = q2
    noQuery = noQuery
    Queries = {q1, q2}
    Viewable = {q1}
    NoQuery = noQuery
    MaxTyped = 1
    Sections = {"mail", "contacts", "drive"}
    MaxExport = 6
    ItemCount = 3
    MaxPresses = 5
    CodeLength = 3
    Digits = {1, 2}
    MaxUses = 5
    laptop = laptop
    phone = phone
    guest0 = guest0
    Browsers = {laptop, phone}
    Members = {alice, bob}
    Guest = guest0
    MaxPairs = 3
    MaxSealed = 1
    MaxVisits = 5
    noShare = noShare
    ben = ben
    cora = cora
    noGuest = noGuest
    SharedFiles = {11, 12}
    NoShare = noShare
    Guests = {ben, cora}
    NoGuest = noGuest
    MaxForms = 6
    north = north
    south = south
    noCustom = noCustom
    CustomDomains = {north, south}
    NoCustom = noCustom
    MaxDomainActs = 4
    inboxL = inboxL
    archiveL = archiveL
    Conversations = {1, 2}
    ReaderLabels = {inboxL, archiveL}
    FirstLabel = inboxL
    ReaderPage = 1
    MaxReads = 3
INVARIANTS
    TrashCanBeRestored
CHECK_DEADLOCK FALSE
