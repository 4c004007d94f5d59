\* Two exports, one editor, one deletion at a time, two events.
CONSTANTS
    e1 = e1
    e2 = e2
    c1 = c1
    d1 = d1
    Exports <- TwoExports
    Editors = {c1}
    Deleters = {d1}
    MaxEvents = 2
CONSTRAINT InOrderOfID
SPECIFICATION ExportsSpec
INVARIANTS
    VisibleZipExists
    UnflaggedZipIsCurrent
    EveryZipIsAccountedFor
    CleanUpFailsForStraysOnly
PROPERTIES
    PublishedSettles
CHECK_DEADLOCK FALSE
