\* The timer and the keyboard, with the fairness of a processor; a second
\* has two ticks.
SPECIFICATION Spec
CONSTANTS
    Tasks = {"clock", "keys"}
    Columns = 2
    Rows = 2
    TabStop = 2
    CanRedirect = TRUE
    Hz = 2
    Seconds = 3
    Characters = {}
    MaxPrinted = 0
    MaxElapsed = 3
    MaxKeys = 3
    MaxWait = 2
INVARIANTS
    TimeIsNear
    FreshKey
    DriversConsistent
PROPERTIES
    RequestsServed
    BusyLoopsEnd
