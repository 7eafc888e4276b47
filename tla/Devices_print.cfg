\* The console, a screen of two rows of two columns: handlers print inside
\* the main thread's putch.
SPECIFICATION Spec
CONSTANTS
    Tasks = {"print"}
    Columns = 2
    Rows = 2
    TabStop = 2
    CanRedirect = TRUE
    Hz = 2
    Seconds = 3
    Characters = {"a", "newline", "return", "tab", "backspace"}
    MaxPrinted = 5
    MaxElapsed = 3
    MaxKeys = 0
    MaxWait = 0
INVARIANTS
    ScreenShowsPaper
    CursorComesBack
    EchoComplete
CHECK_DEADLOCK FALSE
