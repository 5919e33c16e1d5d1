SPECIFICATION Spec
CONSTANTS
    Case <- OverTheLimit
    Notice <- NoticeLengths
CHECK_DEADLOCK FALSE
INVARIANT TextIsShown
