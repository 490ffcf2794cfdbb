CONSTANTS
    Threads = {t1, t2}
    MaxGens = 2
    Facades = {FALSE}
SPECIFICATION PySpec
PROPERTIES
    DrainStallsNobody
CHECK_DEADLOCK FALSE
