\* One socket that is opened and closed, one pid that is used again by a program
\* whose name can be had and one whose name cannot; each of the four tables.
CONSTANTS
    socket = socket
    pid = pid
    game = game
    Keys <- OneKey
    Pids <- OnePid
    Programs <- OneProgram
    Blank = Blank
    Zero = Zero
    Nobody = Nobody
    Uncached = Uncached
    NoThread = NoThread
SPECIFICATION FairSpec
INVARIANTS
    TypeOK
    GateSerializes
    

    
