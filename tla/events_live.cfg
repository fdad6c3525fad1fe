SPECIFICATION FairSpec
CONSTANTS
    h1 = h1
    c1 = c1
    c2 = c2
    Procs = {h1}
    Clients = {c1}
    Capacity = 2
    Window = 1
    Numbered <- MCNumbered
PROPERTIES
    AnswersNotDelayed
    
    GoneClientIsReleased
