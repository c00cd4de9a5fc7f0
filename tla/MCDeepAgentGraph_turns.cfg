SPECIFICATION Spec
CONSTANTS
    research = research
    general = general
    Dept = {research, general}
    General = general
    MaxTurns = 2
    MaxNamed = 1
    MaxWrites = 1
    MaxChanges = 1
INVARIANTS
    TypeOK
    OwnAnswer
    ScreenIsThread
PROPERTIES
    TurnEnds
    MeetsConversation
