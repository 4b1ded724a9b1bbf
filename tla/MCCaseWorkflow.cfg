SPECIFICATION FairSpec
CONSTANTS
    Cases = {c1}
    Requests = {r1, r2}
    States <- MCStates
    Initial <- MCIntake
    Terminal <- MCTerminal
    Keys <- MCKeys
    Transitions <- MCTransitions
    ClosedNames <- MCClosedNames
    Forms <- MCOneForm
    Slots <- MCBothSlots
    MaxTransitions = 2
    Nil = Nil
INVARIANTS
    StatusMirrorsWorkflow
PROPERTIES
    RequestedStatusReached
    RequiredFormsSubmitted
    ImplementsLifecycle
    RequestsEnd
