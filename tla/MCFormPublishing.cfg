CONSTANTS
    Forms = {f1}
    Versions <- MCVersions
    Fields = {i1}
    Keys = {k1}
    Cases = {c1}
    Requests = {p1, p2}
    Required <- MCVersions
    Nil = Nil
    Deleted = Deleted
SPECIFICATION FairSpec
CHECK_DEADLOCK FALSE
INVARIANTS
    ActiveFormsHaveAVersion
    FormViewsAgree
PROPERTIES
    AcceptedAsDefined
    RequestsEnd
