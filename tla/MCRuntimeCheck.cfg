SPECIFICATION RCSpec
CONSTANTS
    p1 = p1
    h1 = h1
    h2 = h2
    Hosts = {h1, h2}
    Agents = {p1}
    Base <- Bound
    Acts = {svid, wimse}
    FirstAct = svid
    Documents = {loopback, grown, public}
    OtherBind = public
    FirstDocument = loopback
    NoDocument = NoDocument
    Nobody = Nobody
    MaxHeld = 2
    LineCost = 1
    EventCost = 2
    MaxCost = 4
CHECK_DEADLOCK FALSE
INVARIANTS
    OneDocumentForLife
    DeathStopsNextLine
PROPERTIES
    ImplementsToolGate
    HostComesBack
