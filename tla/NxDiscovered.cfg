CONSTANTS
    h1 = h1
    h2 = h2
    Handles = {h1}
    KeyNames = {"sel", "alias"}
    AliasOf <- Alias
    Domain = "dom"
    PolicyName = "adsp"
    Data = {"a", "b"}
    Junk = {"b"}
    Ttl <- TtlOf
    ExTypes = {"A", "MX"}
    Sources = {"dns", "file", "callback"}
    Faults = {"add", "resolver", "reply", "db"}
    FirstZones <- Zones
    Edits <- Owners
    MaxCalls = 2
    MaxTime = 1
    MaxChanges = 1
SYMMETRY Sym
SPECIFICATION Spec
INVARIANTS NxDiscovered
CHECK_DEADLOCK FALSE
