SPECIFICATION Spec
CONSTANTS
    Null = Null
    Bridge = bridge
    Clients = {bridge, shell}
    Hellos <- MCHellos
    Methods = {"export", "set_params", "get_operation", "update_build_brief"}
    Formats = {"3mf"}
    Slicer = "3mf"
    Keep = 1
    MaxBuilds = 2
    MaxNonces = 1
INVARIANTS ExportsAuthorized 
 
CHECK_DEADLOCK FALSE
