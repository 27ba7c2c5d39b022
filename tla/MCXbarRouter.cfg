SPECIFICATION Spec
CONSTANTS
    total_nodes = 4
    in_buffer_limit = 1
    out_buffer_limit = 1
    Backlog = 2
    InNodes <- MC_InNodes
    OutNodes <- MC_OutNodes
    Asking <- MC_Asking
    Data <- MC_Data
    Sender <- MC_Sender
INVARIANTS
    RightPort
PROPERTIES
    AdvanceIsTheLoop
    ImplementsChannels
