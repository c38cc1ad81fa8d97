SPECIFICATION Spec
CONSTANTS
    gpu_loop = gpu_loop
    cpu_loop = cpu_loop
    opc_ua_client_write = opc_ua_client_write
    Threads = {gpu_loop, cpu_loop, opc_ua_client_write}
    NoLabel = NoLabel
    MaxSpans = 2
SYMMETRY ThreadSymmetry
INVARIANTS
    NoStartLoggedTwice
    RowBeginsWithLabel
    OwnStartTrueRow
