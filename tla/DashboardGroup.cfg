CONSTANTS
    Pid = {1, 2, 3}
    Session = {1}
    Parent <- PipelineParent
    Leader <- PipelineLeader
    PortOf <- PipelinePortOf
SPECIFICATION Spec
INVARIANT OnlyAskedKilled
CHECK_DEADLOCK FALSE
