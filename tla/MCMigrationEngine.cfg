CONSTANTS
    p1 = p1
    p2 = p2
    Pods <- MCPods
    ConsoleEnabled = TRUE
    MaxFaults <- MCMaxFaults


SPECIFICATION Spec

PROPERTY
    MigrationConverges
