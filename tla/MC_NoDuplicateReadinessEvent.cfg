CONSTANTS
    MaxGen <- MCMaxGen
    MaxUserOps <- MCMaxUserOps
    MaxFaults <- MCMaxFaults

SPECIFICATION Spec

PROPERTY
    NoDuplicateReadinessEvent
