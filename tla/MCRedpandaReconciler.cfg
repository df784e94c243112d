CONSTANTS
    MaxGen <- MCMaxGen
    MaxUserOps <- MCMaxUserOps
    MaxFaults <- MCMaxFaults

SPECIFICATION Spec

INVARIANT
    TypeOK
    ReleaseRequiresRepository
    StatusTruthful

PROPERTY
    FinalizerRemovalSafe
    DeletionCompletes
    ReleaseConverges
