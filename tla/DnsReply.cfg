SPECIFICATION Spec
CONSTANTS
    Messages <- MCMessages
    Forms <- MCForms
    ZoneRows <- MCZoneRows
    Bodies <- MCBodies
    Upstreams <- MCUpstreams
    Modes <- MCModes
    Ages <- MCAges
    TtlFloor <- MCTtlFloor
    TtlCeiling <- MCTtlCeiling
    NegativeCap <- MCNegativeCap
    Clients <- MCClients
    PtrNames <- MCPtrNames
    MaxRows = 4
INVARIANTS
    RepliesDecode
    FitsTransport
    EdnsHonoured
    HitAgesOnlyTtls
    AuthorityIsRight
    HostNamesFollowRecords
