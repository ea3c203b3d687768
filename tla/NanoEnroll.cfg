SPECIFICATION Spec
CONSTANTS
    Manifests <- MCManifests
    Parts <- MCParts
    SignatureBytes = 5
    CheckedParts <- MCCheckedParts
    MaxHosts = 2
    MaxFaults = 3
INVARIANTS TypeOK AuthorizedByGenuine PassIsDurable FlowControl
PROPERTIES EnrolmentCompletes
CHECK_DEADLOCK FALSE
