SPECIFICATION Spec
CONSTANTS
    a = a
    b = b
    Users <- MCUsers
    IdentityKeys <- MCIdentityKeys
    DirectoryKeys <- MCDirectoryKeys
    RelayKey <- MCRelayKey
    Relay = Relay
    None = None
    KEY_LEN = 2
    MaxNumbers = 2
    MaxCalls = 1
CHECK_DEADLOCK FALSE
INVARIANTS
    TypeOK
    VerifiedIsTrue
    NumbersAgree
    VerifiedCallsAuthentic
    CallsOpen
