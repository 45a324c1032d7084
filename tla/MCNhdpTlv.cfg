\* Three extension types, up to three domains (NHDP_MAXIMUM_DOMAINS is 4 in
\* the daemon; three already fill a second willingness byte), buffers sized
\* for three domains, receiver configured like the sender.
CONSTANTS
    Exts = {0, 1, 2}
    MaxDomains = 3
    Willingness = {0, 6, 15}
    WillTlvSize = 2
    MprTlvSize = 1
    MprTypesSize = 3
    SameDomains = TRUE
SPECIFICATION Spec
INVARIANTS
    TypeOK
    WillingnessRoundTrip
    MprRoundTrip
