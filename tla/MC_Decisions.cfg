SPECIFICATION Spec
CONSTANTS
    NsecZones <- MCNsecZones
    NsecQueries <- MCNsecQueries
    Nsec3Zones <- MCNsec3Zones
    Nsec3Queries <- MCNsec3Queries
    Hashes <- MCHashes
    Word = 16
    Skew = 2
    CacheConfigs <- MCCacheConfigs
    Messages <- MCMessages
    Nat64Prefixes <- MCNat64Prefixes
    V4Addresses <- MCV4Addresses
INVARIANTS
    DenialIsExact
    SignatureWindow
    TtlIsHonest
    Nat64RoundTrip
CHECK_DEADLOCK FALSE
