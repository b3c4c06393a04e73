\* Every probe but the enumeration, one at a time, with two failures of the network.
SPECIFICATION Spec
CONSTANTS
    MaxFaults = 2
    MaxTickets = 2
    ResponseParts = 2
    Legacy <- MCLegacy
    Versions = {1, 2, 3, 4}
    MaxTwice = 1
    MaxBlock = 4
    TableSizes = {1, 3}
    MaxReferrals = 2
    MaxGlueless = 1
    MaxServers = 2
    MaxZones = 2
    Salts <- MCSalts
    MaxOwners = 2
    MaxRecords = 4
INVARIANTS
    ProbesTypeOK
    HandshakesInStep
    VerdictsTrue
    QuicVerdictsTrue
    DecodedAsWritten
    QueriesBounded
    ValidatedMeansSigned
    DenialExact
\* A probe that has concluded stops.
CHECK_DEADLOCK FALSE
