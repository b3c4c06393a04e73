\* Certificates, grades and invocations, one at a time, with one failure of the network.
SPECIFICATION Spec
CONSTANTS
    MaxFaults = 1
    MaxPresented = 3
    MaxDefects = 2
    MaxOffered = 2
    MaxLines = 2
INVARIANTS
    AuditsTypeOK
    TrustSound
    GradesConsistent
    ProfilesHonest
    InvocationsTrue
\* A scan that is judged stops.
CHECK_DEADLOCK FALSE
