SPECIFICATION Spec
CONSTANTS
    CharMax = 11
    WordSize = 20000
    MaxSent = 12
    MaxPings = 2
    MaxFlight = 3
    MaxFaults = 2
    Absent = Absent
CHECK_DEADLOCK FALSE
INVARIANTS
    InOrderPassUnlessMax
    AcceptedAreDue
    StartsAgree
