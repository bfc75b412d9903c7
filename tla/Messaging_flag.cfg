SPECIFICATION Spec
CONSTANTS
    d1 = d1
    d2 = d2
    f1 = f1
    f2 = f2
    Devices <- OneDevice
    Flights <- TwoFlights
    MaxEntries = 2
    MaxClicks = 3
    MaxFaults = 2
    MaxDeletes = 1
INVARIANT FlagCoversFlights
CHECK_DEADLOCK FALSE
