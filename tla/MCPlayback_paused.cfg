\* a seek and a pause of a paused video
SPECIFICATION Spec
CONSTANTS MaxCalls = 3 MaxQueue = 2
INVARIANTS PausedStays
