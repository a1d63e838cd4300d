SPECIFICATION ZoneFairSpec
CONSTANTS
    web = web
    Subjects = {web}
    Labels = {"trusted", "untrusted"}
    Requests = {"r1"}
    Tools = {"ctl"}
    HandEdits <- Edits
    Absent = Absent
    Torn = Torn
    SafeDests = {}
    Internal = {}
    TorPorts = {}
    MaxZoneOps = 3
INVARIANT PersistIsWhole
 
