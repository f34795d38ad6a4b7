SPECIFICATION FairPresenceSpec
CONSTANTS
    pc1 = pc1
    pc2 = pc2
    phone1 = phone1
    relay1 = relay1
    relay2 = relay2
    NoInstance = NoInstance
    PcSockets <- PcTwice
    Phones <- OnePhone
    Instances <- TwoRelays
    Deployments <- LoneAndShared
CHECK_DEADLOCK FALSE
INVARIANTS
    PhonesAgree
PROPERTIES
    PhonesFollow
    HeartbeatRepairs
    AbsenceNoticed
