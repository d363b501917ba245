CONSTANTS
    k1 = k1
    k2 = k2
    NoSignature = NoSignature
    Absent = Absent
    NoJournal = NoJournal
    Versions <- MCVersions
    Offers <- MCOffers
    Keyring <- MCKeyring
    Now = 1
    MaxCrashes = 2
    MaxFaults = 1
    MaxTampers = 1
SPECIFICATION FairSpec
INVARIANTS
    TypeOK
    SafetyNet
    ReportsWorking
PROPERTIES
    WorkingVersionReturns
