SPECIFICATION FairSpec
CONSTANTS
    Controllers = {c1}
    Orc = orc
    LivenessTTL = 4
    LivenessStale = 2
    StatusStale = 2
    MaxOutages = 2
    MaxTerms = 1
CHECK_DEADLOCK FALSE
PROPERTIES LiveSpared RegistrationKept DeadReconciled StaysRegistered
