SPECIFICATION DirectorySpec
CONSTANTS
    Writers = {w1, w2}
    Dirs = {d1, d2}
    Nobody = Nobody
    Outsider = Outsider
    Junk = Junk
    FaultPoints <- KindsOfFaults
    MaxMoves = 2
    MaxLosses = 1
    Tokens = {t1, t2}
INVARIANTS ReportsStayWhole
PROPERTIES RecordedWhereLooked ImplementsInventory EveryManifestCallEnds NothingIsReplaced
