SPECIFICATION MCSpec
CONSTANTS
    Sources = {s1}
    SourceFormat <- MCSourceFormat
    Clients = {c1}
    Names = {n1}
    Definitions <- MCDefinitions
    Accepts <- MCAccepts
    Processors = {"p1", "p2"}
    Size <- MCSize
    KeyRings <- MCKeyRings
    Ttl = 1
    MaxTime = 2
    MaxPresets = 2
    MaxLinks = 1
INVARIANTS LinksWorkUntilTheyExpire DownloadsAreWhole
