CONSTANTS
    Request = {r1, r2, r3}
    Chunk = {x}
    MaxChunks = 1
    c0 = c0
    c1 = c1
    Digest = {c0, c1}
    BadKey = {bad}
    Sha256 <- MCSha256
    Hazards = {"fault", "cancel", "foreign"}
SPECIFICATION ServiceSpec
SYMMETRY Symmetry
INVARIANTS
    ServiceTypeOK
    DeletionLogIsTrue
    CompletedDownloadIsWhole
    NotFoundIsEager
