CONSTANTS
    Request = {r1, r2, r3}
    Chunk = {x}
    MaxChunks = 2
    c0 = c0
    c1 = c1
    c2 = c2
    Digest <- MCDigest
    BadKey = {bad}
    Sha256 <- MCSha256
    Hazards = {"fault", "cancel"}
SPECIFICATION Spec
SYMMETRY Symmetry
INVARIANTS
    StreamFaithful
    ScratchAccounted
    StoredBlobConserved
    DeletesNeverShareAVictim
