CONSTANTS
    Request = {r1, r2}
    Chunk = {x}
    MaxChunks = 1
    c0 = c0
    c1 = c1
    c2 = c2
    Digest <- MCDigest
    BadKey = {bad}
    Sha256 <- MCSha256
    Hazards = {}
SPECIFICATION FairSpec
PROPERTIES
    StoredBlobNeverRewritten
