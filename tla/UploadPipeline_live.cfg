CONSTANTS
    u1 = u1  u2 = u2  j1 = j1  j2 = j2  j3 = j3
    r1 = r1  r2 = r2  w1 = w1  w2 = w2  h1 = h1
    NoJob = NoJob  NoUpload = NoUpload
    HashOf <- SameHash
    Uploads = {u1}
    Jobs = {j1, j2}
    Requests = {r1}
    Workers = {w1}
    Allowed <- AllOperations
    Faults = {}
SPECIFICATION FairSpec
PROPERTIES ProcessingEnds UploadingEnds
