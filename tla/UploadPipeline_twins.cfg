CONSTANTS
    u1 = u1  u2 = u2  j1 = j1  j2 = j2  j3 = j3
    r1 = r1  r2 = r2  w1 = w1  w2 = w2  h1 = h1
    NoJob = NoJob  NoUpload = NoUpload
    HashOf <- SameHash
    Uploads = {u1, u2}
    Jobs = {j1, j2, j3}
    Requests = {r1, r2}
    Workers = {w1}
    Allowed <- AllOperations
    Faults = {"publish_ack", "fail_write"}
SPECIFICATION Spec
SYMMETRY UploadSymmetry
PROPERTY ImplementsLifecycle
