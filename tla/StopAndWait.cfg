\* I/O errors, leftovers of another transfer, and a file one chunk too long
\* for the sequence numbers: safety, and the end of both calls.
CONSTANTS
    a = a
    b = b
    t = t
    u = u
    Chunk = {a, b}
    Files <- MCFiles
    NoFile = NoFile
    NoPayload = NoPayload
    Tids = {t, u}
    Tid = t
    StraysToReceiver <- MCStraysToReceiver
    StraysToSender <- MCStraysToSender
    MaxRetries = 1
    MaxSeq = 2
    IoErrors = TRUE
SPECIFICATION FairSpec
INVARIANTS
    TypeOK
    SenderSuccessMeansDelivered
    WrittenOnceInOrder
    AcknowledgedIsKept
    WindowOfOne
    PeerIsTheSender
    NoTempLeft
PROPERTIES
    Delivers
    CancelBeforeFinIsFinal
    Termination
