SPECIFICATION TransfersSpec
CONSTANTS
  FileSizes = {52, 548}
  PayloadMax = 248
  Retries = 10
  MaxFaults = 2
  Faults = {"damage", "clip", "lose", "late", "open", "read", "write"}
  FileChunks = {0, 1, 3}
  Resends = 3
  ZLuck = 1
  Roles = {"send", "recv"}
  ZFaults = {"damage", "lose", "late", "open", "read", "write", "cancel"}
INVARIANTS TransfersTypeOK StoredIsPrefix SuccessIsAgreed CleanTransferIsWhole CompleteReachesTheEnd
PROPERTIES TransfersEnd
