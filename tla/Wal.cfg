CONSTANTS
    k1 = k1  k2 = k2  v1 = v1
    Key <- Keys
    KeySize <- KeySizes
    Value = {v1}
    NoRecord = NoRecord
    MaxLSN = 2
    MaxRefusals = 2
    MaxLives = 2
SPECIFICATION Spec
INVARIANTS TypeOK AckedInFile RecordsInOrder HeadCoversLife
PROPERTIES AppendOnly
CHECK_DEADLOCK FALSE
