SPECIFICATION Spec
CONSTANTS
    Jobs = {photo, damaged, video}
    Images = {photo, damaged}
    Sound = {photo, video}
    Workers = {w1, w2}
    NoWorker = NoWorker
    MaxAttempts <- MCMaxAttempts
INVARIANTS SoundIsNotRejected
SYMMETRY Symmetric
CHECK_DEADLOCK FALSE
