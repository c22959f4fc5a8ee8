SPECIFICATION FairSpec
CONSTANTS
    Jobs = {photo, damaged, video}
    Images = {photo, damaged}
    Sound = {photo, video}
    Workers = {w1, w2}
    NoWorker = NoWorker
    MaxAttempts <- MCMaxAttempts
INVARIANTS ImagesAreJudged SucceededIsJudged
PROPERTIES RejectedIsFinal UploadsAreSettled
CHECK_DEADLOCK FALSE
