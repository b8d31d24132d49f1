SPECIFICATION FairSpec
CONSTANTS
  MaxFrames = 3
  MaxFailures = 2
  MaxRequests = 7
INVARIANTS
  TypeOK
  NoGap
  InOrder
  OneUpload
  StartsComplete
  EndsComplete
  QueueIsRemainder
  FlushedAtDisconnect
PROPERTIES
  Upload
  DisconnectClosesUpload
  RefusedFramesAreRetried
