SPECIFICATION FairSpec
CONSTANTS
  MaxFrames = 2
  MaxFailures = 1
  MaxRequests = 5
PROPERTY RemainsAreSent
