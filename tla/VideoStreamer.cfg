SPECIFICATION Spec
CONSTANTS
  MaxEvents = 2
  MaxFrames = 4
  Duration = 2
  FirstFps = 10
  RedPercents = {0, 5, 20}
  MuxFaults = 1
INVARIANTS
  FpsOfPreviousWindow VisionOfLastFrame SegmentsTile SegmentTimeline
PROPERTIES GrpcSpec
