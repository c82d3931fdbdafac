\* Every packet, frame and record of the small shapes MCCodecs names: the bounds
\* are in that module.
SPECIFICATION SampleSpec
CONSTANTS
  NULL = NULL
  Failed = Failed
  MAX_LENGTH = 511
  Lengths <- SampleLengths
  Connects <- SampleConnects
  TopicLists <- SampleTopicLists
  Publishes <- SamplePublishes
  Frames <- SampleFrames
  Messages <- SampleMessages
  Rests <- SampleRests
INVARIANTS
  LengthUndone
  PacketsReadable
  PublishUndone
  FrameUndone
  MessageUndone
