SPECIFICATION PipelineSpec
CONSTANTS
  Publisher <- MCPublisher
  Kind = {"plain", "malformed", "significant"}
  Malformed = {"malformed"}
  Significant = {"significant", "malformed"}
  QueueCapacity = 1
  BatchSize = 2
  MaxBacklog = 1
  KernelRing = 1
  SensorQueue = 1
  MaxRecorded = 2
  MaxKernel = 2
INVARIANTS
  Accounted
  SourceOrder
  SinkFollowsStream
  CountersAgree
PROPERTIES
  DeliverySpec
CHECK_DEADLOCK FALSE
