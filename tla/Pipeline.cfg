SPECIFICATION FairSpec
CONSTANTS
  NSeries = 5
  NSamples <- MCSamples
  LabelBytes <- MCLabelBytes
  CumBytes <- MCCumBytes
  CfgMaxBatchBytes = 10
  CfgWriterConcurrency = 2
  DryRun = FALSE
  SeriesBuf = 1
INVARIANTS TypeOK SuccessIsComplete NoSampleTwice BatchWithinBudget ByteCountIsReal StatsAgree NoCircularWait
PROPERTIES NothingAfterReturn ImplementsTransfer EveryStepCounts Terminates
