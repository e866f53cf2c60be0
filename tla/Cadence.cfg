\* The constants of schedule.rs, in seconds.
CONSTANTS
  MinInterval = 900
  DefaultInterval = 1800
  MaxInterval = 21600
  MaxPublisher = 604800
  DocumentTtls = {0, 7200, 43200, 1209600}
  FailureBound = 6
SPECIFICATION Spec
INVARIANT OnlyPublisherExceedsCeiling
PROPERTIES
  BackoffGrows
  DriftReachesBounds
