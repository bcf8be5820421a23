CONSTANTS
  StatusPolls = 2  BME280_SAMPLE_RETRIES = 2  MaxPermits = 2
SPECIFICATION FairSpec
INVARIANTS DriverInv SampleGood
PROPERTIES StopObeyed StartObeyed
