SPECIFICATION Spec
CONSTANTS
  Caller = {a, b, c}
  Nobody = Nobody
  NoReading = NoReading
  NoVram = NoVram
  Ttl = 1
  SmiTimeout = 1
  Deadline = 2
  Backoff = 4
  MaxCancels = 1
  Flaky = {a, b, c}
INVARIANT WaitsOneDeadline
