SPECIFICATION Spec
CONSTANTS
  Queues = {q1, q2, q3}
  TooLong = {q3}
  MaxPrinters = 1
  TTL = 2
  MaxInFlight = 2

PROPERTY StoppedServerLeaves SharedIsFound
