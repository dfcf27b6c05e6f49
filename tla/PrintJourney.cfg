CONSTANTS
  Printers <- MCPrinters
  Offered <- MCOffered
  MaxAttributes = 2
  Operations = {"print", "validate", "create", "send", "cancel", "get-job", "get-jobs", "get-printer", "get-printers", "other"}
  Versions = {"2.0", "0.9"}
  Documents <- MCDocuments
  Database <- MCDatabase
  Configured <- MCConfigured
SPECIFICATION MCSpec
INVARIANTS DeliveredAsSent QueueSpeaksForItself SharedIsReached OfferIsGranted
CHECK_DEADLOCK FALSE
