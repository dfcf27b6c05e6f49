CONSTANTS
  Requests = {r1, r2}
  Terminal = {r2}
  Nobody = Nobody
SPECIFICATION Spec
INVARIANT OwnPrinterUntouched
