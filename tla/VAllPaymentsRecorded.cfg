CONSTANTS
  Admin = {a1}
  Handler = {h1}
  Amount = 3
SPECIFICATION Spec
INVARIANT AllPaymentsRecorded
