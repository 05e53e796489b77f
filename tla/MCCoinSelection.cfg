SPECIFICATION Spec
CONSTANTS
  p = p  q = q
  Utxo = {u1, u2, u3, u4}
  Asset = {p, q}
  AdaValue = {1000, 1300, 1500}
  Quantity = {0, 1, 2}
  Request <- Requests
  MaxInputs = 3
  MinBase = 1000
  MinPerPolicy = 150
  EstimatedFee = 500
  InitialFee = 200
  Tolerance = 1
  MaxIterations = 5
  FeeLimit = 177
  ProtoBase = 970
  ProtoPerPolicy = 190
  FeeBase = 168
  FeePerInput = 2
  FeePerPolicy = 2
  WideChange = 1628
  FeeWide = 1
INVARIANTS InputsBounded NoFalseRefusal CoveredIsBuilt FeeConverges TokensStayPut
SYMMETRY Symmetry
CHECK_DEADLOCK FALSE
