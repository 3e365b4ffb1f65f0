SPECIFICATION AllSpec
CONSTANTS
  None = None
  Requests = {p1}
  k1 = k1
  Keys = {k1}
  Contents <- FilledIn
  Authors = {h1, h2}
  Tasks = {v1, v2}
  MaxChanges = 3
  Apps = {a1, a2}
  Diagnosers = {}
  Stoppers = {s1}
  Monitor = Monitor
  Threshold = 2
  CountCap = 2
  MaxFaults = 0
  MaxChurn = 1
SYMMETRY AppSymmetry
INVARIANTS
  CountsAreReal
  AdmissionTypeOK
  ApprovedHasAuthor
  ApprovedAsSubmitted
  LocalWasCertified
