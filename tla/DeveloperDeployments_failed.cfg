SPECIFICATION Spec
CONSTANTS
    Revs = {r1, r2}
    Manifests = {m1, m2}
    Requests = {q1}
    None = None
    MaxDeployments = 2
    MaxMishaps = 1
SYMMETRY DeploymentSymmetry
INVARIANTS
    FailedIsInactive
