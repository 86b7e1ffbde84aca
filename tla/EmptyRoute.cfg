CONSTANTS
  Claims = {"accept", "authz"}
  Contractual = {"accept"}
  ByRisk = {}
  HumanOnly = {}
  Forecast = {"authz"}
  Specs = {"unit"}
  Judgment = {}
  Dominated = {}
  Severe = {}
  ProtectedFiles = {}
  Human = "human"
  Files = {"api"}
  Contents = {0, 1}
  Baseline = 0
  Deepest = 3
  MaxPolicy = 0
  MaxEvidence = 2
  Procs = {p1}
  RaisedBy <- MCRaisedBy
  Supplies <- MCSupplies
  Level <- MCLevel
  Rank <- MCLevel
  None = None
SPECIFICATION Spec
PROPERTIES ClaimKeepsVerifier
