CONSTANTS
  Claims = {"accept", "human acceptance"}
  Contractual = {"accept"}
  ByRisk = {"human acceptance"}
  HumanOnly = {"human acceptance"}
  Forecast = {}
  Specs = {"unit"}
  Judgment = {}
  Dominated = {}
  Severe = {"human acceptance"}
  ProtectedFiles = {}
  Human = "human"
  Files = {"api"}
  Contents = {0, 1}
  Baseline = 0
  Deepest = 3
  MaxPolicy = 0
  MaxEvidence = 3
  Procs = {p1}
  RaisedBy <- MCRaisedBy
  Supplies <- MCSupplies
  Level <- MCLevel
  Rank <- MCLevel
  None = None
SPECIFICATION Spec
INVARIANTS HumanIsAsked
