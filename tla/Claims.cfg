CONSTANTS
  Claims = {"accept", "authz"}
  Contractual = {"accept"}
  ByRisk = {}
  HumanOnly = {}
  Forecast = {"authz"}
  Specs = {"unit", "property"}
  Judgment = {"property"}
  Dominated = {"authz"}
  Severe = {}
  ProtectedFiles = {}
  Human = "human"
  Files = {"api"}
  Contents = {0, 1}
  Baseline = 0
  Deepest = 2
  MaxPolicy = 0
  MaxEvidence = 2
  Procs = {p1, p2}
  RaisedBy <- MCRaisedBy
  Supplies <- MCSupplies
  Level <- MCLevel
  Rank <- MCLevel
  None = None
  Tasks = {"t"}
  TreeFiles = {"f"}
  Inputs <- MCInputs
  TreeContents = {0, 1}
  Original = 0
  MaxHistory = 2
SPECIFICATION MCSpec
SYMMETRY MCSymmetry
INVARIANTS TypesOK
PROPERTIES RouteOnlyDeepens ObligationsOnlyWiden CompletedOnProvenInputs RefutedStands  CompletedInPrimary
