\* Two requests at once on one upload with five mappings.
CONSTANTS
  Mappings = {"good", "other", "incomplete", "wide", "long"}
  Records = {"r1", "r2"}
  RecordOf <- MCRecordOf
  Verdict <- MCVerdict
  Refused = {"incomplete"}
  Valid = "valid"
  Calls = {c1, c2}
  None = None
SPECIFICATION Spec
SYMMETRY Symmetry
INVARIANTS
  ImportedAsShown
  
