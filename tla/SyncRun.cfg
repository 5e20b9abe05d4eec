SPECIFICATION Spec
CONSTANTS
  Proc = {p1, p2}
  NFiles = 3
  Contents = {"c1", "c2"}
  Absent = Absent
  Asserting <- MCAsserting
  Declares <- MCDeclares
  Subject <- MCSubject
  Refers <- MCRefers
  MaxEdits = 1
INVARIANTS TypeOK LedgerUnique CursorCovered ConsumedDriftHasCase OneCasePerFingerprint
PROPERTIES ConsumptionGrows
SYMMETRY Symmetry
