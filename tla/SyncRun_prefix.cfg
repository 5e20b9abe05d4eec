SPECIFICATION Spec
CONSTANTS
  Proc = {p1, p2}
  NFiles = 2
  Contents = {"c1", "c2"}
  Absent = Absent
  Asserting <- MCAsserting
  Declares <- MCNothing
  Subject <- MCNowhere
  Refers <- MCNowhere
  MaxEdits = 1
INVARIANT ConsumptionIsPrefix
