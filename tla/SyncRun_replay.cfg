SPECIFICATION Spec
CONSTANTS
  Proc = {p1}
  NFiles = 1
  Contents = {"c1", "c2"}
  Absent = Absent
  Asserting <- MCAsserting
  Declares <- MCNothing
  Subject <- MCNowhere
  Refers <- MCNowhere
  MaxEdits = 2
PROPERTY EventuallyConsumed
