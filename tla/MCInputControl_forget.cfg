SPECIFICATION Spec
CONSTANTS
  Ds5Pads = {"d1"}
  Ns2Pads = {"n1", "n2"}
  None = None
  Boot <- Known
  Commands = {"forgetDs5"}
  Passed <- SomePassed
  MaxIncidents = 1
INVARIANTS
  ForgottenStaysForgotten
