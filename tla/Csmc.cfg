SPECIFICATION LiveSpec
CONSTANTS
  NumStudents = 3
  NumTutors = 2
  Chairs = 1
  Help = 2
INVARIANTS OnePlace NobodyForgotten ExactHelp
PROPERTIES ImplementsCenter Termination
