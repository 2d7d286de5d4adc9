SPECIFICATION Spec
CONSTANTS
  NumStudents = 3
  NumTutors = 1
  Chairs = 3
  Help = 2
PROPERTIES PicksHighest
