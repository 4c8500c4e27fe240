\* The profiling main with three iterations (10, 11, 12) standing for 190.
CONSTANTS
  Lo = 10
  Hi = 13
SPECIFICATION Spec
INVARIANTS
  TypeOK
  MainOutlivesQueries
PROPERTIES
  Terminates
