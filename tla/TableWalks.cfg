CONSTANTS
  Number = {0, 1, 2, 3}
  Name = {a}
  Other = {o}
  MaxKeys = 3
  Tables <- MCTables
SPECIFICATION Spec
INVARIANTS TypeOK ConvertersAgree LostOnlyByJumps RaisesOnlyFor ParametersInPlace SurvivesRoundTrip
PROPERTIES Ends GetsFurther
