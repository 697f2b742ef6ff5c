SPECIFICATION Spec
CONSTANTS
  s1 = s1
  s2 = s2
  v2 = v2
  v21 = v21
  failure = failure
  analysis = analysis
  Sessions <- MCSessions
  Components <- MCComponents
  NoComponent = NoComponent
  Assessments <- MCAssessments
  NoAssessment = NoAssessment
  MaxAttempt = 2
SYMMETRY Symmetry
INVARIANTS
  TypeOK
  LogMatchesRow
  LogIsAWalk
  AtMostOneCreator
  AcceptedPayload
PROPERTY
  ImplementsStore
