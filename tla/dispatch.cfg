SPECIFICATION Spec
CONSTANT Requests <- MCRequests
INVARIANTS
  TypeOK
  OneHandler
  
  ActsOnCompleteRequests
  RevokedOnlyOnFault
  AnswersAreTrue
  DeliveredWhole
  IdentityTold
PROPERTY Answered
