SPECIFICATION Spec
CONSTANTS
  MaxRequests = 2
  Behaviours = {"oneway", "missing", "suspend", "nested", "user", "other", "late"}
INVARIANTS TypeOK WaitingIsUnderway OutcomeIsServants NestedIsOpen
PROPERTIES ImplementsContract EveryCallAnswered
CHECK_DEADLOCK FALSE
\* The bounds end every behaviour: all requests made and answered.
