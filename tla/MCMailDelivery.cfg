CONSTANTS
  Mails = {m1, m2}
  Varied = m1
  Inputs <- VariedInputs
  Environments <- AllEnvironments
  MaxTries = 2
  MaxCrashes = 1
SPECIFICATION FairSpec
CHECK_DEADLOCK FALSE
INVARIANTS TypeOK DeliveredOnce EnvelopeAdmitted
PROPERTIES ImplementsOutcome EveryRequestAnswered
