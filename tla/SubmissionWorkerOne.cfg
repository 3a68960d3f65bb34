SPECIFICATION Spec
CONSTANTS
  Alphas = {a1}
  NoAlpha = NoAlpha
  MaxOps = 3
  MaxJobsPerTick = 1
  MaxReconcile = 2
  MaxConfirm = 2
  Capability = {TRUE, FALSE}
  MaxCrashes = 2
  MaxEnqueues = 1
  Elsewhere = {a1}
INVARIANTS
  TypeOK
  AtMostOneEffectiveSubmission
  ConfirmedIsSubmitted
  RejectedHasNoOpenPost
PROPERTIES
  JournalSettles
  ImplementsSubmissionOnce
