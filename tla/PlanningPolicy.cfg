\* One contact: what the policy promises when it is planned holds when it is sent.
SPECIFICATION Spec
CONSTANTS
  Gap = 2
  Rules <- SomeRules
  Tasks <- AllTasks
  Snoozes <- TwoSnoozes
  MaxRules = 2
  Horizon = 6
  Quiet <- QuietHours
  QuietSearch = 3
  Grace = 1
  MaxDeferral = 4
INVARIANTS TypeOK QuietIsKept DeferralStopsAtEvent DeliveryAgrees ExplicitIsHeard
