--------------------------- MODULE MCReleaseMesh ---------------------------
(***************************************************************************)
(* Instances of the running system.  The configurations differ in how many *)
(* faults of which kind may happen.                                        *)
(***************************************************************************)
EXTENDS ReleaseMesh

CONSTANTS w1, w2, r1, contract, api,
          Crashes, ApiCrashes, LockLosses, Leases, CallFailures, Enqueues, RedisLosses

OneTest  == {contract}
TwoTests == {contract, api}
OneTestRegistry == <<contract>>
TwoTestRegistry == <<contract, api>>

MCAssessments == [attempt : Attempts, outcome : GateVerdicts \cup {"failure"}]

MCBudget ==
  [kind \in FaultKinds |->
     CASE kind = "crash"    -> Crashes
       [] kind = "apiCrash" -> ApiCrashes
       [] kind = "lockLoss" -> LockLosses
       [] kind = "lease"    -> Leases
       [] kind = "call"     -> CallFailures
       [] kind = "enqueue"  -> Enqueues
       [] kind = "redis"    -> RedisLosses]
=============================================================================
