------------------------------ MODULE MCOutbox ------------------------------
(* What must end, for TLC: the jobs, and the deliveries of the alert rules.*)
(* They share no state here, so a behaviour is one of the part its initial *)
(* state picks.                                                            *)
EXTENDS MCJobEngine, Outbox

VARIABLE part

OwedInit ==
  /\ part \in {"jobs", "outbox"}
  /\ Init /\ OutboxInit
  /\ \A r \in Rules :   \* a rule of each sort, one of them quiet half the day
       rules[r].kind = "job_failed" <=> rules[r].quiet = <<>>
  /\ part # "outbox" => \A r \in Rules : rules[r].kind = "job_failed"

OwedNext ==
  /\ UNCHANGED part
  /\ \/ part = "jobs" /\ Next /\ UNCHANGED outboxVars
     \/ part = "outbox" /\ OutboxNext /\ UNCHANGED vars

\* The fairness of each part, while it is the one that runs.
OwedFairness ==
  /\ \A j \in Jobs :
       /\ WF_vars(part = "jobs" /\ \E o \in Terminal : RunnerReturns(j, o))
       /\ WF_vars(part = "jobs" /\ Finish(j))
  /\ WF_outboxVars(part = "outbox" /\ DispatchPass)
  /\ WF_outboxVars(part = "outbox" /\ \E d \in listed : SubmitListed(d))
  /\ \A d \in 1..MaxRows :
       WF_outboxVars(part = "outbox" /\ (RunDelivery(d) \/ RecordDelivered(d)))

OwedSpec == OwedInit /\ [][OwedNext]_<<part, vars, outboxVars>> /\ OwedFairness
=============================================================================
