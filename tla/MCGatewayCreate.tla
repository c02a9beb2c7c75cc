-------------------------- MODULE MCGatewayCreate --------------------------
(* Two requests of one key, which ask for one of four creates: a local one; *)
(* a remote one without the replay contract, queried meanwhile, or under   *)
(* it, each with every fault; or a remote one without it that is cancelled  *)
(* and killed only and runs fairly.                                        *)
EXTENDS GatewayCreate

CONSTANTS client1, client2, reader1

LocalCreate == [kind |-> "local", safe |-> FALSE, faults |-> {"crash", "cancel", "orphan"},
                readers |-> {}]
UnsafeCreate == [kind |-> "remote", safe |-> FALSE, faults |-> Fault, readers |-> Reader]
SafeCreate == [kind |-> "remote", safe |-> TRUE, faults |-> Fault, readers |-> {}]
FairCreate == [kind |-> "remote", safe |-> FALSE, faults |-> {"crash", "cancel"}, readers |-> {}]

Settings == {LocalCreate, UnsafeCreate, SafeCreate, FairCreate}

MCSpec == Spec /\ (setting = FairCreate => Fairness)

\* No key of a create that runs fairly answers "in progress" for ever.
FairClaimEnds == setting = FairCreate => ClaimEnds
=============================================================================
