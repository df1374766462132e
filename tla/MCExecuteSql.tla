----------------------------- MODULE MCExecuteSql -----------------------------
(* One statement and its call.  Walking a statement touches nothing another *)
(* call or process could see (validate.go: Check has no state but its own), *)
(* so the inputs are walked while the daemon is at rest, and the call comes *)
(* with the input that has nothing to walk.                                 *)
EXTENDS MCGateway, MCCteScope

Served == input = <<>> /\ phase \in {"accepted", "refused"}

MCInit == Init /\ WalkInit
MCNext == \/ WalkNext /\ UNCHANGED vars
          \/ Served /\ Next /\ UNCHANGED walkVars
MCSpec == /\ MCInit /\ [][MCNext]_<<vars, walkVars>>
          /\ \A c \in Call : WF_vars(CallStep(c))
=============================================================================
