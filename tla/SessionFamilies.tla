-------------------------- MODULE SessionFamilies --------------------------
(***************************************************************************)
(* What the session operations promise, whatever rows, requests and        *)
(* failures are behind them.  A family is the session of one login on one  *)
(* device: it is opened once, by one user; once closed it never opens      *)
(* again, however many of its tokens are presented; and no step closes     *)
(* sessions of two users.                                                  *)
(***************************************************************************)
CONSTANTS User, Family, None

VARIABLES status, holder

Init ==
  /\ status = [f \in Family |-> "unused"]
  /\ holder = [f \in Family |-> None]

Open(f, u) ==
  /\ status[f] = "unused"
  /\ status' = [status EXCEPT ![f] = "open"]
  /\ holder' = [holder EXCEPT ![f] = u]

Close(u, closing) ==
  /\ \A f \in closing : status[f] = "open" /\ holder[f] = u
  /\ status' = [f \in Family |-> IF f \in closing THEN "closed" ELSE status[f]]
  /\ UNCHANGED holder

Next == \E u \in User :
  \/ \E f \in Family : Open(f, u)
  \/ \E closing \in SUBSET Family : Close(u, closing)

Spec == Init /\ [][Next]_<<status, holder>>
=============================================================================
