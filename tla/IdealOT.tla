------------------------------ MODULE IdealOT ------------------------------
(***************************************************************************)
(* What one oblivious transfer promises: the receiver gets the option it   *)
(* chose, once, or the transfer fails.  Only when the frame on its way to  *)
(* the receiver has been tampered with may it return something else.       *)
(***************************************************************************)
CONSTANTS Option, Bit, Garbage, Pending, Failed

VARIABLES
  m,        \* the sender's options
  choice,   \* the receiver's choice
  tampered, \* has the frame on its way been tampered with
  outcome   \* what the receiver has got so far

vars == <<m, choice, tampered, outcome>>

Init ==
  /\ m \in [Option -> Bit]
  /\ choice \in Option
  /\ tampered = FALSE
  /\ outcome = Pending

Tamper ==
  /\ ~tampered /\ tampered' = TRUE
  /\ UNCHANGED <<m, choice, outcome>>

Deliver ==
  /\ outcome = Pending /\ ~tampered
  /\ outcome' = m[choice]
  /\ UNCHANGED <<m, choice, tampered>>

Mislead ==
  /\ outcome = Pending /\ tampered
  /\ outcome' \in Garbage
  /\ tampered' = FALSE
  /\ UNCHANGED <<m, choice>>

Fail ==
  /\ outcome = Pending
  /\ outcome' = Failed
  /\ tampered' = FALSE
  /\ UNCHANGED <<m, choice>>

Finish == Deliver \/ Mislead \/ Fail

Next == Tamper \/ Finish

Spec == Init /\ [][Next]_vars
FairSpec == Spec /\ WF_vars(Finish)
=============================================================================
