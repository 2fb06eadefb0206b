------------------------------- MODULE MCReader -------------------------------
(* Instances of Reader: three handles, trees of four leaves, pages of one or  *)
(* two events.                                                                *)
EXTENDS Reader

Reg(h, k) == [kind |-> "reg", who |-> h, what |-> k]
Bought(l) == [kind |-> "ticket", who |-> "-", what |-> l]
Sent(t)   == [kind |-> "msg", who |-> "me", what |-> t]

\* The recipient registered before or after this profile, whose handle may
\* hold other keys; another's ticket may come before this profile's.
MCStarts == {<<Reg("me", "me"), Bought("theirs"), Reg("ann", "ann")>>,
             <<Reg("ann", "ann"), Reg("me", "me"), Sent("first")>>,
             <<Reg("me", "other"), Bought("mine"), Empty>>}

===============================================================================
