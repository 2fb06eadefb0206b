------------------------------ MODULE MCTxPolicy ------------------------------
(* TxPolicy at prices around the points where the rounding changes step, the  *)
(* ticket caps the bound (above 100) and refuses (above 136), and at a price  *)
(* of L1 data no ticket covers.                                               *)
EXTENDS TxPolicy

MCKinds == {"publish", "register"}
MCGas == [publish |-> 10, register |-> 3]
MCPrices == [l1 : {7}, l2 : {0, 1, 66} \cup 90..105 \cup 120..140, l1_data : {0, 66, 67, 700}]
===============================================================================
