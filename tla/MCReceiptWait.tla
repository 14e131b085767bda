--------------------------- MODULE MCReceiptWait ---------------------------
(* Timelines of a few ticks for ReceiptWait: one checkpoint the hook window *)
(* covers and one at the give-up deadline, as the last of the code's five.  *)
EXTENDS ReceiptWait

TwoCheckpoints == <<1, 3>>
ShortCheckpoints == <<1, 2>>
=============================================================================
