----------------------------- MODULE MCInputPath -----------------------------
(* InputPath on a small instance: one key whose code the key map may change, *)
(* one whose code it may not.                                                *)
EXTENDS InputPath

TwoKeys == {"k", "m"}
TwoCodes == [key \in TwoKeys |-> IF key = "k" THEN {"KEY_GRAVE", "KEY_102ND"}
                                              ELSE {"KEY_M"}]
==============================================================================
