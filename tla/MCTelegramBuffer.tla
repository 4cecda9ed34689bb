--------------------------- MODULE MCTelegramBuffer ---------------------------
(* Instances of TelegramBuffer for TLC: headers of four bytes, two of them the  *)
(* signature.                                                                  *)
EXTENDS TelegramBuffer, TLC

CONSTANTS t1, t2, t3, noise

Sizes == t1 :> 2 @@ t2 :> 3 @@ t3 :> 1

\* A client whose telegrams are mixed with noise, and one that follows it.
TwoClients == <<(<<t1, noise, t2, t3>>), (<<noise, t3, t1, t2>>)>>

OneClient == <<(<<t1, t2>>)>>
===============================================================================
