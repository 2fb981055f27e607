------------------------------ MODULE MCFlow ------------------------------
(* InterpFlow on programs that keep to every restriction, four constructs   *)
(* deep, and on programs that keep to none, three deep.                     *)
EXTENDS InterpFlow, TLC

BothKinds == ({} :> 4) @@ (AllHazards :> 3)
LoopReturns == {"loopReturn"} :> 4
=============================================================================
