------------------------- MODULE MCWorkOnSession -------------------------
(* Instances of WorkOnSession for TLC. *)
EXTENDS WorkOnSession, TLC

CONSTANTS p1, p2, alice, bob

MCUser == (p1 :> alice @@ p2 :> bob)
MCSoloUser == [p \in Procs |-> alice]

Default(i) == [interactive |-> i, starter |-> TRUE, resumer |-> TRUE,
               explicit |-> FALSE]

\* A headless caller (the Vault UI) and one at a terminal.
MCBothModes == {Default(TRUE), Default(FALSE)}

\* Every launch configuration there is.
MCAllInvocations == [interactive : BOOLEAN, starter : BOOLEAN,
                     resumer : BOOLEAN, explicit : BOOLEAN]
==========================================================================
