------------------------------ MODULE MCCommand -----------------------------
(* Instances of CommandRuntime that TLC checks: forced phases to both axes with *)
(* a legacy mode change whose caller waits; a command that is posted twice.     *)
EXTENDS CommandRuntime, TLC
CONSTANTS a, b, m, r1, r2, r3, r4

McPayload == (a :> "EW_GREEN") @@ (b :> "NS_GREEN") @@ (m :> "PREEMPTION_ENABLED")
McCmdOf == (r1 :> a) @@ (r2 :> b) @@ (r3 :> m) @@ (r4 :> a)
McGroups == {{r1, r2, r3}, {r1, r2, r4}}
=============================================================================
