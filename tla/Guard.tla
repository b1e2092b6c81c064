------------------------------- MODULE Guard --------------------------------
(***************************************************************************)
(* SafetyGuard and RiskAssessor (omniord/safety/guard.py): the verdict on  *)
(* an action an agent declares.  An action is abstracted to the table its  *)
(* normalised kind is in ("other" when in none) and to whether its command *)
(* matches a destructive pattern.                                          *)
(***************************************************************************)
Kinds    == {"critical", "moderate", "safe", "other"}
Commands == {"none", "plain", "destructive"}
Action   == [kind : Kinds, command : Commands]
NoAction == [kind |-> "none", command |-> "none"]     \* action_for returned None

\* Mutant: the safe table is consulted before the command is searched.
Assess_SafeFirst(a) ==
  CASE a.kind = "critical"         -> "critical"
    [] a.kind = "safe"             -> "safe"
    [] a.command = "destructive"   -> "critical"
    [] OTHER                       -> "moderate"

Assess(a) ==
  IF a.kind = "critical" \/ a.command = "destructive" THEN "critical"
  ELSE IF a.kind = "safe" THEN "safe" ELSE "moderate"

\* Without an action, or with one that is not critical, nobody is asked.
NeedsConfirmation(a) == a # NoAction /\ Assess(a) = "critical"
=============================================================================
