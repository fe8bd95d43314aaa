---------------------------- MODULE MCIdleLogout ----------------------------
(* Small instances of IdleLogout: the preferences a user can save.         *)
EXTENDS IdleLogout

Pref(enabled, notify) ==
  [enabled |-> enabled, timeout |-> CHOOSE n \in Timeouts : TRUE, notify |-> notify]

(* What the panel sends for notifications on, automatic logout off and on, *)
(* and what a request that asks for both sends.                            *)
AllChoices == {Pref(TRUE, FALSE), Pref(FALSE, FALSE), Pref(TRUE, TRUE)}

NoChoice == {}
=============================================================================
