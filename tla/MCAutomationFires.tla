-------------------------- MODULE MCAutomationFires --------------------------
(* A small instance of AutomationFires: all automations fire into one         *)
(* conversation.                                                              *)
EXTENDS AutomationFires

CONSTANT t1

OneThread == [a \in Automations |-> t1]
==============================================================================
