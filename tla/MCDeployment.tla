---------------------------- MODULE MCDeployment ----------------------------
(***************************************************************************)
(* A process with a complete environment and one whose DEV_MODE only some  *)
(* of the checks understand; calls that want the same account, and two     *)
(* that name each other as parent.                                         *)
(***************************************************************************)
EXTENDS DbAccounts

MCEnv == [a |-> [isolation |-> "serializable", brokers |-> TRUE, dev_mode |-> "",
                 secret |-> TRUE],
          b |-> [isolation |-> "serializable", brokers |-> FALSE, dev_mode |-> "true",
                 secret |-> FALSE]]
MCProcesses == DOMAIN MCEnv

Define(account_id, parent_id, caller) ==
    [account_id |-> account_id, parent_id |-> parent_id, valid |-> TRUE,
     caller |-> caller]
MCDefinition == [root  |-> Define("x", None, "somebody"),
                 under |-> Define("x", "y", "orchestrator"),
                 above |-> Define("y", "x", "orchestrator")]
MCCalls == DOMAIN MCDefinition
=============================================================================
