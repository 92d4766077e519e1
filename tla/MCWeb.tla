-------------------------------- MODULE MCWeb --------------------------------
(* What the web process keeps by itself: the memo of the screens, the          *)
(* sign-ins, the accounts, and the AI registrator's settings and presses.      *)
(* They share no state, so one of them runs and the others stay where they      *)
(* begin.                                                                      *)
EXTENDS TtlCache, Lockout, AiConfig, AiPresses, Accounts, TLC

MCPatches ==
  {[role |-> "ADMIN"], [role |-> "SALES"], [isActive |-> "yes"], [isActive |-> "no"],
   [dataScope |-> "ALL"], [dataScope |-> "OWN"], [employee |-> "none"], [employee |-> "some"],
   [dataScope |-> "OWN", wide |-> "yes"]}

MCDrafts ==
  {[role |-> "SALES", dataScope |-> "OWN", employee |-> "some", wide |-> "yes"],
   [role |-> "ADMIN", dataScope |-> "ALL", employee |-> "none", wide |-> "yes"]}

VARIABLE part   \* The part that runs.

parts == <<vars, lockoutVars, configVars, pressVars, accountVars>>

MCInit ==
  /\ Init /\ LockoutInit /\ ConfigInit /\ PressInit /\ AccountsInit
  /\ part \in {"memo", "sign-ins", "settings", "presses", "accounts"}

MCNext ==
  /\ \/ part = "memo" /\ Next /\ UNCHANGED <<lockoutVars, configVars, pressVars, accountVars>>
     \/ part = "sign-ins" /\ LockoutNext /\ UNCHANGED <<vars, configVars, pressVars, accountVars>>
     \/ part = "settings" /\ ConfigNext /\ UNCHANGED <<vars, lockoutVars, pressVars, accountVars>>
     \/ part = "presses" /\ PressNext /\ UNCHANGED <<vars, lockoutVars, configVars, accountVars>>
     \/ part = "accounts" /\ AccountsNext /\ UNCHANGED <<vars, lockoutVars, configVars, pressVars>>
  /\ UNCHANGED part

MCSpec == MCInit /\ [][MCNext]_<<parts, part>>

\* Every part keeps its types: the requests between reading and writing, the
\* versions of the setting, the presses a look may show, the rows of accounts.
WebTypeOK == TypeOK /\ LockoutTypeOK /\ ConfigTypeOK /\ PressesTypeOK /\ AccountsTypeOK

\* The same two actors play every part.
MCSymmetry == Permutations(Attempts)
==============================================================================
