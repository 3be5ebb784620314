------------------------- MODULE MultisigLifecycle -------------------------
(***************************************************************************)
(* What a ledger promises about multisig transactions, seen from outside   *)
(* and across restarts: a token names one proposal for ever, a concluded   *)
(* transaction stays concluded, and the proposal takes effect at most      *)
(* once, no later than its conclusion.                                     *)
(*                                                                         *)
(* A step is one durable commit.  A block resolves many transactions at    *)
(* once, so a step may move any of them.                                   *)
(***************************************************************************)
EXTENDS Naturals

CONSTANTS Tokens, Proposals, Unused

VARIABLES proposal,   \* proposal[t]: what t stands for, Unused before
          concluded,  \* concluded[t]: executed, withdrawn or expired
          effects     \* effects[t]: how often the proposal took effect

vars == <<proposal, concluded, effects>>

Init ==
    /\ proposal = [t \in Tokens |-> Unused]
    /\ concluded = [t \in Tokens |-> FALSE]
    /\ effects = [t \in Tokens |-> 0]

Keeps(t) ==
    /\ proposal'[t] = proposal[t]
    /\ concluded'[t] = concluded[t]
    /\ effects'[t] = effects[t]

Propose(t) ==
    /\ proposal[t] = Unused
    /\ proposal'[t] \in Proposals
    /\ concluded'[t] = FALSE
    /\ effects'[t] = 0

\* Concluded with its effect (executed) or without (withdrawn, expired),
\* possibly in the step that also proposed it.
ConcludeWith(t, n) ==
    /\ ~concluded[t]
    /\ proposal'[t] \in Proposals
    /\ proposal[t] # Unused => proposal'[t] = proposal[t]
    /\ concluded'[t] = TRUE
    /\ effects[t] = 0
    /\ effects'[t] = n

Commit ==
    /\ DOMAIN proposal' = Tokens
    /\ DOMAIN concluded' = Tokens
    /\ DOMAIN effects' = Tokens
    /\ \A t \in Tokens :
          Keeps(t) \/ Propose(t) \/ ConcludeWith(t, 0) \/ ConcludeWith(t, 1)

Spec == Init /\ [][Commit]_vars
=============================================================================
