-------------------------- MODULE AccountLifecycle --------------------------
(***************************************************************************)
(* What the pool promises about accounts, without clocks, error counters,  *)
(* reasons, points or dirty flags: the state machine of the README         *)
(* ("cooldown/disable state machine ... written to data/state.json").      *)
(*                                                                         *)
(* An account is absent, ready (may be picked), cooling or disabled.       *)
(* saved is what the state file remembers of it: the distinction between   *)
(* ready and cooling passes with time, the one between enabled and         *)
(* disabled does not.  A disabled account leaves that state when an        *)
(* operator enables it, when it is removed, or when the process ends       *)
(* before the file knows; a restart brings back exactly what was saved.    *)
(***************************************************************************)
CONSTANT Accounts

VARIABLES
    phase,   \* what the process holds
    saved    \* what the state file holds

lifeVars == <<phase, saved>>

Phases == {"absent", "ready", "cooling", "disabled"}
Enabled == {"ready", "cooling"}
SavedPhases == {"absent", "enabled", "disabled"}

LifeTypeOK ==
    /\ phase \in [Accounts -> Phases]
    /\ saved \in [Accounts -> SavedPhases]

Nothing == [a \in Accounts |-> "absent"]

\* What the file keeps of a phase.
Kept(p) == IF p \in Enabled THEN "enabled" ELSE p

LifeInit == phase = Nothing /\ saved = Nothing

\* A verdict of the upstream: rest, or stop using the account.
Cool(a) ==
    /\ phase[a] \in Enabled
    /\ phase' = [phase EXCEPT ![a] = "cooling"]
    /\ UNCHANGED saved

Forbid(a) ==
    /\ phase[a] \in Enabled
    /\ phase' = [phase EXCEPT ![a] = "disabled"]
    /\ UNCHANGED saved

\* Deadlines pass, or a balance refresh ends the cooldown of one account.
Recover(S) ==
    /\ \A a \in S : phase[a] = "cooling"
    /\ phase' = [a \in Accounts |-> IF a \in S THEN "ready" ELSE phase[a]]
    /\ UNCHANGED saved

\* The operator enables an account again.
Pardon(a) ==
    /\ phase[a] = "disabled"
    /\ phase' = [phase EXCEPT ![a] = "ready"]
    /\ UNCHANGED saved

Join(a) ==
    /\ phase[a] = "absent"
    /\ phase' = [phase EXCEPT ![a] = "ready"]
    /\ UNCHANGED saved

Save ==
    /\ saved' = [a \in Accounts |-> Kept(phase[a])]
    /\ UNCHANGED phase

\* The process starts from the file.
Restore ==
    /\ phase = Nothing
    /\ phase' \in [Accounts -> Phases]
    /\ \A a \in Accounts : Kept(phase'[a]) = saved[a]
    /\ UNCHANGED saved

\* Accounts of D join, all others are removed, from the file as well or not.
Align(D) ==
    /\ phase' = [a \in Accounts |->
                    IF a \notin D THEN "absent"
                    ELSE IF phase[a] = "absent" THEN "ready" ELSE phase[a]]
    /\ saved' \in {saved, [a \in Accounts |-> Kept(phase'[a])]}

End == phase' = Nothing /\ UNCHANGED saved

LifeNext ==
    \/ \E a \in Accounts : Cool(a) \/ Forbid(a) \/ Pardon(a) \/ Join(a)
    \/ \E S \in SUBSET Accounts : Recover(S) \/ Align(S)
    \/ Save \/ Restore \/ End

LifeSpec == LifeInit /\ [][LifeNext]_lifeVars
=============================================================================
