------------------------ MODULE MCAccountLifecycle ------------------------
(* Small instances of AccountLifecycle for TLC.                             *)
EXTENDS AccountLifecycle, TLC

CONSTANTS t1, t2, a, b

(* One tab with two flows, an abandoned sign-out and two crashes, or two   *)
(* tabs with two flows.  A temporal property admits no symmetry, so one tab *)
(* stands for the other.                                                    *)
Starts == [o \in SUBSET Tab |-> IF o \in {Tab, {t1}} THEN 2 ELSE 0]

Abandons == [o \in SUBSET Tab |-> IF o = {t1} THEN 1 ELSE 0]

Reloads == [o \in SUBSET Tab |-> IF o = {t1} THEN 2 ELSE 0]

(* Two tabs, longer, without crashes.                                      *)
ManyStarts == [o \in SUBSET Tab |-> IF o = Tab THEN 4 ELSE 0]

Nothing == [o \in SUBSET Tab |-> 0]

(* The user does one thing at a time in a tab, beside its boot effect.      *)
OneAtATime ==
  \A p, q \in Process :
    TabOf(p) = TabOf(q) /\ p # q /\ process[p] # Idle => {process[p].flow, process[q].flow} \cap {"boot"} # {}

AccountSymmetry == Permutations(Tab) \cup Permutations(Subject)
=============================================================================
