----------------------------- MODULE MCOutboxSync -----------------------------
(* Small instances of OutboxSync for TLC.                                   *)
EXTENDS OutboxSync

CONSTANTS t1, t2

(* The reader turns no page: Next without SaveProgress, on one device.      *)
ChainNext ==
  \/ \E t \in Editor, a \in Annotation : CreateAnnotation(t, a) \/ UpdateAnnotation(t, a)
  \/ \E t \in Editor : CommitEdit(t) \/ DiscardConflicts(t) \/ CommitDiscard(t)
  \/ \E t \in Tab : StartDrain(t) \/ Run(t) \/ DrainThrows(t) \/ CloseTab(t)
  \/ \E env \in late : HandleLate(env)
  \/ LeaseExpires

FairChainSpec == Init /\ [][ChainNext]_vars /\ Fairness
=============================================================================
