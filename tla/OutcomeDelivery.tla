-------------------------- MODULE OutcomeDelivery --------------------------
(***************************************************************************)
(* What the command outbox promises a control plane that confirms results: *)
(* a command that was started stays on the daemon's books until the        *)
(* control plane has its answer, or the retention bound gave it up.        *)
(* src/commands/command-outbox.ts, header comment.  The spools of the      *)
(* backups, BackupCopies, keep the same promise for their results.         *)
(***************************************************************************)
CONSTANT Cmd

VARIABLES
  owed,      \* commands the daemon has on record on its disk
  answered,  \* commands of which the control plane stored an outcome
  abandoned  \* commands given up past the retention bound

delivery == <<owed, answered, abandoned>>

DeliveryInit == owed = {} /\ answered = {} /\ abandoned = {}

Accept(c) == owed' = owed \cup {c} /\ UNCHANGED <<answered, abandoned>>

\* Only a command on record is answered, or one given up whose answer was
\* already under way.
Answer(c) ==
  /\ c \in owed \cup abandoned
  /\ answered' = answered \cup {c}
  /\ UNCHANGED <<owed, abandoned>>

Abandon(S) ==
  /\ S \subseteq owed \cup answered \cup abandoned
  /\ abandoned' = abandoned \cup S
  /\ UNCHANGED <<owed, answered>>

\* A record goes only after its answer arrived or was given up.
Forget(c) ==
  /\ c \in answered \cup abandoned
  /\ owed' = owed \ {c}
  /\ UNCHANGED <<answered, abandoned>>

DeliveryNext ==
  \/ \E c \in Cmd : Accept(c) \/ Answer(c) \/ Forget(c)
  \/ \E S \in SUBSET Cmd : Abandon(S)

DeliverySpec == DeliveryInit /\ [][DeliveryNext]_delivery
=============================================================================
