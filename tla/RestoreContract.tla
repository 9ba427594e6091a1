--------------------------- MODULE RestoreContract ---------------------------
(***************************************************************************)
(* What a checkpoint restore promises across crashes, in three variables.  *)
(*                                                                         *)
(* A restore is owed from the commit of its rows until everything that     *)
(* follows the commit is done: registries, release finalizers and, when a  *)
(* restart had to finish it, the delivery of the restored payloads to a    *)
(* Runtime that opens.  A Runtime accepts mutations next to an owed        *)
(* restore only if that very Runtime committed it; otherwise the restore   *)
(* is settled first, or in the step that opens.                            *)
(***************************************************************************)
CONSTANT Restores

VARIABLES
    accepting,      \* does a Runtime accept mutations?
    owed,           \* restores committed and not settled
    settled         \* restores settled

vars == <<accepting, owed, settled>>

Init ==
    /\ accepting \in BOOLEAN
    /\ owed = {}
    /\ settled = {}

\* The rows of r are committed; a commit that also raised stops the Runtime.
Commit(r) ==
    /\ accepting
    /\ owed = {}
    /\ r \notin settled
    /\ owed' = {r}
    /\ accepting' \in BOOLEAN
    /\ UNCHANGED settled

\* The last of r's work is acknowledged, by the Runtime that committed it or
\* by the recovery of a later one.
Settle(r) ==
    /\ r \in owed
    /\ owed' = owed \ {r}
    /\ settled' = settled \cup {r}
    /\ UNCHANGED accepting

\* Crash, fence or shutdown.
Stop ==
    /\ accepting
    /\ accepting' = FALSE
    /\ UNCHANGED <<owed, settled>>

\* A Runtime opens: it owes nothing afterwards.
Open ==
    /\ ~accepting
    /\ accepting' = TRUE
    /\ owed' = {}
    /\ settled' = settled \cup owed

Next ==
    \/ \E r \in Restores : Commit(r) \/ Settle(r)
    \/ Stop
    \/ Open

Spec == Init /\ [][Next]_vars

=============================================================================
