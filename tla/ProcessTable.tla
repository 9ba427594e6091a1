----------------------------- MODULE ProcessTable -----------------------------
(***************************************************************************)
(* One row of the "processes" table and the operations that the store and  *)
(* ProcessTransitionService perform on it.  Every module that changes a    *)
(* process changes it through these operators, as every manager of the     *)
(* program goes through the same write boundary.                           *)
(*                                                                         *)
(* A row keeps the semantic state (status, wait, code of the outcome), its *)
(* state_generation, and the execution tuple (execution_generation, owner, *)
(* lease).  The revision column is not kept: a read followed by a          *)
(* compare-and-swap on the revision is one step here, because a lost       *)
(* compare-and-swap raises and changes nothing.                            *)
(***************************************************************************)
EXTENDS Naturals

CONSTANTS
    Subjects,    \* what a process may wait for: processes, filters, requests
    Holders,     \* those who may hold an execution lease
    NoHolder     \* "execution_lease_id IS NULL"

-------------------------------------------------------------------------------
(* Statuses, waits and outcomes *)

TerminalStatuses == {"exited", "failed", "killed"}

\* The statuses whose wait belongs to a condition owner.
ConditionStatuses == {"waiting_event", "waiting_human", "waiting_tool"}

\* "absent" stands for a pid that has no row.  No operation writes "suspended".
Statuses ==
    {"absent", "created", "runnable", "running", "paused"}
      \cup ConditionStatuses \cup TerminalStatuses

ConditionWaits == {"child", "message", "human", "tool"}

WaitKinds == {"none", "paused", "host_resume", "stale_execution"} \cup ConditionWaits

\* A typed wait: its kind and the identities it names.
Waits == [kind : WaitKinds, on : SUBSET Subjects]

NoWait == [kind |-> "none", on |-> {}]

Codes == {"none", "exited", "failed", "terminate", "scheduler_task_failed",
          "resource_limit_exceeded"}

Rows == [status : Statuses, wait : Waits, code : Codes, sgen : Nat, egen : Nat,
         owner : Nat, lease : Holders \cup {NoHolder}]

\* No Runtime instance has this number: "execution_owner_id IS NULL".
NoOwner == 0

\* The status/wait/outcome product that every write validates.
ValidState(status, wait, code) ==
    /\ CASE status = "waiting_event" -> wait.kind \in {"child", "message"}
         [] status = "waiting_human" -> wait.kind = "human"
         [] status = "waiting_tool"  -> wait.kind = "tool"
         [] status = "paused" ->
              wait.kind \in {"paused", "host_resume", "stale_execution"}
         [] OTHER -> wait.kind = "none"
    /\ CASE status = "exited" -> code = "exited"
         [] status = "failed" -> code \in {"failed", "scheduler_task_failed"}
         [] status = "killed" -> code \in {"terminate", "resource_limit_exceeded"}
         [] OTHER -> code = "none"

Exists(r) == r.status # "absent"
Terminal(r) == r.status \in TerminalStatuses
Live(r) == Exists(r) /\ ~Terminal(r)

-------------------------------------------------------------------------------
(* Writes *)

AbsentRow ==
    [status |-> "absent", wait |-> NoWait, code |-> "none", sgen |-> 0, egen |-> 0,
     owner |-> NoOwner, lease |-> NoHolder]

\* insert_process: a new row is published as "created".
InsertProcess ==
    [status |-> "created", wait |-> NoWait, code |-> "none", sgen |-> 0, egen |-> 0,
     owner |-> NoOwner, lease |-> NoHolder]

\* A write that ends a running epoch, or the process, rotates the execution
\* generation and clears the lease.
EndsExecution(r, status) ==
    \/ status \in TerminalStatuses
    \/ r.status = "running" /\ status # "running"

\* apply_process_state_transition through the update fence.  The fence refuses
\* to change the status of a terminal row: callers conjoin ~Terminal(r).
Transition(r, status, wait, code) ==
    [status |-> status, wait |-> wait, code |-> code, sgen |-> r.sgen + 1,
     egen  |-> IF EndsExecution(r, status) THEN r.egen + 1 ELSE r.egen,
     owner |-> IF EndsExecution(r, status) THEN NoOwner ELSE r.owner,
     lease |-> IF EndsExecution(r, status) THEN NoHolder ELSE r.lease]

\* Mutant: the fence forgets the generation and the lease.
TokenCurrentByOwner(r, tok) == r.status = "running" /\ r.owner = tok.owner

\* An execution token is current when the row is running under exactly the
\* generation, owner and lease that the token names.
TokenCurrent(r, tok) ==
    /\ r.status = "running"
    /\ r.egen = tok.gen
    /\ r.owner = tok.owner
    /\ r.lease = tok.lease

\* claim_execution: runnable to running under a fresh generation and lease.
ClaimRow(r, owner, holder) ==
    [status |-> "running", wait |-> NoWait, code |-> "none", sgen |-> r.sgen + 1,
     egen |-> r.egen + 1, owner |-> owner, lease |-> holder]

\* complete_execution(token, RUNNABLE): only the exact token matches the WHERE
\* clause; any other call updates no row.  The generation stays as it is.
CompleteRow(r, tok) ==
    IF TokenCurrent(r, tok)
      THEN [status |-> "runnable", wait |-> NoWait, code |-> "none", sgen |-> r.sgen + 1,
            egen |-> r.egen, owner |-> NoOwner, lease |-> NoHolder]
      ELSE r

\* Mutant: only rows without an owner count as stale.
IsStaleUnowned(r, owner) == r.status = "running" /\ r.owner = NoOwner

\* recover_stale_executions: a running row of another Runtime instance is parked
\* with a recovery receipt.
IsStaleExecution(r, owner) == r.status = "running" /\ r.owner # owner

RecoverStaleRow(r) ==
    [status |-> "paused", wait |-> [kind |-> "stale_execution", on |-> {}],
     code |-> "none", sgen |-> r.sgen + 1, egen |-> r.egen + 1,
     owner |-> NoOwner, lease |-> NoHolder]

-------------------------------------------------------------------------------
(* Wait ownership *)

\* require_wait_registration_preserves_owner: a condition wait is registered on
\* a row without a wait, or by the owner of the present one.  Only a set of
\* Human requests may grow or shrink; any other wait must be the same wait.
MayRegisterWait(r, wait) ==
    \/ r.wait = NoWait
    \/ /\ r.wait.kind = "human" /\ wait.kind = "human"
       /\ (r.wait.on \subseteq wait.on) \/ (wait.on \subseteq r.wait.on)
    \/ r.wait = wait

WakeRow(r) == Transition(r, "runnable", NoWait, "none")

-------------------------------------------------------------------------------
(* Signals *)

Signals == {"pause", "host_pause", "resume", "terminate"}

\* _require_signal_applicable, with require_signal_preserves_condition_wait: no
\* signal reaches a terminal row, and pause and resume leave owned waits alone.
\* Only the Host may resume a row behind a Host-resume gate.
SignalApplicable(r, sig, byHost) ==
    /\ Live(r)
    /\ sig \in {"pause", "host_pause", "resume"} => r.status \notin ConditionStatuses
    /\ sig = "host_pause" => byHost
    /\ sig = "resume" /\ r.wait.kind = "host_resume" => byHost

\* Mutant: pausing again replaces a Host-resume gate by a plain pause.
SignalRowForgetsGate(r, sig) ==
    CASE sig = "terminate" -> Transition(r, "killed", NoWait, "terminate")
      [] sig = "resume" ->
           Transition(r, IF r.status = "paused" THEN "runnable" ELSE r.status,
                      NoWait, "none")
      [] sig = "host_pause" ->
           Transition(r, "paused", [kind |-> "host_resume", on |-> {}], "none")
      [] sig = "pause" -> Transition(r, "paused", [kind |-> "paused", on |-> {}], "none")

\* _apply_signal: pausing again keeps a Host-resume gate; resuming a row that is
\* not paused rewrites it under its own status.
SignalRow(r, sig) ==
    CASE sig = "terminate" -> Transition(r, "killed", NoWait, "terminate")
      [] sig = "resume" ->
           Transition(r, IF r.status = "paused" THEN "runnable" ELSE r.status,
                      NoWait, "none")
      [] sig = "host_pause" ->
           Transition(r, "paused", [kind |-> "host_resume", on |-> {}], "none")
      [] sig = "pause" ->
           Transition(r, "paused",
                      IF r.wait.kind = "host_resume" THEN r.wait
                      ELSE [kind |-> "paused", on |-> {}], "none")
===============================================================================
