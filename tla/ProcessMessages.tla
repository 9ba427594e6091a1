---------------------------- MODULE ProcessMessages ----------------------------
(***************************************************************************)
(* The durable mailbox of one process, with everything that reads it: the  *)
(* receive tool of its own LLM quantum, the receive syscall of a JIT       *)
(* session, and tool calls that the Host makes for the process.            *)
(*                                                                         *)
(* A blocking read of an empty mailbox parks the process.  The tool path   *)
(* then ends its quantum and leaves a pending action for a later quantum,  *)
(* which must claim it before it dispatches it again; the syscall path     *)
(* polls inside the running quantum.  The tool acknowledges what it read   *)
(* in the transaction of its durable result, the syscall in a transaction  *)
(* of its own.  A checkpoint of the process and its mailbox may be         *)
(* restored while no quantum runs.                                         *)
(*                                                                         *)
(* Messages are numbered in the order of created_at, which post() takes    *)
(* before its transaction: they may be inserted in any order.              *)
(***************************************************************************)
EXTENDS Naturals, FiniteSets

CONSTANTS
    MaxMessages,
    Senders, AnySender,
    SenderOf,            \* the sender of each message
    Labelled,            \* the senders whose messages carry labels: processes, not the Host
    Quantum,             \* the scheduler's future for this process
    Hosts,               \* threads that call tools for the process without a token
    NoHolder,
    HostSignals,         \* the signals that the Host may send
    Calls,               \* the reads that the agent and the Host may issue
    MaxCalls,            \* bound on the reads that a session chooses afresh
    MaxIdle,             \* bound on quanta that find nothing to resume
    MaxFaults            \* bound on signals, checkpoints, restores and crashes

Messages == 1..MaxMessages
Filters == Senders \cup {AnySender}
Sessions == Hosts \cup {Quantum}

\* The arguments of a read: a filter, the path it takes, and its options.
CallRecords == [want : Filters, path : {"tool", "syscall"}, block : BOOLEAN,
                all : BOOLEAN, ack : BOOLEAN]

ASSUME MessagesAssumption ==
    /\ Quantum \notin Hosts /\ NoHolder \notin Sessions /\ AnySender \notin Senders
    /\ Calls \subseteq CallRecords /\ Calls # {}
    /\ HostSignals \subseteq {"pause", "host_pause", "resume", "terminate"}
    /\ Labelled \subseteq Senders /\ SenderOf \in [Messages -> Senders]
    /\ {MaxMessages, MaxCalls, MaxIdle, MaxFaults} \subseteq Nat

INSTANCE ProcessTable WITH Subjects <- Filters, Holders <- Sessions

VARIABLES
    row,         \* the row of the process
    msg,         \* table process_messages
    pending,     \* its row of llm_pending_actions
    sess,        \* what each session has in memory
    carried,     \* history: messages that a durable ToolResult has carried
    saved,       \* the last checkpoint; later: uncaptured messages created after it
    epoch,       \* the Runtime instance that is running
    used

vars == <<row, msg, pending, sess, carried, saved, epoch, used>>

-------------------------------------------------------------------------------
(* Types *)

MessageRows == [status : {"none", "unread", "acked", "superseded"},
                by : {"none", "tool", "syscall"}]
Unposted == [status |-> "none", by |-> "none"]

NoPending == [state |-> "none"]
PendingRows == {NoPending} \cup [state : {"pending", "resuming"}, call : Calls]

NoToken == [gen |-> 0, owner |-> NoOwner, lease |-> NoHolder]
Tokens == [gen : Nat, owner : Nat, lease : Sessions \cup {NoHolder}]

\* page: the messages read; ids: those it means to acknowledge; seen: the state
\* generation of the wait that the session itself registered.
Idle == [pc |-> "idle"]
Busy == [pc : {"quantum", "read", "park", "poll", "page", "ack", "store", "settle", "raised",
               "done"},
         tok : Tokens, call : Calls, page : SUBSET Messages, ids : SUBSET Messages, seen : Nat]

NoCheckpoint == [later |-> {}]
Checkpoints == {NoCheckpoint} \cup
    [later : SUBSET Messages, row : Rows, msg : [Messages -> MessageRows], pending : PendingRows]

TypeOK ==
    /\ row \in Rows /\ ValidState(row.status, row.wait, row.code)
    /\ msg \in [Messages -> MessageRows]
    /\ pending \in PendingRows
    /\ sess \in [Sessions -> {Idle} \cup Busy]
    /\ carried \subseteq Messages
    /\ saved \in Checkpoints
    /\ epoch \in Nat
    /\ used \in [calls : [Sessions -> Nat], idle : Nat, faults : Nat]

Init ==
    /\ row = [InsertProcess EXCEPT !.status = "runnable"]
    /\ msg = [m \in Messages |-> Unposted]
    /\ pending = NoPending
    /\ sess = [s \in Sessions |-> Idle]
    /\ carried = {}
    /\ saved = NoCheckpoint
    /\ epoch = 1
    /\ used = [calls |-> [s \in Sessions |-> 0], idle |-> 0, faults |-> 0]

-------------------------------------------------------------------------------
(* The mailbox *)

\* _message_matches, unread: an unread message that the filter admits.
Matches(mail, m, f) == mail[m].status = "unread" /\ f \in {AnySender, SenderOf[m]}

HasMail(mail, f) == \E m \in Messages : Matches(mail, m, f)

MessageWait(f) == [kind |-> "message", on |-> {f}]

\* list, list_page: unread messages, and the acknowledged ones if asked for.
Visible(c) ==
    {m \in Messages : /\ msg[m].status \in (IF c.all THEN {"unread", "acked"} ELSE {"unread"})
                      /\ c.want \in {AnySender, SenderOf[m]}}

\* A page is an initial segment of what is visible: the limit of a read, and for
\* the tool the size that a durable result may have.
Pages(c) == {p \in SUBSET Visible(c) : p # {} /\ \A m \in p, n \in Visible(c) : n < m => n \in p}

\* A message wakes the waiter whose filter it matches.
Wakes(r, mail, m) ==
    r.wait.kind = "message" /\ \E f \in r.wait.on : Matches(mail, m, f)

\* post, send_from_process: the terminal recheck, the insert and the wake of a
\* matching waiter are one transaction.  What a process sends carries labels.
Post(m) ==
    /\ Live(row) /\ msg[m].status = "none"
    /\ msg' = [msg EXCEPT ![m] = [status |-> "unread", by |-> "none"]]
    /\ row' = IF Wakes(row, msg', m) THEN WakeRow(row) ELSE row
    /\ UNCHANGED <<pending, sess, carried, saved, epoch, used>>

-------------------------------------------------------------------------------
(* Sessions *)

Goes(s, pc) == sess' = [sess EXCEPT ![s].pc = pc]

\* The update fence of the store: a session that is bound to a token may write
\* the row only while the token is current; a session without one always may.
MayWrite(s) ==
    /\ Live(row)
    /\ sess[s].tok = NoToken \/ TokenCurrent(row, sess[s].tok)

\* An error in the body of a tool becomes its failed result, and the quantum goes on.
\* Only a result that carries labels is written, which a stale token may not do: that
\* conflict is the one that leaves execute.  What labels a session carries is not kept.
Fails(s) ==
    \/ Goes(s, "settle")
    \/ Live(row) /\ ~MayWrite(s) /\ Goes(s, "raised")

\* A conflict of the durable result itself: the failed result is for a terminal process.
Conflicts(s) == Goes(s, IF Terminal(row) THEN "settle" ELSE "raised")

OpenSession(tok, pc, c) ==
    [pc |-> pc, tok |-> tok, call |-> c, page |-> {}, ids |-> {}, seen |-> 0]

\* Mutant: a process with a pending action is left to wait for its event.
ClaimFresh ==
    /\ sess[Quantum] = Idle /\ row.status = "runnable" /\ pending = NoPending
    /\ used.idle < MaxIdle /\ used' = [used EXCEPT !.idle = @ + 1]
    /\ row' = ClaimRow(row, epoch, Quantum)
    /\ sess' = [sess EXCEPT ![Quantum] =
                  OpenSession([gen |-> row.egen + 1, owner |-> epoch, lease |-> Quantum],
                              "quantum", CHOOSE c \in Calls : TRUE)]
    /\ UNCHANGED <<msg, pending, carried, saved, epoch>>

\* _run_quantum: the scheduler claims the runnable row, at most one future of it
\* at a time, and binds the token.
Claim ==
    /\ sess[Quantum] = Idle /\ row.status = "runnable"
    /\ \/ pending.state = "pending" /\ HasMail(msg, pending.call.want) /\ UNCHANGED used
       \/ used.idle < MaxIdle /\ used' = [used EXCEPT !.idle = @ + 1]
    /\ row' = ClaimRow(row, epoch, Quantum)
    /\ sess' = [sess EXCEPT ![Quantum] =
                  OpenSession([gen |-> row.egen + 1, owner |-> epoch, lease |-> Quantum],
                              "quantum", CHOOSE c \in Calls : TRUE)]
    /\ UNCHANGED <<msg, pending, carried, saved, epoch>>

\* _resume_pending_message_action: with mail for it, the pending action is
\* claimed, pending to resuming, and dispatched again.
Resume ==
    /\ sess[Quantum].pc = "quantum"
    /\ pending.state = "pending" /\ HasMail(msg, pending.call.want)
    /\ pending' = [pending EXCEPT !.state = "resuming"]
    /\ sess' = [sess EXCEPT ![Quantum] = [@ EXCEPT !.pc = "read", !.call = pending.call]]
    /\ UNCHANGED <<row, msg, carried, saved, epoch, used>>

\* Without mail, or behind a claimed action, the quantum returns at once.
ResumeNothing ==
    /\ sess[Quantum].pc = "quantum"
    /\ pending # NoPending
    /\ ~(pending.state = "pending" /\ HasMail(msg, pending.call.want))
    /\ Goes(Quantum, "done")
    /\ UNCHANGED <<row, msg, pending, carried, saved, epoch, used>>

\* The model selects a read, with the tool or inside a JIT program.
Select(c) ==
    /\ sess[Quantum].pc = "quantum" /\ pending.state = "none"
    /\ used.calls[Quantum] < MaxCalls /\ used' = [used EXCEPT !.calls[Quantum] = @ + 1]
    /\ sess' = [sess EXCEPT ![Quantum] = [@ EXCEPT !.pc = "read", !.call = c]]
    /\ UNCHANGED <<row, msg, pending, carried, saved, epoch>>

\* The quantum does something else.
SelectOther ==
    /\ sess[Quantum].pc = "quantum" /\ pending.state = "none"
    /\ Goes(Quantum, "done")
    /\ UNCHANGED <<row, msg, pending, carried, saved, epoch, used>>

\* The Host calls a tool for the process, which must be runnable or running.
HostCall(s, c) ==
    /\ s \in Hosts /\ sess[s] = Idle /\ row.status \in {"runnable", "running"}
    /\ used.calls[s] < MaxCalls /\ used' = [used EXCEPT !.calls[s] = @ + 1]
    /\ sess' = [sess EXCEPT ![s] = OpenSession(NoToken, "read", c)]
    /\ UNCHANGED <<row, msg, pending, carried, saved, epoch>>

-------------------------------------------------------------------------------
(* Reading *)

\* receive, receive_page: a page of what is visible.
ReadPage(s) ==
    /\ sess[s].pc = "read"
    /\ sess[s].call.path = "syscall" => Live(row)
    /\ \E p \in Pages(sess[s].call) :
         sess' = [sess EXCEPT ![s].pc = "page", ![s].page = p,
                              ![s].ids = IF sess[s].call.ack
                                         THEN {m \in p : msg[m].status = "unread"} ELSE {}]
    /\ UNCHANGED <<row, msg, pending, carried, saved, epoch, used>>

ReadNothing(s) ==
    /\ sess[s].pc = "read"
    /\ sess[s].call.path = "syscall" => Live(row)
    /\ Visible(sess[s].call) = {} /\ ~sess[s].call.block
    /\ Goes(s, "store")
    /\ UNCHANGED <<row, msg, pending, carried, saved, epoch, used>>

MayPark(s) == MayWrite(s) /\ MayRegisterWait(row, MessageWait(sess[s].call.want))

\* An empty blocking read registers the wait in the transaction of the read.
Park(s) ==
    /\ sess[s].pc = "read"
    /\ sess[s].call.block /\ Visible(sess[s].call) = {} /\ MayPark(s)
    /\ row' = Transition(row, "waiting_event", MessageWait(sess[s].call.want), "none")
    /\ sess' = [sess EXCEPT ![s].pc = IF sess[s].call.path = "tool" THEN "park" ELSE "poll",
                            ![s].seen = row'.sgen]
    /\ UNCHANGED <<msg, pending, carried, saved, epoch, used>>

\* A stale token, a wait of somebody else, or a terminal process: the read raises.
ReadRefused(s) ==
    /\ sess[s].pc = "read"
    /\ \/ sess[s].call.path = "syscall" /\ Terminal(row)
       \/ Visible(sess[s].call) = {} /\ sess[s].call.block /\ ~MayPark(s)
    /\ Fails(s)
    /\ UNCHANGED <<row, msg, pending, carried, saved, epoch, used>>

\* ProcessMessageWaitRequired: the executor stores the action for a later
\* quantum, under a new token; to the Host the wait is just raised.
Persist(s) ==
    /\ sess[s].pc = "park"
    /\ IF s = Quantum
         THEN /\ pending' = [state |-> "pending", call |-> sess[s].call]
              /\ Goes(s, "done")
         ELSE /\ sess' = [sess EXCEPT ![s] = Idle]
              /\ UNCHANGED pending
    /\ UNCHANGED <<row, msg, carried, saved, epoch, used>>

\* _wait_for_process_message: the syscall polls until there is mail, and reads.
Poll(s) ==
    /\ sess[s].pc = "poll" /\ HasMail(msg, sess[s].call.want)
    /\ Goes(s, "read")
    /\ UNCHANGED <<row, msg, pending, carried, saved, epoch, used>>

\* The sandbox times out: _cleanup_interrupted_wait wakes the row if the wait is
\* still the one the session registered, unless the fence refuses the write.
Interrupt(s) ==
    /\ sess[s].pc = "poll"
    /\ row' = IF /\ row.status = "waiting_event" /\ row.sgen = sess[s].seen
                 /\ sess[s].tok = NoToken
                THEN WakeRow(row) ELSE row
    /\ Fails(s)
    /\ UNCHANGED <<msg, pending, carried, saved, epoch, used>>

-------------------------------------------------------------------------------
(* Consuming *)

\* observe_message_labels: labelled messages attach carrier objects to the
\* process, which needs the fence; unlabelled ones write nothing.
Observe(s) ==
    /\ sess[s].pc = "page"
    /\ LET attaches == \E m \in sess[s].page : SenderOf[m] \in Labelled IN
       IF Terminal(row) \/ (attaches /\ ~MayWrite(s))
         THEN Fails(s)
         ELSE Goes(s, IF sess[s].call.path = "syscall" THEN "ack" ELSE "store")
    /\ UNCHANGED <<row, msg, pending, carried, saved, epoch, used>>

\* ack: the unread ones among the given messages.
Acked(ids, by) ==
    [m \in Messages |-> IF m \in ids /\ msg[m].status = "unread"
                        THEN [msg[m] EXCEPT !.status = "acked", !.by = by] ELSE msg[m]]

\* The syscall acknowledges in a transaction of its own.
AckSyscall(s) ==
    /\ sess[s].pc = "ack"
    /\ msg' = Acked(sess[s].ids, "syscall")
    /\ Goes(s, "store")
    /\ UNCHANGED <<row, pending, carried, saved, epoch, used>>

\* Mutant: the acknowledgement overwrites whatever status the message has.
ForcedAck(ids) ==
    [m \in Messages |-> IF m \in ids THEN [msg[m] EXCEPT !.status = "acked", !.by = "tool"]
                        ELSE msg[m]]

\* _commit_process_message_ack: the deferred acknowledgement of the tool.
DeferredAck(ids) == Acked(ids, "tool")

\* Every message of the page must now be acknowledged, by whichever reader.
Resolved(mail, ids) == \A m \in ids : mail[m].status = "acked"

\* Mutant: the acknowledgement commits before the result is attached.
StoreAckFirst(s) ==
    /\ sess[s].pc = "store" /\ sess[s].call.path = "tool"
    /\ msg' = DeferredAck(sess[s].ids)
    /\ IF MayWrite(s) /\ Resolved(msg', sess[s].ids)
         THEN carried' = carried \cup sess[s].page /\ Goes(s, "settle")
         ELSE UNCHANGED carried /\ Conflicts(s)
    /\ UNCHANGED <<row, pending, saved, epoch, used>>

\* _persist_success of the receive tool: acknowledgement, check and ToolResult
\* are one transaction; a conflict or a refused attachment rolls all of it back.
StoreTool(s) ==
    /\ sess[s].pc = "store" /\ sess[s].call.path = "tool"
    /\ LET mail == DeferredAck(sess[s].ids) IN
       IF MayWrite(s) /\ Resolved(mail, sess[s].ids)
         THEN msg' = mail /\ carried' = carried \cup sess[s].page /\ Goes(s, "settle")
         ELSE UNCHANGED <<msg, carried>> /\ Conflicts(s)
    /\ UNCHANGED <<row, pending, saved, epoch, used>>

\* _bound_result: an oversized result is replaced by an omission receipt and
\* acknowledges nothing.
StoreOmitted(s) ==
    /\ sess[s].pc = "store" /\ sess[s].call.path = "tool" /\ sess[s].page # {}
    /\ MayWrite(s)
    /\ Goes(s, "settle")
    /\ UNCHANGED <<row, msg, pending, carried, saved, epoch, used>>

\* The result of the JIT tool whose program made the syscall.
StoreSyscall(s) ==
    /\ sess[s].pc = "store" /\ sess[s].call.path = "syscall"
    /\ IF MayWrite(s)
         THEN carried' = carried \cup sess[s].page /\ Goes(s, "settle")
         ELSE UNCHANGED carried /\ Conflicts(s)
    /\ UNCHANGED <<row, msg, pending, saved, epoch, used>>

\* _clear_pending_action: a resumed action is completed after its result.
Settle(s) ==
    /\ sess[s].pc = "settle"
    /\ IF s = Quantum
         THEN /\ pending' = IF pending.state = "resuming" THEN NoPending ELSE pending
              /\ Goes(s, "done")
         ELSE sess' = [sess EXCEPT ![s] = Idle] /\ UNCHANGED pending
    /\ UNCHANGED <<row, msg, carried, saved, epoch, used>>

\* complete_execution: only a current token makes the row runnable again.
QuantumEnds ==
    /\ sess[Quantum].pc = "done"
    /\ row' = CompleteRow(row, sess[Quantum].tok)
    /\ sess' = [sess EXCEPT ![Quantum] = Idle]
    /\ UNCHANGED <<msg, pending, carried, saved, epoch, used>>

\* A conflict that left execute ends the quantum: _fail_llm_quantum and the fail-closed
\* resume exit the process as failed; when the fence refuses that, _fail_process_task of
\* the scheduler does it without a token.  The Host just gets the error.
Raise(s) ==
    /\ sess[s].pc = "raised"
    /\ row' = IF s = Quantum /\ Live(row)
                THEN Transition(row, "failed", NoWait,
                                IF MayWrite(s) THEN "failed" ELSE "scheduler_task_failed")
                ELSE row
    /\ sess' = [sess EXCEPT ![s] = Idle]
    /\ UNCHANGED <<msg, pending, carried, saved, epoch, used>>

-------------------------------------------------------------------------------
(* The Host, checkpoints and crashes *)

Signal(sig) ==
    /\ SignalApplicable(row, sig, TRUE)
    /\ used.faults < MaxFaults /\ used' = [used EXCEPT !.faults = @ + 1]
    /\ row' = SignalRow(row, sig)
    /\ UNCHANGED <<msg, pending, sess, carried, saved, epoch>>

\* create: row, mailbox and pending action are captured in one transaction, the
\* running row as runnable.  created_at was taken before it: it may lie anywhere
\* between the stamps of the messages.  The captured generations never exceed the
\* present ones, which a restore raises: they are not kept.
Checkpoint(at) ==
    /\ used.faults < MaxFaults /\ used' = [used EXCEPT !.faults = @ + 1]
    /\ saved' = [later |-> {m \in Messages : m > at /\ msg[m].status = "none"},
                 msg |-> msg, pending |-> pending,
                 row |-> [row EXCEPT !.status = IF @ = "running" THEN "runnable" ELSE @,
                                     !.sgen = 0, !.egen = 0, !.owner = NoOwner,
                                     !.lease = NoHolder]]
    /\ UNCHANGED <<row, msg, pending, sess, carried, epoch>>

\* Captured messages return to their captured status; of the others, the unread
\* ones that were created after the checkpoint are superseded.
RestoredMail ==
    [m \in Messages |->
       CASE saved.msg[m].status # "none" -> saved.msg[m]
         [] saved.msg[m].status = "none" /\ msg[m].status = "unread" /\ m \in saved.later ->
              [msg[m] EXCEPT !.status = "superseded"]
         [] OTHER -> msg[m]]

\* prepare_checkpoint_restore_process_rows: fresh generations, no owner, and no recovery
\* receipt of an execution that never was.
RestoredRow ==
    [saved.row EXCEPT !.sgen = row.sgen + 1, !.egen = row.egen + 1,
                      !.wait = IF @.kind = "stale_execution"
                               THEN [kind |-> "paused", on |-> {}] ELSE @]

\* Mutant: the restored wait is taken as it was captured.
ReconciledKept(r, mail) == r

\* _reconcile_restored_wait_states: a restored message wait that already has its
\* message becomes runnable.
Reconciled(r, mail) ==
    IF r.wait.kind = "message" /\ \E f \in r.wait.on : HasMail(mail, f)
      THEN WakeRow(r) ELSE r

\* restore: refused while a future of the scheduler is active.
Restore ==
    /\ saved # NoCheckpoint /\ sess[Quantum] = Idle
    /\ used.faults < MaxFaults /\ used' = [used EXCEPT !.faults = @ + 1]
    /\ msg' = RestoredMail
    /\ row' = Reconciled(RestoredRow, msg')
    /\ pending' = saved.pending
    /\ UNCHANGED <<sess, carried, saved, epoch>>

\* _load_pending_actions: an action that was being resumed when the Runtime died
\* fails its process.
Loaded(r) ==
    IF pending.state = "resuming" /\ Live(r)
      THEN Transition(r, "failed", NoWait, "failed") ELSE r

\* A crash loses the sessions; the next Runtime parks the running row before it
\* loads the pending actions and opens.
Crash ==
    /\ used.faults < MaxFaults /\ used' = [used EXCEPT !.faults = @ + 1]
    /\ epoch' = epoch + 1
    /\ row' = Loaded(IF IsStaleExecution(row, epoch + 1) THEN RecoverStaleRow(row) ELSE row)
    /\ sess' = [s \in Sessions |-> Idle]
    /\ UNCHANGED <<msg, pending, carried, saved>>

-------------------------------------------------------------------------------
(* Specification *)

Works(s) ==
    \/ ReadPage(s) \/ ReadNothing(s) \/ Park(s) \/ ReadRefused(s) \/ Persist(s) \/ Poll(s)
    \/ Observe(s) \/ AckSyscall(s) \/ StoreTool(s) \/ StoreOmitted(s) \/ StoreSyscall(s)
    \/ Settle(s) \/ Raise(s)

Next ==
    \/ \E m \in Messages : Post(m)
    \/ Claim \/ Resume \/ ResumeNothing \/ (\E c \in Calls : Select(c)) \/ SelectOther
    \/ \E s \in Hosts, c \in Calls : HostCall(s, c)
    \/ \E s \in Sessions : Works(s) \/ Interrupt(s)
    \/ QuantumEnds
    \/ \E sig \in HostSignals : Signal(sig)
    \/ \E at \in 0..MaxMessages : Checkpoint(at)
    \/ Restore \/ Crash

Spec == Init /\ [][Next]_vars

\* The scheduler runs what is runnable, a quantum that is running ends, and the
\* time limits of tools and sandboxes end every call.
FairSpec ==
    /\ Spec
    /\ WF_vars(Claim) /\ WF_vars(Resume \/ ResumeNothing \/ SelectOther) /\ WF_vars(QuantumEnds)
    /\ \A s \in Sessions : WF_vars(Works(s))

-------------------------------------------------------------------------------
(* Properties *)

\* No lost wakeup: a process that is parked for mail has no unread message that
\* its filter admits, however posts, reads, restores and stamps interleave.
ParkedHasNoMail ==
    row.wait.kind = "message" => \A f \in row.wait.on : ~HasMail(msg, f)

\* What the receive tool acknowledged stands in a durable result: no failure of
\* the result, no fence and no crash consumes a page that nobody can read.
ToolMailIsCarried ==
    \A m \in Messages : msg[m].status = "acked" /\ msg[m].by = "tool" => m \in carried

\* Mail that a restore superseded is neither read nor acknowledged afterwards,
\* not even through a page that was read before the restore.
SupersededStaysOut ==
    [][\A m \in Messages : msg[m].status = "superseded" =>
         /\ \A s \in Sessions :
              sess[s] # Idle /\ sess[s].pc = "read" /\ sess'[s] # Idle /\ sess'[s].pc = "page"
                => m \notin sess'[s].page
         /\ msg'[m].status = "acked" => saved # NoCheckpoint /\ msg'[m] = saved.msg[m]]_vars

\* A claimed action is in the hands of the quantum that claimed it, or its process
\* is terminal: a failed or interrupted resume never leaves it behind on a live
\* process.  Checkpoints taken in the middle of a resume are excepted: see
\* NoClaimLeftBehind.
ClaimHasItsQuantum ==
    /\ pending.state = "resuming"
    /\ saved # NoCheckpoint => saved.pending.state # "resuming"
    => Terminal(row) \/ sess[Quantum] # Idle

\* The same without exception: "Never leave a claimed, non-replayable action on a
\* runnable process."
NoClaimLeftBehind ==
    pending.state = "resuming" /\ sess[Quantum] = Idle => row.status # "runnable"

\* "Blocking is an implementation detail inside the syscall": what a JIT program
\* consumed is carried by the result of its tool, or its session can still store it.
ConsumedIsCarried ==
    \A m \in Messages : msg[m].status = "acked" =>
      \/ m \in carried
      \/ \E s \in Sessions : sess[s] # Idle /\ m \in sess[s].page /\ MayWrite(s)

\* A reader that parked its action gets the mail that arrives for it: a quantum
\* dispatches the action again, unless the mail is taken by another reader, or the
\* process is paused or ends.
MailAwaited == pending.state = "pending" /\ HasMail(msg, pending.call.want)
ParkedReaderServed == MailAwaited ~> (~MailAwaited \/ row.status = "paused" \/ Terminal(row))

\* What is consumed is carried and what is claimed is in hand: neither a result that
\* fails, a fence nor a crash leaves half of a receive behind
\* (_commit_process_message_ack, _resume_pending_action_fail_closed).
MailInv == TypeOK /\ ToolMailIsCarried /\ ClaimHasItsQuantum

===============================================================================
