----------------------------- MODULE HumanRequests -----------------------------
(***************************************************************************)
(* Requests to a Human: who may ask, who may answer, what an answer does to *)
(* the process that waits for it, and what becomes of a request whose       *)
(* presentation ended in doubt.                                            *)
(*                                                                         *)
(* A blocking request parks its process.  The Host may decide a request     *)
(* directly; drains of the terminal queue claim one request at a time in    *)
(* memory, present it outside every lock, and decide it with the answer.    *)
(* Presenting a labelled request first needs the approval of a release      *)
(* request.  An output is a request that is delivered, not decided.         *)
(*                                                                         *)
(* Requests are numbered in the order of created_at, the order of the       *)
(* queue.  A row that is running is kept as runnable: claims of quanta are  *)
(* those of ProcessLifecycle, and nothing here tells them apart.            *)
(***************************************************************************)
EXTENDS Naturals, FiniteSets, FiniteSetsExt

CONSTANTS
    MaxRequests,
    Procs,
    OwnerOf,             \* the process that each request belongs to
    Drains,              \* threads that drain the terminal queue
    Callers,             \* threads inside output()
    NoHolder,
    AskOf,               \* what each request may ask
    Scope,               \* the processes that a checkpoint may be taken of
    ListLimit,           \* human_request_list_limit: a drain reads one page of that length
    ProviderFaults,      \* what a provider may answer besides an answer
    MaxFaults,           \* bound on faults, restores and crashes
    MaxControls          \* bound on signals and interrupts

Requests == 1..MaxRequests
NoRequest == 0
Threads == Drains \cup Callers

\* What a process may ask: a question, a permission, or the delivery of an output, which
\* never blocks.
AskRecords ==
    {a \in [kind : {"question", "permission", "output"}, blocking : BOOLEAN, gated : BOOLEAN] :
       a.kind = "output" => ~a.blocking}

ASSUME HumanAssumption ==
    /\ OwnerOf \in [Requests -> Procs] /\ Drains \cap Callers = {}
    /\ AskOf \in [Requests -> SUBSET AskRecords] /\ Scope \subseteq Procs /\ NoHolder \notin Threads
    /\ ProviderFaults \subseteq {"invalid", "not_started", "ambiguous"}
    /\ {MaxRequests, ListLimit, MaxFaults, MaxControls} \subseteq Nat

INSTANCE ProcessTable WITH Subjects <- Requests, Holders <- Threads

VARIABLES
    row,         \* the rows of the processes
    req,         \* table human_requests
    cleanup,     \* whether the terminal cleanup of a process owes its Human phase
    thread,      \* what each thread has in memory; with it the terminal claims
    memfence,    \* _terminal_retry_fences: fences that only memory holds
    saved,       \* the last checkpoint of each process
    doubtful,    \* history: requests whose provider call raised after it began
    used

vars == <<row, req, cleanup, thread, memfence, saved, doubtful, used>>

-------------------------------------------------------------------------------
(* Types *)

\* mark: "fence" on a pending request whose outcome is in doubt, "unknown" on a
\* cancelled one.  for: the request that a release releases; link: the last
\* release that was asked for a request; spent: the release has been used.
ReqRows == [status : {"none", "pending", "approved", "rejected", "cancelled", "delivered"},
            kind : {"none", "question", "permission", "output", "release"},
            blocking : BOOLEAN, gated : BOOLEAN, mark : {"none", "fence", "unknown"},
            for : Requests \cup {NoRequest}, link : Requests \cup {NoRequest}, spent : BOOLEAN]

Unasked == [status |-> "none", kind |-> "none", blocking |-> FALSE, gated |-> FALSE,
            mark |-> "none", for |-> NoRequest, link |-> NoRequest, spent |-> FALSE]

\* r: the request in hand; up: the request whose presentation it was claimed for.
Idle == [pc |-> "idle", r |-> NoRequest, up |-> NoRequest]
ThreadStates == [pc : {"idle", "claimed", "present", "release", "io", "approved", "rejected",
                       "doubt", "deliver", "write", "undo"},
                 r : Requests \cup {NoRequest}, up : Requests \cup {NoRequest}]

NoCheckpoint == [at |-> 0]

TypeOK ==
    /\ row \in [Procs -> Rows]
    /\ \A p \in Procs : ValidState(row[p].status, row[p].wait, row[p].code)
    /\ req \in [Requests -> ReqRows]
    /\ cleanup \in [Procs -> {"none", "owed", "done"}]
    /\ thread \in [Threads -> ThreadStates]
    /\ memfence \subseteq Requests /\ doubtful \subseteq Requests
    /\ saved \in [Procs -> {NoCheckpoint} \cup [at : 0..MaxRequests, row : Rows]]
    /\ used \in [faults : Nat, controls : Nat]

Init ==
    /\ row = [p \in Procs |-> [InsertProcess EXCEPT !.status = "runnable"]]
    /\ req = [r \in Requests |-> Unasked]
    /\ cleanup = [p \in Procs |-> "none"]
    /\ thread = [t \in Threads |-> Idle]
    /\ memfence = {} /\ doubtful = {}
    /\ saved = [p \in Procs |-> NoCheckpoint]
    /\ used = [faults |-> 0, controls |-> 0]

Faulty == used.faults < MaxFaults /\ used' = [used EXCEPT !.faults = @ + 1]
Controlled == used.controls < MaxControls /\ used' = [used EXCEPT !.controls = @ + 1]

-------------------------------------------------------------------------------
(* The process that waits *)

HumanWait(rs) == [kind |-> "human", on |-> rs]
Paused(kind) == [kind |-> kind, on |-> {}]

\* The generations of a row are not kept: no step here compares one.
Moves(r, status, wait, code) ==
    [Transition(r, status, wait, code) EXCEPT !.sgen = 0, !.egen = 0]

Pending(q, r) == q[r].status = "pending"
Blockers(q, p) == {r \in Requests : Pending(q, r) /\ OwnerOf[r] = p /\ q[r].blocking}

\* The wait is registered for every blocking request that is pending.
MayWait(p, q) == Live(row[p]) /\ MayRegisterWait(row[p], HumanWait(Blockers(q, p)))
Waiting(p, q) == Moves(row[p], "waiting_human", HumanWait(Blockers(q, p)), "none")

\* One more blocking request could be registered.
MayWaitLonger(p) ==
    /\ Live(row[p])
    /\ \/ row[p].wait = NoWait
       \/ row[p].wait.kind = "human" /\ row[p].wait.on \subseteq Blockers(req, p)

\* _transition_after_human_decision: while blocking requests are pending the
\* process waits for the rest; a release that was not approved pauses it, and so
\* does the rejection of what is not about authority.
AfterDecision(r, q, status, parent) ==
    LET p == OwnerOf[r]
        runs == status = "approved" \/ q[r].kind \in {"permission", "release"}
    IN  CASE row[p].status # "waiting_human" -> row[p]
          [] row[p].status = "waiting_human" /\ Blockers(q, p) # {} -> Waiting(p, q)
          [] row[p].status = "waiting_human" /\ Blockers(q, p) = {} /\ parent = NoRequest /\ runs ->
               Moves(row[p], "runnable", NoWait, "none")
          [] OTHER -> Moves(row[p], "paused", Paused("paused"), "none")

\* An outcome in doubt puts a waiting process behind a Host-resume gate.
Gated(p) ==
    IF row[p].status = "waiting_human"
      THEN Moves(row[p], "paused", Paused("host_resume"), "none") ELSE row[p]

\* _cancel_linked_request_for_release: the pending request that a release, when
\* not approved, takes with it.
LinkedParent(r) ==
    IF req[r].kind = "release" /\ req[r].for # NoRequest /\ Pending(req, req[r].for)
      THEN req[r].for ELSE NoRequest

\* Mutant: the request that the release was for stays as it is.
SettledAlone(r, status, mark, parent) ==
    [req EXCEPT ![r] = [@ EXCEPT !.status = status, !.mark = mark]]

\* _terminalize_pending_request: the request, and with it the linked parent.
Settled(r, status, mark, parent) ==
    [q \in Requests |->
       CASE q = r -> [req[r] EXCEPT !.status = status, !.mark = mark]
         [] q = parent /\ q # r -> [req[q] EXCEPT !.status = "cancelled"]
         [] OTHER -> req[q]]

-------------------------------------------------------------------------------
(* Asking *)

NewRequest(a) ==
    [Unasked EXCEPT !.status = "pending", !.kind = a.kind, !.blocking = a.blocking,
                    !.gated = a.gated]

\* query, _persist_query: refused to a terminal process; request and wait are one
\* transaction.
Query(r, a) ==
    /\ req[r] = Unasked /\ a.kind # "output" /\ Live(row[OwnerOf[r]])
    /\ req' = [req EXCEPT ![r] = NewRequest(a)]
    /\ IF a.blocking
         THEN /\ MayWait(OwnerOf[r], req')
              /\ row' = [row EXCEPT ![OwnerOf[r]] = Waiting(OwnerOf[r], req')]
         ELSE UNCHANGED row
    /\ UNCHANGED <<cleanup, thread, memfence, saved, doubtful, used>>

\* output: the request is inserted and claimed by its caller before delivery.
\* Nothing asks whether the process is terminal.
Output(t, r, a) ==
    /\ t \in Callers /\ thread[t] = Idle
    /\ req[r] = Unasked /\ a.kind = "output"
    /\ req' = [req EXCEPT ![r] = NewRequest(a)]
    /\ thread' = [thread EXCEPT ![t] = [pc |-> "deliver", r |-> r, up |-> NoRequest]]
    /\ UNCHANGED <<row, cleanup, memfence, saved, doubtful, used>>

-------------------------------------------------------------------------------
(* Deciding *)

\* _has_terminal_retry_fence_marker, or a fence in memory.
Fenced(r) == req[r].mark # "none" \/ r \in memfence

\* Mutant: a decision does not ask whether the request is still pending.
MayDecideSettled(r, q) ==
    LET p == OwnerOf[r] IN
    /\ req[r].status # "none" /\ ~Fenced(r) /\ Live(row[p])
    /\ row[p].status = "waiting_human" /\ Blockers(q, p) # {} => MayWait(p, q)

\* The checks of _decide_impl, and the one that the registration of the remaining
\* wait makes.
MayDecide(r, q) ==
    LET p == OwnerOf[r] IN
    /\ Pending(req, r) /\ ~Fenced(r) /\ Live(row[p])
    /\ row[p].status = "waiting_human" /\ Blockers(q, p) # {} => MayWait(p, q)

Verdicts == {"approved", "rejected"}

\* What a decision releases besides the request itself.
Parent(r, verdict) == IF verdict = "approved" THEN NoRequest ELSE LinkedParent(r)

\* approve, reject.
Decides(r, verdict) ==
    LET q == Settled(r, verdict, "none", Parent(r, verdict)) IN
    /\ MayDecide(r, q)
    /\ req' = q
    /\ row' = [row EXCEPT ![OwnerOf[r]] = AfterDecision(r, q, verdict, Parent(r, verdict))]
    /\ UNCHANGED <<cleanup, memfence, saved, doubtful>>

HostDecides(r, verdict) == Decides(r, verdict) /\ UNCHANGED <<thread, used>>

\* reconcile_terminal_retry_fence: the Host settles a durable fence.
Reconcile(r) ==
    /\ Pending(req, r) /\ req[r].mark = "fence"
    /\ req' = Settled(r, "cancelled", "unknown", LinkedParent(r))
    /\ row' = [row EXCEPT ![OwnerOf[r]] = Gated(OwnerOf[r])]
    /\ UNCHANGED <<cleanup, thread, memfence, saved, doubtful, used>>

\* cancel_pending_for_process: evidence of doubt is kept.
Cancelled(p) ==
    [r \in Requests |->
       IF Pending(req, r) /\ OwnerOf[r] = p
       THEN [req[r] EXCEPT !.status = "cancelled",
                           !.mark = IF @ = "fence" THEN "unknown" ELSE @]
       ELSE req[r]]

\* A process ends by other means; its terminal cleanup is owed.
Terminate(p) ==
    /\ Live(row[p]) /\ Controlled
    /\ row' = [row EXCEPT ![p] = Moves(@, "killed", NoWait, "terminate")]
    /\ cleanup' = [cleanup EXCEPT ![p] = "owed"]
    /\ UNCHANGED <<req, thread, memfence, saved, doubtful>>

\* The Human phase of the terminal cleanup.
CleanUp(p) ==
    /\ cleanup[p] = "owed"
    /\ req' = Cancelled(p)
    /\ cleanup' = [cleanup EXCEPT ![p] = "done"]
    /\ UNCHANGED <<row, thread, memfence, saved, doubtful, used>>

\* interrupt: the signal of a Human.  A pause replaces whatever held the process.
Interrupt(p, sig) ==
    /\ Live(row[p]) /\ Controlled
    /\ sig \in {"pause", "resume"} => row[p].status \notin ConditionStatuses
    /\ row' = [row EXCEPT ![p] =
                 CASE sig = "pause" -> Moves(@, "paused", Paused("paused"), "none")
                   [] sig = "resume" -> Moves(@, "runnable", NoWait, "none")
                   [] sig = "terminate" -> Moves(@, "killed", NoWait, "terminate")]
    /\ IF sig = "terminate"
         THEN req' = Cancelled(p) /\ cleanup' = [cleanup EXCEPT ![p] = "owed"]
         ELSE UNCHANGED <<req, cleanup>>
    /\ UNCHANGED <<thread, memfence, saved, doubtful>>

\* A parent resumes its child.
ParentResume(p) ==
    /\ SignalApplicable(row[p], "resume", FALSE) /\ row[p].status = "paused" /\ Controlled
    /\ row' = [row EXCEPT ![p] = [SignalRow(@, "resume") EXCEPT !.sgen = 0, !.egen = 0]]
    /\ UNCHANGED <<req, cleanup, thread, memfence, saved, doubtful>>

-------------------------------------------------------------------------------
(* The terminal queue *)

Claimed == {thread[t].r : t \in Threads} \cup {thread[t].up : t \in Threads}

\* pending: the oldest pending requests, as many as a page holds.
Page ==
    {r \in Requests :
       Pending(req, r) /\ Cardinality({x \in Requests : Pending(req, x) /\ x < r}) < ListLimit}

\* Mutant: a fenced process keeps its place in the queue.
QueueWithFenced == Page

\* _without_terminal_retry_fenced_pids: without the processes that have a fenced request
\* on the page, which is not filled up again.
Queue ==
    LET page == Page IN
    {r \in page : \A x \in page : Fenced(x) => OwnerOf[x] # OwnerOf[r]}

\* Releases first, otherwise in order of creation.
Head ==
    LET queue == Queue
        releases == {r \in queue : req[r].kind = "release"}
    IN  Min(IF releases # {} THEN releases ELSE queue)

Goes(t, pc) == thread' = [thread EXCEPT ![t].pc = pc]
Leaves(t) == thread' = [thread EXCEPT ![t] = Idle]

\* process_next_terminal: a claimed head is not passed over.
Select(t) ==
    /\ t \in Drains /\ thread[t] = Idle
    /\ Queue # {} /\ Head \notin Claimed
    /\ thread' = [thread EXCEPT ![t] = [pc |-> "claimed", r |-> Head, up |-> NoRequest]]
    /\ UNCHANGED <<row, req, cleanup, memfence, saved, doubtful, used>>

\* _process_claimed_terminal_request: the selection may be stale.
Recheck(t) ==
    /\ thread[t].pc = "claimed"
    /\ LET r == thread[t].r IN
       CASE ~Pending(req, r) \/ Fenced(r) -> Leaves(t)
         [] Pending(req, r) /\ ~Fenced(r) /\ req[r].kind = "output" -> Goes(t, "deliver")
         [] OTHER -> Goes(t, "present")
    /\ UNCHANGED <<row, req, cleanup, memfence, saved, doubtful, used>>

\* How the last release that was asked for a request stands.
LinkStatus(r) == IF req[r].link = NoRequest THEN "none" ELSE req[req[r].link].status

\* The exact release of a labelled request: approved and not yet used.
Released(r) == req[r].gated => LinkStatus(r) = "approved" /\ ~req[req[r].link].spent

\* The provider boundary: the release is used up by the dispatch.
Spend(r, b) == IF req[r].gated THEN [req EXCEPT ![req[r].link].spent = b] ELSE req

Dispatch(t) ==
    /\ thread[t].pc = "present" /\ Released(thread[t].r)
    /\ req' = Spend(thread[t].r, TRUE)
    /\ Goes(t, "io")
    /\ UNCHANGED <<row, cleanup, memfence, saved, doubtful, used>>

\* request_data_release: a new blocking release, linked to its parent.
AskRelease(t, x) ==
    LET r == thread[t].r IN
    /\ thread[t].pc = "present" /\ ~Released(r)
    /\ Pending(req, r) /\ req[x] = Unasked /\ OwnerOf[x] = OwnerOf[r]
    /\ LinkStatus(r) \in {"none", "approved"}
    /\ req' = [req EXCEPT ![r].link = x,
                          ![x] = [Unasked EXCEPT !.status = "pending", !.kind = "release",
                                                 !.blocking = TRUE, !.for = r]]
    /\ MayWait(OwnerOf[r], req')
    /\ row' = [row EXCEPT ![OwnerOf[r]] = Waiting(OwnerOf[r], req')]
    /\ Goes(t, "release")
    /\ UNCHANGED <<cleanup, memfence, saved, doubtful, used>>

\* The release is asked for and still pending: it is not on the page, or it would have
\* been taken first.
FindRelease(t) ==
    LET r == thread[t].r IN
    /\ thread[t].pc = "present" /\ ~Released(r)
    /\ Pending(req, r) /\ LinkStatus(r) = "pending"
    /\ Goes(t, "release")
    /\ UNCHANGED <<row, req, cleanup, memfence, saved, doubtful, used>>

\* process_next_terminal goes on with the release, unless it was decided or another
\* drain has taken it meanwhile.
TakeRelease(t) ==
    LET r == thread[t].r
        x == req[r].link
    IN
    /\ thread[t].pc = "release"
    /\ IF ~Pending(req, x) \/ x \in Claimed \/ Fenced(x)
         THEN Leaves(t)
         ELSE thread' = [thread EXCEPT ![t] = [pc |-> "claimed", r |-> x, up |-> r]]
    /\ UNCHANGED <<row, req, cleanup, memfence, saved, doubtful, used>>

\* The release was denied, its request is settled, or the wait cannot be
\* registered: the drain raises and the request stays as it is.
ReleaseRefused(t) ==
    LET r == thread[t].r IN
    /\ thread[t].pc = "present" /\ ~Released(r)
    /\ \/ ~Pending(req, r)
       \/ LinkStatus(r) \in {"rejected", "cancelled"}
       \/ LinkStatus(r) \in {"none", "approved"} /\ ~MayWaitLonger(OwnerOf[r])
    /\ Leaves(t)
    /\ UNCHANGED <<row, req, cleanup, memfence, saved, doubtful, used>>

\* The Human answers.  A question is never rejected at the terminal.
Answer(t, verdict) ==
    /\ thread[t].pc = "io"
    /\ req[thread[t].r].kind = "question" => verdict = "approved"
    /\ Goes(t, verdict)
    /\ UNCHANGED <<row, req, cleanup, memfence, saved, doubtful, used>>

\* approve, reject with the answer; whatever happened meanwhile is checked again.
Settle(t) ==
    /\ thread[t].pc \in Verdicts
    /\ IF MayDecide(thread[t].r, Settled(thread[t].r, thread[t].pc, "none",
                                         Parent(thread[t].r, thread[t].pc)))
         THEN Decides(thread[t].r, thread[t].pc)
         ELSE UNCHANGED <<row, req, cleanup, memfence, saved, doubtful>>
    /\ Leaves(t)
    /\ UNCHANGED used

\* An answer beyond the bounds leaves the request pending, and so does a provider
\* that certifies that it did not start.
NoAnswer(t, fault) ==
    /\ thread[t].pc = "io" /\ fault \in {"invalid", "not_started"} /\ Faulty
    /\ req' = IF fault = "not_started" THEN Spend(thread[t].r, FALSE) ELSE req
    /\ Leaves(t)
    /\ UNCHANGED <<row, cleanup, memfence, saved, doubtful>>

\* The provider raises after it was called.
Ambiguous(t) ==
    /\ thread[t].pc = "io" /\ Faulty
    /\ doubtful' = doubtful \cup {thread[t].r}
    /\ Goes(t, "doubt")
    /\ UNCHANGED <<row, req, cleanup, memfence, saved>>

\* _mark_terminal_provider_outcome_unknown: the request, its parent and the
\* process in one transaction.
MarkUnknown(t) ==
    LET r == thread[t].r IN
    /\ thread[t].pc = "doubt"
    /\ IF Pending(req, r)
         THEN /\ req' = Settled(r, "cancelled", "unknown", LinkedParent(r))
              /\ row' = [row EXCEPT ![OwnerOf[r]] = Gated(OwnerOf[r])]
         ELSE UNCHANGED <<req, row>>
    /\ Leaves(t)
    /\ UNCHANGED <<cleanup, memfence, saved, doubtful, used>>

\* Mutant: no fence is left behind.
MarkFenceForgotten(t) ==
    /\ thread[t].pc = "doubt"
    /\ Leaves(t)
    /\ UNCHANGED <<row, req, cleanup, memfence, saved, doubtful, used>>

\* _persist_terminal_retry_fence: when that transaction fails, the request alone.
MarkFence(t) ==
    LET r == thread[t].r IN
    /\ thread[t].pc = "doubt"
    /\ req' = IF Pending(req, r) THEN [req EXCEPT ![r].mark = "fence"] ELSE req
    /\ Leaves(t)
    /\ UNCHANGED <<row, cleanup, memfence, saved, doubtful, used>>

\* When that fails too, memory alone.
MarkMemory(t) ==
    /\ thread[t].pc = "doubt"
    /\ memfence' = memfence \cup {thread[t].r}
    /\ Leaves(t)
    /\ UNCHANGED <<row, req, cleanup, saved, doubtful, used>>

-------------------------------------------------------------------------------
(* Output *)

\* _deliver_output_request: the delivered mark commits before the provider is
\* called.  A caller whose delivery is refused cancels its request; a drain
\* leaves it pending.
Prepare(t) ==
    LET r == thread[t].r IN
    /\ thread[t].pc = "deliver"
    /\ IF Pending(req, r) /\ Live(row[OwnerOf[r]])
         THEN req' = [req EXCEPT ![r].status = "delivered"] /\ Goes(t, "write")
         ELSE /\ UNCHANGED req
              /\ IF t \in Callers THEN Goes(t, "undo") ELSE Leaves(t)
    /\ UNCHANGED <<row, cleanup, memfence, saved, doubtful, used>>

\* The provider wrote, or raised after it was called: delivered either way.
Written(t) ==
    /\ thread[t].pc = "write"
    /\ Leaves(t)
    /\ UNCHANGED <<row, req, cleanup, memfence, saved, doubtful, used>>

\* restore_not_started.
NotWritten(t) ==
    LET r == thread[t].r IN
    /\ thread[t].pc = "write" /\ Faulty
    /\ req' = IF req[r].status = "delivered" THEN [req EXCEPT ![r].status = "pending"] ELSE req
    /\ IF t \in Callers THEN Goes(t, "undo") ELSE Leaves(t)
    /\ UNCHANGED <<row, cleanup, memfence, saved, doubtful>>

\* The failure path of output().
Undo(t) ==
    LET r == thread[t].r IN
    /\ thread[t].pc = "undo"
    /\ req' = IF Pending(req, r) THEN [req EXCEPT ![r].status = "cancelled"] ELSE req
    /\ Leaves(t)
    /\ UNCHANGED <<row, cleanup, memfence, saved, doubtful, used>>

-------------------------------------------------------------------------------
(* Checkpoints and crashes *)

\* The stamp of the checkpoint may lie anywhere between those of the requests.  (The
\* bound leaves a fault for its restore.)
Checkpoint(p, at) ==
    /\ Live(row[p]) /\ Faulty /\ used.faults + 1 < MaxFaults
    /\ saved' = [saved EXCEPT ![p] = [at |-> at, row |-> row[p]]]
    /\ UNCHANGED <<row, req, cleanup, thread, memfence, doubtful>>

\* cancel_pending_human_requests_after_checkpoint: linked requests are not followed.
RestoredRequests(p) ==
    [r \in Requests |->
       IF Pending(req, r) /\ OwnerOf[r] = p /\ r > saved[p].at
       THEN [req[r] EXCEPT !.status = "cancelled",
                           !.mark = IF @ = "fence" THEN "unknown" ELSE @]
       ELSE req[r]]

\* Mutant: a restored wait is taken as it was captured.
RestoredWaitKept(r, q) == r

\* _resolved_restored_human_wait: a wait whose requests are all settled ends.
RestoredWait(r, q) ==
    CASE r.status # "waiting_human" \/ (\E x \in r.wait.on : Pending(q, x)) -> r
      [] r.status = "waiting_human" /\ (\A x \in r.wait.on : ~Pending(q, x))
         /\ (\E x \in r.wait.on : q[x].status # "approved" /\ q[x].kind # "permission") ->
           Moves(r, "paused", Paused("paused"), "none")
      [] OTHER -> Moves(r, "runnable", NoWait, "none")

Restore(p) ==
    /\ saved[p] # NoCheckpoint /\ Live(row[p]) /\ Faulty
    /\ req' = RestoredRequests(p)
    /\ row' = [row EXCEPT ![p] = RestoredWait(saved[p].row, req')]
    /\ UNCHANGED <<cleanup, thread, memfence, saved, doubtful>>

\* A crash loses claims and the fences in memory.  recover_prepared_output takes
\* back an output that was prepared and never dispatched.
Crash ==
    /\ Faulty
    /\ \E undispatched \in SUBSET {t \in Threads : thread[t].pc = "write"} :
         req' = [r \in Requests |->
                   IF req[r].status = "delivered" /\ \E t \in undispatched : thread[t].r = r
                   THEN [req[r] EXCEPT !.status = "pending"] ELSE req[r]]
    /\ thread' = [t \in Threads |-> Idle]
    /\ memfence' = {}
    /\ LET doubting == {t \in Threads : thread[t].pc = "doubt"} IN
       doubtful' = doubtful \ (memfence \cup {thread[t].r : t \in doubting})
    /\ UNCHANGED <<row, cleanup, saved>>

-------------------------------------------------------------------------------
(* Specification *)

Drives(t) ==
    \/ Select(t) \/ Recheck(t) \/ Dispatch(t)
    \/ FindRelease(t) \/ TakeRelease(t) \/ ReleaseRefused(t)
    \/ (\E x \in Requests : AskRelease(t, x))
    \/ (\E v \in Verdicts : Answer(t, v)) \/ Settle(t) \/ MarkUnknown(t)
    \/ Prepare(t) \/ Written(t) \/ Undo(t)

Faults(t) ==
    \/ (\E f \in ProviderFaults : NoAnswer(t, f))
    \/ ("ambiguous" \in ProviderFaults /\ (Ambiguous(t) \/ MarkFence(t) \/ MarkMemory(t)))
    \/ ("not_started" \in ProviderFaults /\ NotWritten(t))

Next ==
    \/ \E r \in Requests : \E a \in AskOf[r] : Query(r, a) \/ \E t \in Threads : Output(t, r, a)
    \/ \E r \in Requests, v \in Verdicts : HostDecides(r, v)
    \/ \E r \in Requests : Reconcile(r)
    \/ \E p \in Procs : Terminate(p) \/ CleanUp(p) \/ ParentResume(p)
    \/ \E p \in Procs, sig \in {"pause", "resume", "terminate"} : Interrupt(p, sig)
    \/ \E t \in Threads : Drives(t) \/ Faults(t)
    \/ \E p \in Scope :
         \E at \in {NoRequest} \cup {r \in Requests : OwnerOf[r] = p} : Checkpoint(p, at)
    \/ \E p \in Scope : Restore(p)
    \/ Crash

Spec == Init /\ [][Next]_vars

\* A drain that the scheduler or the Host runs goes on while the queue has a request for
\* it, the Human answers, and whoever ended a process goes on to clean up after it.
FairSpec ==
    /\ Spec
    /\ \A t \in Threads : WF_vars(Drives(t))
    /\ WF_vars(\E p \in Procs : CleanUp(p))

-------------------------------------------------------------------------------
(* Properties *)

\* A process that waits for a Human waits for a request that can still be
\* settled: whichever way its requests end, by a decision, a doubt, a denied
\* release or a restore, somebody is left to wake it.
WaitIsAnswerable ==
    \A p \in Procs :
      row[p].status = "waiting_human" => \E r \in row[p].wait.on : Pending(req, r)

\* A request is decided once: of the Host, a drain that answers late, a
\* cancellation and a restore, the first wins.
DecidedOnce ==
    [][\A r \in Requests :
         req[r].status \in {"approved", "rejected", "cancelled"}
           => req'[r].status = req[r].status]_vars

\* What a provider may have shown already is not shown again, not even after a
\* crash, unless nothing but memory could be marked.
DoubtNotRepeated ==
    [][\A t \in Drains :
         thread[t].pc = "present" /\ thread'[t].pc = "io" => thread[t].r \notin doubtful]_vars

\* A request whose release is not approved ends with it: a labelled payload is not
\* left in the queue once its release was denied or ended in doubt.  A release
\* that a restore cancels is excepted: nothing then ends its request.
DeniedTakesParent ==
    \A x \in Requests :
      /\ req[x].for # NoRequest
      /\ \/ req[x].status = "rejected"
         \/ req[x].status = "cancelled" /\ saved[OwnerOf[x]] = NoCheckpoint
      => ~Pending(req, req[x].for)

\* The bound on requests: a release that could be asked has no identity left.
OutOfRequests(p) == \A r \in Requests : OwnerOf[r] = p => req[r] # Unasked
Exhausted == \E x \in Queue : ~Released(x) /\ OutOfRequests(OwnerOf[x])

\* Releases come first: however its request, its process or the rest of the queue goes
\* on, a release that a drain can see does not stay.  It is decided, fenced, taken back
\* or cancelled with its process, and again and again none is left
\* (process_next_terminal).
ReleasesServed == []<>(\A x \in Queue : req[x].kind # "release")

\* The processes in doubt.
FencedProcs == {OwnerOf[r] : r \in {x \in Requests : Pending(req, x) /\ Fenced(x)}}

\* "Other processes may keep using the shared Human terminal": the request of a
\* process that is not itself in doubt is settled, whatever became of the others.
NeighbourServed ==
    \A r \in Requests :
      (Pending(req, r) /\ row[OwnerOf[r]].status = "waiting_human")
        ~> (~Pending(req, r) \/ OwnerOf[r] \in FencedProcs \/ Exhausted)

\* "Terminal processes cancel requests": no question is left that nobody may
\* decide.  Outputs are excepted: a crash can take one back to pending after the
\* cleanup of its process, and it then stays at the head of the queue.
TerminalHasNoQuestions ==
    \A r \in Requests :
      Pending(req, r) /\ Terminal(row[OwnerOf[r]]) /\ req[r].kind # "output"
        => cleanup[OwnerOf[r]] = "owed"

\* Requests end together with what they belong to: the request of a denied release,
\* the questions of a terminal process (_terminalize_pending_request,
\* cancel_pending_for_process).
RequestsInv == TypeOK /\ DeniedTakesParent /\ TerminalHasNoQuestions

===============================================================================
