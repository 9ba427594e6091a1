-------------------------- MODULE HumanRequests_proof --------------------------
(***************************************************************************)
(* Proofs about HumanRequests, for every number of requests, every set of  *)
(* processes, drains and callers, whatever each request asks, and any      *)
(* number of faults and signals.                                           *)
(*                                                                         *)
(* Three arguments.  A wait names requests of its own process that block,  *)
(* so that only a step that also looks at the process can settle the last  *)
(* of them (WaitsInv).  A release belongs to a labelled request of the     *)
(* same process and is itself unlabelled (ReleaseInv), so that the two end *)
(* together.  A thread alone holds the request it presents (ThreadsInv),   *)
(* so that what another call left in doubt is settled, fenced, or still in *)
(* that call's hands when it is looked at again (DoubtInv).                *)
(***************************************************************************)
EXTENDS HumanRequests, WellFoundedInduction, TLAPS

-------------------------------------------------------------------------------
(* The inductive invariant *)

\* A request that was not asked is empty; an output does not block.
AskedInv ==
    \A r \in Requests :
      /\ req[r].status = "none" => req[r] = Unasked
      /\ req[r].kind = "none" => req[r].status = "none"
      /\ req[r].kind = "output" => ~req[r].blocking

\* A release is for a labelled request of the same process, and is not labelled.
ReleaseInv ==
    \A x \in Requests :
      /\ req[x].kind = "release" => ~req[x].gated
      /\ req[x].for # NoRequest =>
           /\ req[x].kind = "release"
           /\ OwnerOf[req[x].for] = OwnerOf[x]
           /\ req[req[x].for].gated
           /\ req[req[x].for].kind # "output"

\* The requests that a row of p may wait for.
Waitable(p) == {r \in Requests : OwnerOf[r] = p /\ req[r].blocking}

\* A row, and the row a checkpoint keeps of it, waits for requests of its own process.
WaitsInv ==
    \A p \in Procs :
      /\ row[p].wait.kind = "human" => row[p].wait.on \subseteq Waitable(p)
      /\ saved[p] # NoCheckpoint =>
           /\ Live(saved[p].row)
           /\ ValidState(saved[p].row.status, saved[p].row.wait, saved[p].row.code)
           /\ saved[p].row.wait.kind = "human" => saved[p].row.wait.on \subseteq Waitable(p)

\* A cleanup is owed and done for terminal processes; every process has its row.
CleanupInv == \A p \in Procs : Exists(row[p]) /\ (cleanup[p] # "none" => Terminal(row[p]))

Presenting == {"present", "release", "io", "approved", "rejected", "doubt"}
Delivering == {"deliver", "write", "undo"}

\* A thread at work alone has its request in hand, which was asked, and is an output
\* exactly when it delivers.
ThreadsInv ==
    /\ \A t \in Threads : thread[t].pc # "idle" =>
         /\ thread[t].r \in Requests
         /\ req[thread[t].r].status # "none"
         /\ thread[t].pc \in Delivering => req[thread[t].r].kind = "output"
         /\ thread[t].pc \in Presenting => req[thread[t].r].kind # "output"
         /\ thread[t].pc = "release" => req[thread[t].r].link # NoRequest
    /\ \A t \in Threads : thread[t].pc = "idle" => thread[t].r = NoRequest
    /\ \A t, u \in Threads : thread[t].r = thread[u].r /\ thread[t].r # NoRequest => t = u

\* A request whose presentation ended in doubt is settled, fenced, or still in the hands
\* of the thread that presented it.
DoubtInv ==
    /\ \A r \in doubtful :
         /\ req[r].status # "none" /\ req[r].kind # "output"
         /\ \/ ~Pending(req, r)
            \/ Fenced(r)
            \/ \E t \in Threads : thread[t].pc = "doubt" /\ thread[t].r = r
    /\ \A t \in Threads : thread[t].pc = "present" => thread[t].r \notin doubtful

IInv ==
    /\ TypeOK
    /\ AskedInv
    /\ ReleaseInv
    /\ WaitsInv
    /\ CleanupInv
    /\ ThreadsInv
    /\ DoubtInv
    /\ WaitIsAnswerable
    /\ DeniedTakesParent
    /\ TerminalHasNoQuestions

-------------------------------------------------------------------------------
(* What a step does to each table *)

\* A row of a process that exists and that the store accepts.
Good(s) == s \in Rows /\ Exists(s) /\ ValidState(s.status, s.wait, s.code)

\* A row that does not wait for a Human, and one that waits for what blocks p under q.
Halts(s) == Good(s) /\ s.status # "waiting_human"
Awaits(p, s, q) ==
    Good(s) /\ s.status = "waiting_human" /\ s.wait = HumanWait(Blockers(q, p))

\* A request is asked, by a live process or as an output; once asked it keeps what it
\* asks, and is settled at most once, an output apart.
ReqStep(r) ==
    \/ req'[r] = req[r]
    \/ /\ req[r].status = "none"
       /\ req'[r].status = "pending" /\ req'[r].kind # "none"
       /\ IF req'[r].kind = "output" THEN ~req'[r].blocking ELSE Live(row'[OwnerOf[r]])
       /\ req'[r].kind = "release" => ~req'[r].gated
       /\ req'[r].for # NoRequest =>
            /\ req'[r].kind = "release"
            /\ OwnerOf[req'[r].for] = OwnerOf[r]
            /\ req[req'[r].for].gated /\ req[req'[r].for].kind # "output"
    \/ /\ req[r].status # "none"
       /\ req'[r].kind = req[r].kind /\ req'[r].blocking = req[r].blocking
       /\ req'[r].gated = req[r].gated /\ req'[r].for = req[r].for
       /\ req'[r].link \in {req[r].link} \cup Requests
       /\ \/ req'[r].status = req[r].status
          \/ Pending(req, r) /\ req'[r].status \in {"approved", "rejected", "cancelled"}
          \/ /\ req[r].kind = "output"
             /\ {req[r].status, req'[r].status} \subseteq {"pending", "delivered"}
       /\ Pending(req', r) /\ req[r].mark # "none" => req'[r].mark # "none"

ReqSteps == req' \in [Requests -> ReqRows] /\ \A r \in Requests : ReqStep(r)

\* A row stays, and with it what it waits for, or a live row is written so that it does
\* not wait for what is settled.
RowStep(p) ==
    \/ /\ row'[p] = row[p]
       /\ row[p].status = "waiting_human" =>
            \A r \in Waitable(p) : Pending(req, r) => Pending(req', r)
    \/ /\ Live(row[p])
       /\ \/ Halts(row'[p])
          \/ Awaits(p, row'[p], req') /\ Blockers(req', p) # {}
          \/ /\ saved[p] # NoCheckpoint /\ row'[p] = saved[p].row
             /\ row'[p].status = "waiting_human" => \E x \in row'[p].wait.on : Pending(req', x)

RowSteps == row' \in [Procs -> Rows] /\ \A p \in Procs : RowStep(p)

\* The cleanup of a process is owed when it ends, and done when nothing of it is pending.
CleanStep(p) ==
    /\ Live(row[p]) /\ Terminal(row'[p]) => cleanup'[p] = "owed"
    /\ \/ cleanup'[p] = cleanup[p]
       \/ cleanup'[p] = "owed" /\ Terminal(row'[p])
       \/ /\ cleanup[p] = "owed"
          /\ \A r \in Requests : OwnerOf[r] = p => ~Pending(req', r)

CleanSteps == cleanup' \in [Procs -> {"none", "owed", "done"}] /\ \A p \in Procs : CleanStep(p)

\* A checkpoint keeps the row of a live process.
SavedStep(p) ==
    saved'[p] = saved[p] \/ (Live(row[p]) /\ saved'[p] # NoCheckpoint /\ saved'[p].row = row[p])

SavedSteps ==
    /\ saved' \in [Procs -> {NoCheckpoint} \cup [at : 0..MaxRequests, row : Rows]]
    /\ \A p \in Procs : SavedStep(p)

\* A release that is denied, or cancelled other than by a restore, leaves its request
\* settled.
Together ==
    \A x \in Requests :
      /\ req[x].for # NoRequest /\ Pending(req, x)
      /\ \/ req'[x].status = "rejected"
         \/ req'[x].status = "cancelled" /\ saved[OwnerOf[x]] = NoCheckpoint
      => ~Pending(req', req[x].for)

\* A thread goes on with the request in hand, leaves it, or takes one that nobody has.
ThreadStep(t) ==
    \/ thread'[t] = thread[t]
    \/ thread'[t] = Idle
    \/ /\ thread'[t].pc # "idle" /\ thread'[t].r \in Requests
       /\ req'[thread'[t].r].status # "none"
       /\ thread'[t].pc \in Delivering => req'[thread'[t].r].kind = "output"
       /\ thread'[t].pc \in Presenting => req'[thread'[t].r].kind # "output"
       /\ thread'[t].pc = "release" => req'[thread'[t].r].link # NoRequest
       /\ thread'[t].r = thread[t].r \/ \A u \in Threads : u # t => thread'[u].r # thread'[t].r

ThreadSteps == thread' \in [Threads -> ThreadStates] /\ \A t \in Threads : ThreadStep(t)

\* A step that puts nothing in doubt, takes nothing out of it, and presents nothing.
Calm ==
    /\ doubtful' = doubtful /\ memfence' = memfence
    /\ \A t \in Threads :
         /\ thread[t].pc = "doubt" => thread'[t] = thread[t]
         /\ thread'[t].pc = "present" => thread'[t] = thread[t]

Step ==
    /\ ReqSteps /\ RowSteps /\ CleanSteps /\ SavedSteps /\ Together /\ ThreadSteps
    /\ memfence' \subseteq Requests /\ doubtful' \subseteq Requests
    /\ used' \in [faults : Nat, controls : Nat]

-------------------------------------------------------------------------------
(* What such a step preserves *)

\* An asked request stays asked, of its kind, and as blocking and as labelled as it was.
LEMMA AskedStays ==
    ASSUME IInv, ReqSteps, NEW r \in Requests, req[r].status # "none"
    PROVE  /\ req'[r].status # "none"
           /\ req'[r].kind = req[r].kind /\ req'[r].blocking = req[r].blocking
           /\ req'[r].gated = req[r].gated /\ req'[r].for = req[r].for
           /\ req[r].link # NoRequest => req'[r].link # NoRequest
           /\ Pending(req', r) => Pending(req, r) \/ req[r].kind = "output"
  BY HumanAssumption DEF ReqSteps, ReqStep, Requests, NoRequest, Pending

\* The types.
LEMMA StepTypes ==
    ASSUME IInv, Step
    PROVE  TypeOK'
<1>1. \A p \in Procs : ValidState(row'[p].status, row'[p].wait, row'[p].code)
  <2> TAKE p \in Procs
  <2>1. RowStep(p)
    BY DEF Step, RowSteps
  <2> QED
    BY <2>1 DEF RowStep, Halts, Awaits, Good, IInv, TypeOK, WaitsInv
<1> QED
  BY <1>1 DEF Step, ReqSteps, RowSteps, CleanSteps, SavedSteps, ThreadSteps, TypeOK

\* What was asked, and which releases are for what.
LEMMA StepRequests ==
    ASSUME IInv, Step
    PROVE  AskedInv' /\ ReleaseInv'
<1>0. ReqSteps /\ \A r \in Requests : req[r].gated => req[r].status # "none"
  BY DEF Step, IInv, AskedInv, Unasked
<1>1. AskedInv'
  <2> SUFFICES ASSUME NEW r \in Requests
               PROVE  /\ req'[r].status = "none" => req'[r] = Unasked
                      /\ req'[r].kind = "none" => req'[r].status = "none"
                      /\ req'[r].kind = "output" => ~req'[r].blocking
    BY DEF AskedInv
  <2>1. ReqStep(r)
    BY <1>0 DEF ReqSteps
  <2> QED
    BY <2>1 DEF ReqStep, IInv, AskedInv, Pending
<1>2. ReleaseInv'
  <2> SUFFICES ASSUME NEW x \in Requests
               PROVE  /\ req'[x].kind = "release" => ~req'[x].gated
                      /\ req'[x].for # NoRequest =>
                           /\ req'[x].kind = "release"
                           /\ OwnerOf[req'[x].for] = OwnerOf[x]
                           /\ req'[req'[x].for].gated
                           /\ req'[req'[x].for].kind # "output"
    BY DEF ReleaseInv
  <2>1. ReqStep(x)
    BY <1>0 DEF ReqSteps
  <2>2. \A y \in Requests : req[y].gated => /\ req'[y].gated /\ req'[y].kind = req[y].kind
    BY <1>0, AskedStays
  <2>3. req'[x].for \in Requests \cup {NoRequest}
    BY <1>0 DEF ReqSteps, ReqRows
  <2> QED
    BY <2>1, <2>2, <2>3 DEF ReqStep, IInv, ReleaseInv
<1> QED
  BY <1>1, <1>2

\* What processes wait for.
LEMMA StepWaits ==
    ASSUME IInv, Step
    PROVE  WaitsInv' /\ WaitIsAnswerable'
<1>0. ReqSteps /\ \A r \in Requests : req[r].blocking => req[r].status # "none"
  BY DEF Step, IInv, AskedInv, Unasked
<1>1. \A p \in Procs : Waitable(p) \subseteq Waitable(p)'
  BY <1>0, AskedStays DEF Waitable
<1> SUFFICES ASSUME NEW p \in Procs
             PROVE  /\ row'[p].wait.kind = "human" => row'[p].wait.on \subseteq Waitable(p)'
                    /\ saved'[p] # NoCheckpoint =>
                         /\ Live(saved'[p].row)
                         /\ ValidState(saved'[p].row.status, saved'[p].row.wait,
                                       saved'[p].row.code)
                         /\ saved'[p].row.wait.kind = "human" =>
                              saved'[p].row.wait.on \subseteq Waitable(p)'
                    /\ row'[p].status = "waiting_human" =>
                         \E r \in row'[p].wait.on : Pending(req', r)
  BY DEF WaitsInv, WaitIsAnswerable
<1>2. RowStep(p) /\ SavedStep(p)
  BY DEF Step, RowSteps, SavedSteps
<1>3. /\ row[p].wait.kind = "human" => row[p].wait.on \subseteq Waitable(p)
      /\ row[p].status = "waiting_human" => row[p].wait.kind = "human"
      /\ ValidState(row[p].status, row[p].wait, row[p].code)
      /\ saved[p] # NoCheckpoint =>
           /\ Live(saved[p].row)
           /\ ValidState(saved[p].row.status, saved[p].row.wait, saved[p].row.code)
           /\ saved[p].row.wait.kind = "human" => saved[p].row.wait.on \subseteq Waitable(p)
  BY DEF IInv, TypeOK, ValidState, WaitsInv
<1>4. /\ saved'[p] # NoCheckpoint =>
           /\ Live(saved'[p].row)
           /\ ValidState(saved'[p].row.status, saved'[p].row.wait, saved'[p].row.code)
           /\ saved'[p].row.wait.kind = "human" => saved'[p].row.wait.on \subseteq Waitable(p)'
  BY <1>1, <1>2, <1>3 DEF SavedStep
<1>5. Blockers(req', p) \subseteq Waitable(p)' /\ \A r \in Blockers(req', p) : Pending(req', r)
  BY DEF Blockers, Waitable
<1>6. CASE row'[p] = row[p] /\ (row[p].status = "waiting_human" =>
             \A r \in Waitable(p) : Pending(req, r) => Pending(req', r))
  BY <1>1, <1>3, <1>4, <1>6 DEF IInv, WaitIsAnswerable
<1>7. CASE Halts(row'[p])
  <2>1. row'[p].wait.kind # "human"
    BY <1>7 DEF Halts, Good, ValidState
  <2> QED
    BY <1>4, <1>7, <2>1 DEF Halts
<1>8. CASE Awaits(p, row'[p], req') /\ Blockers(req', p) # {}
  <2>1. row'[p].wait.on = Blockers(req', p)
    BY <1>8 DEF Awaits, HumanWait
  <2> QED
    BY <1>4, <1>5, <1>8, <2>1
<1>9. CASE /\ saved[p] # NoCheckpoint /\ row'[p] = saved[p].row
           /\ row'[p].status = "waiting_human" => \E x \in row'[p].wait.on : Pending(req', x)
  BY <1>1, <1>3, <1>4, <1>9
<1> QED
  BY <1>2, <1>6, <1>7, <1>8, <1>9 DEF RowStep

\* The end of a process, and of its questions.
LEMMA StepEnds ==
    ASSUME IInv, Step
    PROVE  CleanupInv' /\ TerminalHasNoQuestions'
<1>1. \A p \in Procs : /\ RowStep(p) /\ CleanStep(p)
                       /\ Exists(row'[p])
                       /\ Terminal(row[p]) => row'[p] = row[p]
  <2> TAKE p \in Procs
  <2>1. RowStep(p) /\ CleanStep(p)
    BY DEF Step, RowSteps, CleanSteps
  <2> QED
    BY <2>1 DEF RowStep, Halts, Awaits, Good, Live, IInv, CleanupInv, WaitsInv
<1>2. CleanupInv'
  <2> SUFFICES ASSUME NEW p \in Procs, cleanup'[p] # "none" PROVE Terminal(row'[p])
    BY <1>1 DEF CleanupInv
  <2> QED
    BY <1>1 DEF CleanStep, IInv, CleanupInv
<1>3. TerminalHasNoQuestions'
  <2> SUFFICES ASSUME NEW r \in Requests, Pending(req', r), Terminal(row'[OwnerOf[r]]),
                      req'[r].kind # "output"
               PROVE  cleanup'[OwnerOf[r]] = "owed"
    BY DEF TerminalHasNoQuestions
  <2>1. OwnerOf[r] \in Procs /\ ReqStep(r)
    BY HumanAssumption DEF Step, ReqSteps
  <2>2. CASE ~Terminal(row[OwnerOf[r]])
    BY <1>1, <2>1, <2>2 DEF CleanStep, Live, IInv, CleanupInv
  <2>3. CASE Terminal(row[OwnerOf[r]])
    <3>1. Pending(req, r) /\ req[r].kind # "output"
      BY <1>1, <2>1, <2>3 DEF ReqStep, Live, Pending
    <3>2. cleanup[OwnerOf[r]] = "owed"
      BY <2>3, <3>1 DEF IInv, TerminalHasNoQuestions
    <3> QED
      BY <1>1, <2>1, <3>2 DEF CleanStep
  <2> QED
    BY <2>2, <2>3
<1> QED
  BY <1>2, <1>3

\* What threads have in hand.
LEMMA StepThreads ==
    ASSUME IInv, Step
    PROVE  ThreadsInv'
<1>1. \A t \in Threads : ThreadStep(t)
  BY DEF Step, ThreadSteps
<1>2. \A t \in Threads : thread'[t].pc # "idle" =>
         /\ thread'[t].r \in Requests
         /\ req'[thread'[t].r].status # "none"
         /\ thread'[t].pc \in Delivering => req'[thread'[t].r].kind = "output"
         /\ thread'[t].pc \in Presenting => req'[thread'[t].r].kind # "output"
         /\ thread'[t].pc = "release" => req'[thread'[t].r].link # NoRequest
  <2> SUFFICES ASSUME NEW t \in Threads, thread'[t].pc # "idle", thread'[t] = thread[t]
               PROVE  /\ thread'[t].r \in Requests
                      /\ req'[thread'[t].r].status # "none"
                      /\ thread'[t].pc \in Delivering => req'[thread'[t].r].kind = "output"
                      /\ thread'[t].pc \in Presenting => req'[thread'[t].r].kind # "output"
                      /\ thread'[t].pc = "release" => req'[thread'[t].r].link # NoRequest
    BY <1>1 DEF ThreadStep, Idle
  <2> QED
    BY AskedStays DEF Step, IInv, ThreadsInv
<1>3. \A t \in Threads : thread'[t].pc = "idle" => thread'[t].r = NoRequest
  BY <1>1 DEF ThreadStep, Idle, IInv, ThreadsInv
<1>4. ASSUME NEW t \in Threads, NEW u \in Threads, thread'[t].r = thread'[u].r,
             thread'[t].r # NoRequest
      PROVE  t = u
  <2>1. \A v \in Threads : thread'[v].r # NoRequest =>
           \/ thread'[v].r = thread[v].r
           \/ \A w \in Threads : w # v => thread'[w].r # thread'[v].r
    BY <1>1 DEF ThreadStep, Idle
  <2> QED
    BY <1>4, <2>1 DEF IInv, ThreadsInv
<1> QED
  BY <1>2, <1>3, <1>4 DEF ThreadsInv

\* Releases end with their requests.
LEMMA StepReleases ==
    ASSUME IInv, Step
    PROVE  DeniedTakesParent'
<1> SUFFICES ASSUME NEW x \in Requests, req'[x].for # NoRequest,
                    \/ req'[x].status = "rejected"
                    \/ req'[x].status = "cancelled" /\ saved'[OwnerOf[x]] = NoCheckpoint
             PROVE  ~Pending(req', req'[x].for)
  BY DEF DeniedTakesParent
<1>1. ReqStep(x) /\ OwnerOf[x] \in Procs /\ SavedStep(OwnerOf[x])
  BY HumanAssumption DEF Step, ReqSteps, SavedSteps
<1>2. req[x].status # "none" /\ req'[x].for = req[x].for
  BY <1>1 DEF ReqStep, IInv, AskedInv, Unasked
<1>3. saved'[OwnerOf[x]] = NoCheckpoint => saved[OwnerOf[x]] = NoCheckpoint
  BY <1>1 DEF SavedStep
<1>4. CASE Pending(req, x)
  BY <1>2, <1>3, <1>4 DEF Step, Together
<1>5. CASE ~Pending(req, x)
  <2>1. req'[x].status = req[x].status
    BY <1>1, <1>2, <1>5 DEF ReqStep, Pending
  <2>2. ~Pending(req, req[x].for)
    BY <1>2, <1>3, <2>1 DEF IInv, DeniedTakesParent
  <2>3. req[x].for \in Requests /\ req[req[x].for].gated /\ req[req[x].for].kind # "output"
    BY <1>2 DEF IInv, TypeOK, ReqRows, ReleaseInv
  <2>4. req[req[x].for].status # "none"
    BY <2>3 DEF IInv, AskedInv, Unasked
  <2> QED
    BY <1>2, <2>2, <2>3, <2>4, AskedStays DEF Step
<1> QED
  BY <1>4, <1>5

\* What is in doubt stays settled, fenced or in hand.
LEMMA CalmDoubt ==
    ASSUME IInv, Step, Calm
    PROVE  DoubtInv'
<1>1. ASSUME NEW r \in doubtful
      PROVE  /\ req'[r].status # "none" /\ req'[r].kind # "output"
             /\ \/ ~Pending(req', r)
                \/ Fenced(r)'
                \/ \E t \in Threads : thread'[t].pc = "doubt" /\ thread'[t].r = r
  <2>1. r \in Requests /\ req[r].status # "none" /\ req[r].kind # "output"
    BY DEF IInv, TypeOK, DoubtInv
  <2>2. /\ req'[r].status # "none" /\ req'[r].kind # "output"
        /\ Pending(req', r) => Pending(req, r)
    BY <2>1, AskedStays DEF Step
  <2>3. ReqStep(r)
    BY <2>1 DEF Step, ReqSteps
  <2>4. Pending(req', r) /\ Fenced(r) => Fenced(r)'
    BY <2>1, <2>3 DEF ReqStep, Calm, Fenced
  <2>5. \A t \in Threads : thread[t].pc = "doubt" /\ thread[t].r = r =>
          thread'[t].pc = "doubt" /\ thread'[t].r = r
    BY DEF Calm
  <2> QED
    BY <2>2, <2>4, <2>5 DEF IInv, DoubtInv
<1>2. \A t \in Threads : thread'[t].pc = "present" => thread'[t].r \notin doubtful'
  BY DEF Calm, IInv, DoubtInv
<1> QED
  BY <1>1, <1>2 DEF DoubtInv, Calm

\* The invariant after such a step.
LEMMA StepInv ==
    ASSUME IInv, Step, DoubtInv'
    PROVE  IInv'
  BY StepTypes, StepRequests, StepWaits, StepEnds, StepThreads, StepReleases DEF IInv

-------------------------------------------------------------------------------
(* The writes of rows *)

\* A move writes the fields it is given.
LEMMA MovesFields ==
    ASSUME NEW r \in Rows, NEW status \in Statuses, NEW wait \in Waits, NEW code \in Codes,
           NEW s, s = Moves(r, status, wait, code)
    PROVE  s \in Rows /\ s.status = status /\ s.wait = wait /\ s.code = code
  BY DEF Moves, Transition, Rows, EndsExecution, NoOwner

\* Running, pausing and killing a process leave it in no wait for a Human.
LEMMA MovesHalt ==
    ASSUME NEW r \in Rows
    PROVE  /\ Halts(Moves(r, "runnable", NoWait, "none"))
           /\ \A kind \in {"paused", "host_resume"} :
                Halts(Moves(r, "paused", Paused(kind), "none"))
           /\ Halts(Moves(r, "killed", NoWait, "terminate"))
           /\ ~Terminal(Moves(r, "runnable", NoWait, "none"))
           /\ \A kind : ~Terminal(Moves(r, "paused", Paused(kind), "none"))
           /\ Terminal(Moves(r, "killed", NoWait, "terminate"))
<1>1. /\ "runnable" \in Statuses /\ "paused" \in Statuses /\ "killed" \in Statuses
      /\ "none" \in Codes /\ "terminate" \in Codes /\ NoWait \in Waits
  BY DEF Statuses, TerminalStatuses, Codes, NoWait, Waits, WaitKinds
<1>2. /\ NoWait.kind = "none"
      /\ \A kind : Paused(kind).kind = kind
      /\ \A kind \in {"paused", "host_resume"} : Paused(kind) \in Waits
  BY DEF NoWait, Paused, Waits, WaitKinds
<1>3. /\ \A kind : Moves(r, "paused", Paused(kind), "none").status = "paused"
  BY DEF Moves, Transition
<1>4. ASSUME NEW s, s = Moves(r, "runnable", NoWait, "none") PROVE Halts(s) /\ ~Terminal(s)
  <2>1. s \in Rows /\ s.status = "runnable" /\ s.wait = NoWait /\ s.code = "none"
    BY <1>1, <1>4, MovesFields
  <2> QED
    BY <1>2, <2>1 DEF Halts, Good, Exists, ValidState, Terminal, TerminalStatuses
<1>5. ASSUME NEW s, s = Moves(r, "killed", NoWait, "terminate") PROVE Halts(s) /\ Terminal(s)
  <2>1. s \in Rows /\ s.status = "killed" /\ s.wait = NoWait /\ s.code = "terminate"
    BY <1>1, <1>5, MovesFields
  <2> QED
    BY <1>2, <2>1 DEF Halts, Good, Exists, ValidState, Terminal, TerminalStatuses
<1>6. ASSUME NEW kind \in {"paused", "host_resume"}
      PROVE  Halts(Moves(r, "paused", Paused(kind), "none"))
  BY <1>1, <1>2, MovesFields DEF Halts, Good, Exists, ValidState
<1> QED
  BY <1>3, <1>4, <1>5, <1>6 DEF Terminal, TerminalStatuses

\* Registering the wait for what blocks a process.
LEMMA WaitingAwaits ==
    ASSUME NEW p \in Procs, NEW q, row[p] \in Rows
    PROVE  Awaits(p, Waiting(p, q), q) /\ ~Terminal(Waiting(p, q))
<1>1. "waiting_human" \in Statuses /\ "none" \in Codes
  BY DEF Statuses, ConditionStatuses, Codes
<1>2. HumanWait(Blockers(q, p)) \in Waits /\ HumanWait(Blockers(q, p)).kind = "human"
  BY DEF HumanWait, Blockers, Waits, WaitKinds, ConditionWaits
<1> QED
  BY <1>1, <1>2, MovesFields
  DEF Waiting, Awaits, Good, Exists, ValidState, Terminal, TerminalStatuses

\* One row is written, and the requests of the other processes stay as they are.
LEMMA OneRow ==
    ASSUME IInv, NEW p \in Procs, NEW s, row' = [row EXCEPT ![p] = s],
           \A r \in Requests : OwnerOf[r] # p => req'[r] = req[r],
           \/ s = row[p] /\ row[p].status # "waiting_human"
           \/ Live(row[p]) /\ Halts(s)
           \/ Live(row[p]) /\ Awaits(p, s, req') /\ Blockers(req', p) # {}
           \/ /\ Live(row[p]) /\ saved[p] # NoCheckpoint /\ s = saved[p].row
              /\ s.status = "waiting_human" => \E x \in s.wait.on : Pending(req', x)
    PROVE  RowSteps /\ row'[p] = s /\ \A q \in Procs : q # p => row'[q] = row[q]
<1>1. row \in [Procs -> Rows]
  BY DEF IInv, TypeOK
<1>2. row'[p] = s /\ \A q \in Procs : q # p => row'[q] = row[q]
  BY <1>1
<1>3. s \in Rows
  BY <1>1 DEF Halts, Awaits, Good, IInv, TypeOK
<1>4. RowStep(p)
  BY <1>2 DEF RowStep
<1>5. ASSUME NEW q \in Procs, q # p PROVE RowStep(q)
  <2>1. \A r \in Waitable(q) : req'[r] = req[r]
    BY <1>5 DEF Waitable
  <2> QED
    BY <1>2, <1>5, <2>1 DEF RowStep, Pending
<1> QED
  BY <1>1, <1>2, <1>3, <1>4, <1>5 DEF RowSteps

\* No row is written, and no request that blocks is settled.
LEMMA NoRow ==
    ASSUME IInv, UNCHANGED row,
           \A r \in Requests : req[r].blocking /\ Pending(req, r) => Pending(req', r)
    PROVE  RowSteps
  BY DEF RowSteps, RowStep, Waitable, IInv, TypeOK

\* No cleanup or checkpoint is written, and no process ends.
LEMMA NoEnd ==
    ASSUME IInv, \A p \in Procs : row'[p] = row[p] \/ ~Terminal(row'[p])
    PROVE  /\ UNCHANGED cleanup => CleanSteps
           /\ UNCHANGED saved => SavedSteps
<1>1. UNCHANGED cleanup => CleanSteps
  BY DEF CleanSteps, CleanStep, Live, IInv, TypeOK
<1>2. UNCHANGED saved => SavedSteps
  BY DEF SavedSteps, SavedStep, IInv, TypeOK
<1> QED
  BY <1>1, <1>2

-------------------------------------------------------------------------------
(* The writes of requests *)

\* Nothing is written.
LEMMA NothingAsked ==
    ASSUME IInv, UNCHANGED req
    PROVE  ReqSteps /\ Together
  BY DEF ReqSteps, ReqStep, Together, Pending, IInv, TypeOK

\* No request has the number of none.
LEMMA NoneAsked == NoRequest \notin Requests
  BY HumanAssumption DEF NoRequest, Requests

\* s is q with another status and mark.
Resettled(q, s, status, mark) ==
    /\ s \in ReqRows /\ s.status = status /\ s.mark = mark
    /\ s.kind = q.kind /\ s.blocking = q.blocking /\ s.gated = q.gated
    /\ s.for = q.for /\ s.link = q.link

\* Settling a row changes its status and its mark.
LEMMA Resettles ==
    ASSUME NEW q \in ReqRows,
           NEW status \in {"pending", "approved", "rejected", "cancelled", "delivered"},
           NEW mark \in {"none", "fence", "unknown"}
    PROVE  /\ Resettled(q, [q EXCEPT !.status = status, !.mark = mark], status, mark)
           /\ Resettled(q, [q EXCEPT !.status = status], status, q.mark)
           /\ Resettled(q, [q EXCEPT !.mark = mark], q.status, mark)
  BY DEF Resettled, ReqRows

\* A pending row that is settled, or an output that goes between pending and delivered.
LEMMA SettlingStep ==
    ASSUME NEW r \in Requests, NEW status, NEW mark, Resettled(req[r], req'[r], status, mark),
           req[r].status # "none",
           \/ Pending(req, r) /\ status \in {"approved", "rejected", "cancelled"}
           \/ /\ req[r].kind = "output"
              /\ {req[r].status, status} \subseteq {"pending", "delivered"}
              /\ mark = req[r].mark
           \/ status = req[r].status /\ mark # "none"
    PROVE  ReqStep(r)
  BY DEF Resettled, ReqStep, Pending

\* A request, and the request that it was the release for, are settled.
LEMMA SettledStep ==
    ASSUME IInv, NEW r \in Requests, Pending(req, r),
           NEW status \in {"approved", "rejected", "cancelled"}, NEW mark \in {"none", "unknown"},
           NEW parent, parent = IF status = "approved" THEN NoRequest ELSE LinkedParent(r),
           req' = Settled(r, status, mark, parent)
    PROVE  /\ ReqSteps /\ Together
           /\ \A x \in Requests : OwnerOf[x] # OwnerOf[r] => req'[x] = req[x]
<1>0. /\ req \in [Requests -> ReqRows]
      /\ parent # NoRequest => /\ parent \in Requests /\ parent = req[r].for
                               /\ Pending(req, parent)
                               /\ OwnerOf[parent] = OwnerOf[r]
                               /\ req[parent].gated
  BY DEF IInv, TypeOK, ReqRows, LinkedParent, ReleaseInv
<1>1. \A x \in Requests :
        /\ x = r => Resettled(req[x], req'[x], status, mark)
        /\ x # r /\ x = parent => Resettled(req[x], req'[x], "cancelled", req[x].mark)
        /\ x # r /\ x # parent => req'[x] = req[x]
  <2> TAKE x \in Requests
  <2>1. CASE x = r
    <3>1. req'[x] = [req[x] EXCEPT !.status = status, !.mark = mark]
      BY <2>1 DEF Settled
    <3>2. Resettled(req[x], [req[x] EXCEPT !.status = status, !.mark = mark], status, mark)
      BY <1>0, Resettles
    <3> QED
      BY <2>1, <3>1, <3>2
  <2>2. CASE x # r /\ x = parent
    <3>1. req'[x] = [req[x] EXCEPT !.status = "cancelled"]
      BY <2>2 DEF Settled
    <3> QED
      BY <1>0, <2>2, <3>1, Resettles
  <2>3. CASE x # r /\ x # parent
    BY <2>3 DEF Settled
  <2> QED
    BY <2>1, <2>2, <2>3
<1>2. req' \in [Requests -> ReqRows]
  <2>1. \A x \in Requests : req'[x] \in ReqRows
    BY <1>0, <1>1 DEF Resettled
  <2> QED
    BY <2>1 DEF Settled
<1>3. ASSUME NEW x \in Requests PROVE ReqStep(x)
  <2>1. CASE x = r
    BY <1>1, <2>1, SettlingStep DEF Pending
  <2>2. CASE x # r /\ x = parent
    <3>1. Pending(req, x)
      BY <1>0, <2>2, NoneAsked
    <3> QED
      BY <1>1, <2>2, <3>1, SettlingStep DEF Pending
  <2>3. CASE x # r /\ x # parent
    BY <1>1, <2>3 DEF ReqStep
  <2> QED
    BY <2>1, <2>2, <2>3
<1>4. Together
  <2> SUFFICES ASSUME NEW x \in Requests, req[x].for # NoRequest, Pending(req, x),
                      req'[x].status \in {"rejected", "cancelled"}
               PROVE  ~Pending(req', req[x].for)
    BY DEF Together
  <2>1. req[x].kind = "release" /\ ~req[x].gated /\ req[x].for \in Requests
    BY <1>0 DEF IInv, ReleaseInv, ReqRows
  <2>2. x = r
    BY <1>0, <1>1, <2>1, NoneAsked DEF Pending
  <2>3. status # "approved"
    BY <1>1, <2>2 DEF Resettled
  <2>4. CASE ~Pending(req, req[x].for)
    <3>1. req[x].for # x /\ parent = NoRequest
      BY <2>1, <2>2, <2>3, <2>4 DEF LinkedParent
    <3> QED
      BY <1>1, <2>1, <2>2, <2>4, <3>1, NoneAsked DEF Pending
  <2>5. CASE Pending(req, req[x].for)
    <3>1. parent = req[x].for
      BY <2>1, <2>2, <2>3, <2>5 DEF LinkedParent
    <3>2. parent # r
      BY <1>0, <2>1, <2>2, <3>1
    <3> QED
      BY <1>1, <2>1, <3>1, <3>2 DEF Pending, Resettled
  <2> QED
    BY <2>4, <2>5
<1>5. \A x \in Requests : OwnerOf[x] # OwnerOf[r] => req'[x] = req[x]
  BY <1>0, <1>1, NoneAsked
<1> QED
  BY <1>2, <1>3, <1>4, <1>5 DEF ReqSteps

\* Pending requests of p are cancelled, all of them or those since its checkpoint.
LEMMA CancelledStep ==
    ASSUME IInv, NEW p \in Procs, NEW S \in SUBSET Requests,
           \A r \in S : Pending(req, r) /\ OwnerOf[r] = p,
           \/ saved[p] # NoCheckpoint
           \/ \A r \in Requests : Pending(req, r) /\ OwnerOf[r] = p => r \in S,
           req' = [r \in Requests |->
                     IF r \in S
                     THEN [req[r] EXCEPT !.status = "cancelled",
                                         !.mark = IF @ = "fence" THEN "unknown" ELSE @]
                     ELSE req[r]]
    PROVE  /\ ReqSteps /\ Together
           /\ \A r \in Requests : OwnerOf[r] # p => req'[r] = req[r]
           /\ (\A r \in Requests : Pending(req, r) /\ OwnerOf[r] = p => r \in S) =>
                \A r \in Requests : OwnerOf[r] = p => ~Pending(req', r)
<1>0. req \in [Requests -> ReqRows]
  BY DEF IInv, TypeOK
<1>1. \A r \in Requests :
        /\ r \notin S => req'[r] = req[r]
        /\ r \in S => Resettled(req[r], req'[r], "cancelled", req'[r].mark)
  <2> SUFFICES ASSUME NEW r \in Requests, r \in S
               PROVE  Resettled(req[r], req'[r], "cancelled", req'[r].mark)
    OBVIOUS
  <2> DEFINE mark == IF req[r].mark = "fence" THEN "unknown" ELSE req[r].mark
  <2>1. mark \in {"none", "fence", "unknown"} /\ req[r] \in ReqRows
    BY <1>0 DEF ReqRows
  <2>2. req'[r] = [req[r] EXCEPT !.status = "cancelled", !.mark = mark]
    BY <1>0 DEF ReqRows
  <2> HIDE DEF mark
  <2>3. Resettled(req[r], [req[r] EXCEPT !.status = "cancelled", !.mark = mark], "cancelled",
                  mark)
    BY <2>1, Resettles
  <2>4. Resettled(req[r], req'[r], "cancelled", mark)
    BY <2>2, <2>3
  <2> QED
    BY <2>4 DEF Resettled
<1>2. req' \in [Requests -> ReqRows]
  <2>1. \A r \in Requests : req'[r] \in ReqRows
    BY <1>0, <1>1 DEF Resettled
  <2> QED
    BY <2>1
<1>3. \A r \in Requests : ReqStep(r)
  BY <1>1, SettlingStep DEF ReqStep, Pending
<1>4. Together
  <2> SUFFICES ASSUME NEW x \in Requests, req[x].for # NoRequest, Pending(req, x),
                      \/ req'[x].status = "rejected"
                      \/ req'[x].status = "cancelled" /\ saved[OwnerOf[x]] = NoCheckpoint
               PROVE  ~Pending(req', req[x].for)
    BY DEF Together
  <2>1. req[x].for \in Requests /\ OwnerOf[req[x].for] = OwnerOf[x]
    BY <1>0 DEF IInv, ReleaseInv, ReqRows
  <2>2. x \in S
    BY <1>1 DEF Pending
  <2>3. OwnerOf[x] = p /\ saved[p] = NoCheckpoint
    BY <1>1, <2>2 DEF Resettled
  <2>4. CASE Pending(req, req[x].for)
    <3>1. req[x].for \in S
      BY <2>1, <2>3, <2>4
    <3> QED
      BY <1>1, <2>1, <3>1 DEF Pending, Resettled
  <2>5. CASE ~Pending(req, req[x].for)
    <3>1. req[x].for \notin S
      BY <2>5
    <3> QED
      BY <1>1, <2>1, <2>5, <3>1 DEF Pending
  <2> QED
    BY <2>4, <2>5
<1>5. (\A r \in Requests : Pending(req, r) /\ OwnerOf[r] = p => r \in S) =>
        \A r \in Requests : OwnerOf[r] = p => ~Pending(req', r)
  BY <1>1 DEF Pending, Resettled
<1> QED
  BY <1>1, <1>2, <1>3, <1>4, <1>5 DEF ReqSteps

\* The status or the mark of one request is written, of an output if it is the status.
LEMMA OneRequest ==
    ASSUME IInv, NEW r \in Requests, NEW status, NEW mark,
           req' = [x \in Requests |-> req'[x]], \A x \in Requests : x # r => req'[x] = req[x],
           Resettled(req[r], req'[r], status, mark), req[r].status # "none",
           \/ req[r].kind = "output" /\ Pending(req, r) /\ status = "cancelled"
           \/ /\ req[r].kind = "output"
              /\ {req[r].status, status} \subseteq {"pending", "delivered"}
              /\ mark = req[r].mark
           \/ status = req[r].status /\ mark # "none"
    PROVE  /\ ReqSteps /\ Together
           /\ \A x \in Requests : req[x].blocking /\ Pending(req, x) => Pending(req', x)
<1>1. req' \in [Requests -> ReqRows]
  <2>1. \A x \in Requests : req'[x] \in ReqRows
    BY DEF IInv, TypeOK, Resettled
  <2> QED
    BY <2>1
<1>2. \A x \in Requests : ReqStep(x)
  BY SettlingStep DEF ReqStep
<1>3. req[r].kind = "output" => req[r].for = NoRequest /\ ~req[r].blocking
  BY DEF IInv, ReleaseInv, AskedInv
<1>4. Together
  BY <1>3 DEF Together, Pending, Resettled
<1>5. \A x \in Requests : req[x].blocking /\ Pending(req, x) => Pending(req', x)
  BY <1>3 DEF Pending, Resettled
<1> QED
  BY <1>1, <1>2, <1>4, <1>5 DEF ReqSteps

\* The use of a release is recorded or taken back.
LEMMA SpendStep ==
    ASSUME IInv, NEW r \in Requests, NEW b \in BOOLEAN, b => Released(r), req' = Spend(r, b)
    PROVE  ReqSteps /\ Together /\ \A x \in Requests : Pending(req', x) <=> Pending(req, x)
<1>0. req \in [Requests -> ReqRows]
  BY DEF IInv, TypeOK
<1>1. CASE req' = req
  BY <1>1, NothingAsked
<1>2. CASE req' # req
  <2> DEFINE l == req[r].link
  <2>1. req[r].gated /\ req' = [req EXCEPT ![l].spent = b] /\ l \in Requests
    BY <1>0, <1>2 DEF Spend
  <2> HIDE DEF l
  <2>2. \A x \in Requests : x # l => req'[x] = req[x]
    BY <1>0, <2>1
  <2>3. req'[l] = [req[l] EXCEPT !.spent = b]
    BY <1>0, <2>1
  <2>4. Resettled(req[l], req'[l], req[l].status, req[l].mark)
    BY <1>0, <2>1, <2>3 DEF Resettled, ReqRows
  <2>5. req[l].status # "none"
    <3>1. CASE b
      BY <2>1, <3>1, NoneAsked DEF Released, LinkStatus, l
    <3>2. CASE ~b /\ req[l].status = "none"
      <4>1. req[l] = Unasked /\ b = FALSE
        BY <2>1, <3>2 DEF IInv, AskedInv
      <4>2. req'[l] = [Unasked EXCEPT !.spent = FALSE]
        BY <2>3, <4>1
      <4>3. req'[l] = req[l]
        BY <4>1, <4>2 DEF Unasked
      <4>4. req' = req
        BY <1>0, <2>1, <2>2, <4>3
      <4> QED
        BY <1>2, <4>4
    <3> QED
      BY <3>1, <3>2
  <2>6. req' \in [Requests -> ReqRows]
    BY <1>0, <2>1, <2>2, <2>4 DEF Resettled
  <2>7. \A x \in Requests : ReqStep(x) /\ req'[x].status = req[x].status
    BY <2>2, <2>4, <2>5 DEF ReqStep, Resettled
  <2> QED
    BY <2>6, <2>7 DEF ReqSteps, Together, Pending
<1> QED
  BY <1>1, <1>2

-------------------------------------------------------------------------------
(* The moves of threads *)

Points == {"claimed", "present", "release", "io", "approved", "rejected", "doubt", "deliver",
           "write", "undo"}

\* A thread leaves its request.
LEMMA LeavesStep ==
    ASSUME IInv, NEW t \in Threads, Leaves(t)
    PROVE  /\ ThreadSteps /\ thread'[t].pc = "idle"
           /\ \A u \in Threads : u # t => thread'[u] = thread[u]
<1>1. thread \in [Threads -> ThreadStates] /\ Idle \in ThreadStates
  BY DEF IInv, TypeOK, Idle, ThreadStates
<1>2. thread'[t] = Idle /\ \A u \in Threads : u # t => thread'[u] = thread[u]
  BY <1>1 DEF Leaves
<1> QED
  BY <1>1, <1>2 DEF ThreadSteps, ThreadStep, Leaves, Idle

\* A thread goes on with the request it has.
LEMMA GoesStep ==
    ASSUME IInv, ReqSteps, NEW t \in Threads, NEW pc \in Points, Goes(t, pc),
           thread[t].pc # "idle",
           pc \in Delivering => req[thread[t].r].kind = "output",
           pc \in Presenting => req[thread[t].r].kind # "output",
           pc = "release" => req'[thread[t].r].link # NoRequest
    PROVE  /\ ThreadSteps /\ thread'[t].pc = pc /\ thread'[t].r = thread[t].r
           /\ \A u \in Threads : u # t => thread'[u] = thread[u]
<1>1. thread \in [Threads -> ThreadStates]
  BY DEF IInv, TypeOK
<1>2. /\ thread'[t] = [thread[t] EXCEPT !.pc = pc]
      /\ \A u \in Threads : u # t => thread'[u] = thread[u]
  BY <1>1 DEF Goes
<1>3. thread'[t].pc = pc /\ thread'[t].r = thread[t].r /\ thread'[t] \in ThreadStates
  BY <1>1, <1>2 DEF ThreadStates, Points
<1>4. thread[t].r \in Requests /\ req[thread[t].r].status # "none"
  BY DEF IInv, ThreadsInv
<1>5. req'[thread[t].r].status # "none" /\ req'[thread[t].r].kind = req[thread[t].r].kind
  BY <1>4, AskedStays
<1>6. ThreadStep(t)
  BY <1>3, <1>4, <1>5 DEF ThreadStep, Points
<1>7. \A u \in Threads : ThreadStep(u)
  BY <1>2, <1>6 DEF ThreadStep
<1>8. thread' \in [Threads -> ThreadStates]
  BY <1>1, <1>2, <1>3 DEF Goes
<1> QED
  BY <1>2, <1>3, <1>7, <1>8 DEF ThreadSteps

\* A thread takes a request that no other has.
LEMMA TakesStep ==
    ASSUME IInv, NEW t \in Threads, NEW s \in ThreadStates, thread' = [thread EXCEPT ![t] = s],
           s.pc \in {"claimed", "deliver"}, s.r \in Requests, req'[s.r].status # "none",
           s.pc = "deliver" => req'[s.r].kind = "output",
           \A u \in Threads : u # t => thread[u].r # s.r
    PROVE  /\ ThreadSteps /\ thread'[t] = s
           /\ \A u \in Threads : u # t => thread'[u] = thread[u]
<1>1. thread \in [Threads -> ThreadStates]
  BY DEF IInv, TypeOK
<1>2. thread'[t] = s /\ \A u \in Threads : u # t => thread'[u] = thread[u]
  BY <1>1
<1>3. ThreadStep(t)
  BY <1>2 DEF ThreadStep, Presenting, Delivering
<1>4. \A u \in Threads : ThreadStep(u)
  BY <1>2, <1>3 DEF ThreadStep
<1>5. thread' \in [Threads -> ThreadStates]
  BY <1>1
<1> QED
  BY <1>2, <1>4, <1>5 DEF ThreadSteps

\* No thread moves.
LEMMA ThreadsStay ==
    ASSUME IInv, UNCHANGED thread
    PROVE  ThreadSteps
  BY DEF ThreadSteps, ThreadStep, IInv, TypeOK

\* The bounds are counted in Nat.
LEMMA UsedType ==
    ASSUME IInv, UNCHANGED used \/ Faulty \/ Controlled
    PROVE  used' \in [faults : Nat, controls : Nat]
  BY DEF IInv, TypeOK, Faulty, Controlled

\* A step of threads alone: nothing durable is written.
LEMMA ThreadOnly ==
    ASSUME IInv, UNCHANGED <<row, req, cleanup, saved>>, ThreadSteps,
           memfence' \subseteq Requests, doubtful' \subseteq Requests,
           UNCHANGED used \/ Faulty \/ Controlled
    PROVE  Step
<1>1. ReqSteps /\ Together
  BY NothingAsked
<1>2. RowSteps
  BY NoRow DEF Pending
<1>3. CleanSteps /\ SavedSteps
  BY NoEnd
<1> QED
  BY <1>1, <1>2, <1>3, UsedType DEF Step

\* A step in which nobody but t moves, and t neither begins to present nor leaves a doubt.
LEMMA OneCalm ==
    ASSUME NEW t \in Threads, \A u \in Threads : u # t => thread'[u] = thread[u],
           thread[t].pc # "doubt", thread'[t].pc # "present", UNCHANGED <<doubtful, memfence>>
    PROVE  Calm
  BY DEF Calm

-------------------------------------------------------------------------------
(* The steps of the terminal queue *)

\* The head of a queue that is not empty is in it.
LEMMA HeadInQueue ==
    ASSUME Queue # {}
    PROVE  Head \in Queue
<1> DEFINE Releases == {r \in Queue : req[r].kind = "release"}
           First == IF Releases # {} THEN Releases ELSE Queue
           Less == OpToRel(<, Nat)
<1>0. Queue \subseteq Nat
  <2>1. Page \subseteq Nat
    BY HumanAssumption DEF Page, Requests
  <2> QED
    BY <2>1 DEF Queue
<1>1. First # {} /\ First \subseteq Queue /\ First \subseteq Nat
  BY <1>0
<1>2. Head = Min(First)
  BY DEF Head
<1> HIDE DEF First
<1>3. IsWellFoundedOn(Less, Nat)
  BY NatLessThanWellFounded
<1>4. \A x, y \in Nat : y < x => <<y, x>> \in Less
  BY DEF OpToRel
<1> HIDE DEF Less
<1>5. PICK x \in First : \A y \in First : ~(<<y, x>> \in Less)
  BY <1>1, <1>3, WFMin
<1>6. ASSUME NEW y \in First PROVE x <= y
  <2>1. x \in Nat /\ y \in Nat
    BY <1>1
  <2>2. ~(y < x)
    BY <1>4, <1>5, <2>1
  <2> QED
    BY <2>1, <2>2
<1>7. Min(First) \in First
  BY <1>6 DEF Min
<1> QED
  BY <1>1, <1>2, <1>7

\* Claiming the head of the queue, which nobody has claimed.
LEMMA SelectStep ==
    ASSUME IInv, NEW t \in Threads, Select(t)
    PROVE  Step /\ DoubtInv'
<1>1. Head \in Queue
  BY HeadInQueue DEF Select
<1>2. Head \in Requests /\ Pending(req, Head) /\ \A u \in Threads : thread[u].r # Head
  BY <1>1 DEF Queue, Page, Select, Claimed
<1>3. req'[Head].status # "none"
  BY <1>2 DEF Select, Pending
<1>4. /\ ThreadSteps /\ thread'[t].pc = "claimed"
      /\ \A u \in Threads : u # t => thread'[u] = thread[u]
  <2>1. PICK s : s = [pc |-> "claimed", r |-> Head, up |-> NoRequest]
    OBVIOUS
  <2>2. s \in ThreadStates /\ s.pc = "claimed" /\ s.r = Head
    BY <1>2, <2>1 DEF ThreadStates
  <2>3. thread' = [thread EXCEPT ![t] = s]
    BY <2>1 DEF Select
  <2>4. /\ s.pc \in {"claimed", "deliver"} /\ s.r \in Requests /\ req'[s.r].status # "none"
        /\ s.pc = "deliver" => req'[s.r].kind = "output"
        /\ \A u \in Threads : u # t => thread[u].r # s.r
    BY <1>2, <1>3, <2>2
  <2>5. ThreadSteps /\ thread'[t] = s /\ \A u \in Threads : u # t => thread'[u] = thread[u]
    BY <2>2, <2>3, <2>4, TakesStep
  <2> QED
    BY <2>2, <2>5
<1>5. Step
  BY <1>4, ThreadOnly DEF Select, IInv, TypeOK
<1>6. Calm
  BY <1>4, OneCalm DEF Select, Idle
<1> QED
  BY <1>5, <1>6, CalmDoubt

\* Steps of a thread that leaves its request as it is.
LEMMA LeavingStep ==
    ASSUME IInv, NEW t \in Threads, Leaves(t), thread[t].pc # "doubt",
           UNCHANGED <<row, req, cleanup, memfence, saved, doubtful, used>>
    PROVE  Step /\ DoubtInv'
<1>1. /\ ThreadSteps /\ thread'[t].pc = "idle"
      /\ \A u \in Threads : u # t => thread'[u] = thread[u]
  BY LeavesStep
<1>2. Step
  BY <1>1, ThreadOnly DEF IInv, TypeOK
<1>3. Calm
  BY <1>1, OneCalm
<1> QED
  BY <1>2, <1>3, CalmDoubt

\* A release that is pending already is found again.
LEMMA FindReleaseStep ==
    ASSUME IInv, NEW t \in Threads, FindRelease(t)
    PROVE  Step /\ DoubtInv'
<1>0. /\ thread[t].pc = "present" /\ thread[t].pc # "idle" /\ Goes(t, "release")
      /\ LinkStatus(thread[t].r) = "pending"
      /\ UNCHANGED <<row, req, cleanup, memfence, saved, doubtful, used>>
  BY DEF FindRelease
<1>1. /\ ReqSteps /\ req'[thread[t].r].link # NoRequest
      /\ req[thread[t].r].kind # "output"
  BY <1>0, NothingAsked DEF LinkStatus, IInv, ThreadsInv, Presenting
<1>2. /\ ThreadSteps /\ thread'[t].pc = "release"
      /\ \A u \in Threads : u # t => thread'[u] = thread[u]
  BY <1>0, <1>1, GoesStep DEF Points, Presenting, Delivering
<1>3. Step
  BY <1>0, <1>2, ThreadOnly DEF IInv, TypeOK
<1>4. Calm
  BY <1>0, <1>2, OneCalm
<1> QED
  BY <1>3, <1>4, CalmDoubt

\* A selection is looked at again: what is in doubt is settled or fenced, or another
\* thread has it in hand, and then this one does not.
LEMMA RecheckStep ==
    ASSUME IInv, NEW t \in Threads, Recheck(t)
    PROVE  Step /\ DoubtInv'
<1>0. /\ thread[t].pc = "claimed" /\ thread[t].pc # "idle"
      /\ UNCHANGED <<row, req, cleanup, memfence, saved, doubtful, used>>
  BY DEF Recheck
<1>1. ReqSteps
  BY <1>0, NothingAsked
<1>2. CASE Leaves(t)
  BY <1>0, <1>2, LeavingStep
<1>3. CASE /\ Pending(req, thread[t].r) /\ ~Fenced(thread[t].r)
           /\ req[thread[t].r].kind = "output" /\ Goes(t, "deliver")
  <2>1. /\ ThreadSteps /\ thread'[t].pc = "deliver"
        /\ \A u \in Threads : u # t => thread'[u] = thread[u]
    BY <1>0, <1>1, <1>3, GoesStep DEF Points, Presenting
  <2>2. Step
    BY <1>0, <2>1, ThreadOnly DEF IInv, TypeOK
  <2>3. Calm
    BY <1>0, <2>1, OneCalm
  <2> QED
    BY <2>2, <2>3, CalmDoubt
<1>4. CASE /\ Pending(req, thread[t].r) /\ ~Fenced(thread[t].r)
           /\ req[thread[t].r].kind # "output" /\ Goes(t, "present")
  <2>1. /\ ThreadSteps /\ thread'[t].pc = "present" /\ thread'[t].r = thread[t].r
        /\ \A u \in Threads : u # t => thread'[u] = thread[u]
    BY <1>0, <1>1, <1>4, GoesStep DEF Points, Delivering
  <2>2. Step
    BY <1>0, <2>1, ThreadOnly DEF IInv, TypeOK
  <2>3. thread[t].r \notin doubtful
    <3> SUFFICES ASSUME thread[t].r \in doubtful PROVE FALSE
      OBVIOUS
    <3>1. PICK u \in Threads : thread[u].pc = "doubt" /\ thread[u].r = thread[t].r
      BY <1>4 DEF IInv, DoubtInv
    <3>2. thread[t].r # NoRequest
      BY <1>0, NoneAsked DEF IInv, ThreadsInv
    <3> QED
      BY <1>0, <3>1, <3>2 DEF IInv, ThreadsInv
  <2>4. \A u \in Threads : thread[u].pc = "doubt" => thread'[u] = thread[u]
    BY <1>0, <2>1
  <2>5. DoubtInv'
    BY <1>0, <2>1, <2>3, <2>4 DEF IInv, DoubtInv, Pending, Fenced
  <2> QED
    BY <2>2, <2>5
<1> QED
  BY <1>2, <1>3, <1>4 DEF Recheck

\* The dispatch uses up the release.
LEMMA DispatchStep ==
    ASSUME IInv, NEW t \in Threads, Dispatch(t)
    PROVE  Step /\ DoubtInv'
<1>0. /\ thread[t].pc = "present" /\ thread[t].pc # "idle" /\ Released(thread[t].r)
      /\ req' = Spend(thread[t].r, TRUE) /\ Goes(t, "io")
      /\ UNCHANGED <<row, cleanup, memfence, saved, doubtful, used>>
  BY DEF Dispatch
<1>1. thread[t].r \in Requests /\ req[thread[t].r].kind # "output"
  BY <1>0 DEF IInv, ThreadsInv, Presenting
<1>2. ReqSteps /\ Together /\ \A x \in Requests : Pending(req', x) <=> Pending(req, x)
  BY <1>0, <1>1, SpendStep
<1>3. RowSteps /\ CleanSteps /\ SavedSteps
  BY <1>0, <1>2, NoRow, NoEnd
<1>4. /\ ThreadSteps /\ thread'[t].pc = "io"
      /\ \A u \in Threads : u # t => thread'[u] = thread[u]
  BY <1>0, <1>1, <1>2, GoesStep DEF Points, Delivering
<1>5. Step
  BY <1>0, <1>2, <1>3, <1>4, UsedType DEF Step, IInv, TypeOK
<1>6. Calm
  BY <1>0, <1>4, OneCalm
<1> QED
  BY <1>5, <1>6, CalmDoubt

\* A provider that gave no answer, or did not start: the release is given back.
LEMMA NoAnswerStep ==
    ASSUME IInv, NEW t \in Threads, NEW fault, NoAnswer(t, fault)
    PROVE  Step /\ DoubtInv'
<1>0. /\ thread[t].pc = "io" /\ thread[t].pc # "idle" /\ Faulty /\ Leaves(t)
      /\ req' = req \/ req' = Spend(thread[t].r, FALSE)
      /\ UNCHANGED <<row, cleanup, memfence, saved, doubtful>>
  BY DEF NoAnswer
<1>1. thread[t].r \in Requests
  BY <1>0 DEF IInv, ThreadsInv
<1>2. ReqSteps /\ Together /\ \A x \in Requests : Pending(req', x) <=> Pending(req, x)
  BY <1>0, <1>1, SpendStep, NothingAsked DEF Pending
<1>3. RowSteps /\ CleanSteps /\ SavedSteps
  BY <1>0, <1>2, NoRow, NoEnd
<1>4. /\ ThreadSteps /\ thread'[t].pc = "idle"
      /\ \A u \in Threads : u # t => thread'[u] = thread[u]
  BY <1>0, LeavesStep
<1>5. Step
  BY <1>0, <1>2, <1>3, <1>4, UsedType DEF Step, IInv, TypeOK
<1>6. Calm
  BY <1>0, <1>4, OneCalm
<1> QED
  BY <1>5, <1>6, CalmDoubt

\* The answer, and the doubt, keep the request in hand.
LEMMA AnswerStep ==
    ASSUME IInv, NEW t \in Threads, NEW verdict \in Verdicts, Answer(t, verdict)
    PROVE  Step /\ DoubtInv'
<1>0. /\ thread[t].pc = "io" /\ thread[t].pc # "idle" /\ Goes(t, verdict)
      /\ UNCHANGED <<row, req, cleanup, memfence, saved, doubtful, used>>
      /\ verdict \in Points \ Delivering /\ verdict # "release" /\ verdict # "present"
  BY DEF Answer, Verdicts, Points, Delivering
<1>1. ReqSteps /\ req[thread[t].r].kind # "output"
  BY <1>0, NothingAsked DEF IInv, ThreadsInv, Presenting
<1>2. /\ ThreadSteps /\ thread'[t].pc = verdict
      /\ \A u \in Threads : u # t => thread'[u] = thread[u]
  BY <1>0, <1>1, GoesStep
<1>3. Step
  BY <1>0, <1>2, ThreadOnly DEF IInv, TypeOK
<1>4. Calm
  BY <1>0, <1>2, OneCalm
<1> QED
  BY <1>3, <1>4, CalmDoubt

\* The provider raises: the request is doubtful, and its thread still has it.
LEMMA AmbiguousStep ==
    ASSUME IInv, NEW t \in Threads, Ambiguous(t)
    PROVE  Step /\ DoubtInv'
<1>0. /\ thread[t].pc = "io" /\ thread[t].pc # "idle" /\ Goes(t, "doubt") /\ Faulty
      /\ doubtful' = doubtful \cup {thread[t].r}
      /\ UNCHANGED <<row, req, cleanup, memfence, saved>>
  BY DEF Ambiguous
<1>1. ReqSteps /\ req[thread[t].r].kind # "output"
  BY <1>0, NothingAsked DEF IInv, ThreadsInv, Presenting
<1>2. thread[t].r \in Requests /\ req[thread[t].r].status # "none" /\ thread[t].r # NoRequest
  BY <1>0, NoneAsked DEF IInv, ThreadsInv
<1>3. /\ ThreadSteps /\ thread'[t].pc = "doubt" /\ thread'[t].r = thread[t].r
      /\ \A u \in Threads : u # t => thread'[u] = thread[u]
  BY <1>0, <1>1, GoesStep DEF Points, Delivering
<1>4. Step
  BY <1>0, <1>2, <1>3, ThreadOnly DEF IInv, TypeOK
<1>5. DoubtInv'
  <2>1. \A u \in Threads : thread[u].pc = "doubt" => thread'[u] = thread[u]
    BY <1>0, <1>3
  <2>2. \A u \in Threads : thread'[u].pc = "present" => thread'[u].r \notin doubtful'
    <3> SUFFICES ASSUME NEW u \in Threads, thread'[u].pc = "present"
                 PROVE  thread'[u].r \notin doubtful'
      OBVIOUS
    <3>1. u # t /\ thread'[u] = thread[u]
      BY <1>3
    <3>2. thread[u].r # thread[t].r
      BY <1>2, <3>1 DEF IInv, ThreadsInv
    <3> QED
      BY <1>0, <3>1, <3>2 DEF IInv, DoubtInv
  <2> QED
    BY <1>0, <1>1, <1>2, <1>3, <2>1, <2>2 DEF IInv, DoubtInv, Pending, Fenced
<1> QED
  BY <1>4, <1>5

\* A drain that asked for a release goes on with it, when nobody has it.
LEMMA TakeReleaseStep ==
    ASSUME IInv, NEW t \in Threads, TakeRelease(t)
    PROVE  Step /\ DoubtInv'
<1>0. /\ thread[t].pc = "release" /\ thread[t].pc # "idle" /\ thread[t].pc # "doubt"
      /\ UNCHANGED <<row, req, cleanup, memfence, saved, doubtful, used>>
  BY DEF TakeRelease
<1>1. CASE Leaves(t)
  BY <1>0, <1>1, LeavingStep
<1>2. CASE ~Leaves(t)
  <2> DEFINE x == req[thread[t].r].link
  <2>1. /\ Pending(req, x) /\ x \notin Claimed
        /\ thread' = [thread EXCEPT ![t] = [pc |-> "claimed", r |-> x, up |-> thread[t].r]]
    BY <1>2 DEF TakeRelease
  <2>2. thread[t].r \in Requests /\ x \in Requests
    BY <1>0 DEF IInv, TypeOK, ReqRows, ThreadsInv
  <2> HIDE DEF x
  <2>3. PICK s : s = [pc |-> "claimed", r |-> x, up |-> thread[t].r]
    OBVIOUS
  <2>4. s \in ThreadStates /\ s.pc = "claimed" /\ s.r = x
    BY <2>2, <2>3 DEF ThreadStates
  <2>5. thread' = [thread EXCEPT ![t] = s]
    BY <2>1, <2>3
  <2>6. /\ s.pc \in {"claimed", "deliver"} /\ s.r \in Requests /\ req'[s.r].status # "none"
        /\ s.pc = "deliver" => req'[s.r].kind = "output"
        /\ \A u \in Threads : u # t => thread[u].r # s.r
    BY <1>0, <2>1, <2>2, <2>4 DEF Pending, Claimed
  <2>7. ThreadSteps /\ thread'[t] = s /\ \A u \in Threads : u # t => thread'[u] = thread[u]
    BY <2>4, <2>5, <2>6, TakesStep
  <2>8. Step
    BY <1>0, <2>7, ThreadOnly DEF IInv, TypeOK
  <2>9. Calm
    BY <1>0, <2>4, <2>7, OneCalm
  <2> QED
    BY <2>8, <2>9, CalmDoubt
<1> QED
  BY <1>1, <1>2

\* Linking a row to its release changes nothing else.
LEMMA Relinks ==
    ASSUME NEW q \in ReqRows, NEW x \in Requests, NEW s, s = [q EXCEPT !.link = x]
    PROVE  /\ s \in ReqRows /\ s.status = q.status /\ s.kind = q.kind /\ s.blocking = q.blocking
           /\ s.gated = q.gated /\ s.for = q.for /\ s.mark = q.mark /\ s.link = x
  BY DEF ReqRows

\* A new release for the request in hand: both are of the process that now waits.
LEMMA AskReleaseStep ==
    ASSUME IInv, NEW t \in Threads, NEW x \in Requests, AskRelease(t, x)
    PROVE  Step /\ DoubtInv'
<1> DEFINE r == thread[t].r
           p == OwnerOf[r]
           new == [Unasked EXCEPT !.status = "pending", !.kind = "release", !.blocking = TRUE,
                                  !.for = r]
<1>0. /\ thread[t].pc = "present" /\ thread[t].pc # "idle" /\ thread[t].pc # "doubt"
      /\ ~Released(r) /\ Pending(req, r) /\ req[x] = Unasked /\ OwnerOf[x] = p
      /\ req' = [req EXCEPT ![r].link = x, ![x] = new]
      /\ MayWait(p, req') /\ row' = [row EXCEPT ![p] = Waiting(p, req')] /\ Goes(t, "release")
      /\ UNCHANGED <<cleanup, memfence, saved, doubtful, used>>
  BY DEF AskRelease
<1>1. /\ r \in Requests /\ p \in Procs /\ req[r].gated /\ req[r].kind # "output"
      /\ req[r].status # "none" /\ x # r
  BY <1>0, HumanAssumption DEF IInv, ThreadsInv, Presenting, Released, Pending, Unasked
<1>2. /\ new \in ReqRows /\ new.status = "pending" /\ new.kind = "release" /\ new.blocking
      /\ new.for = r /\ new.mark = "none" /\ new.gated = FALSE
  BY <1>1 DEF Unasked, ReqRows
<1>3. req \in [Requests -> ReqRows] /\ row \in [Procs -> Rows]
  BY DEF IInv, TypeOK
<1> HIDE DEF r, p, new
<1>4. /\ req'[x] = new /\ req'[r] = [req[r] EXCEPT !.link = x]
      /\ \A y \in Requests : y \notin {x, r} => req'[y] = req[y]
  BY <1>0, <1>1, <1>3
<1>5. /\ req'[r] \in ReqRows /\ req'[r].status = req[r].status /\ req'[r].kind = req[r].kind
      /\ req'[r].blocking = req[r].blocking /\ req'[r].gated = req[r].gated
      /\ req'[r].for = req[r].for /\ req'[r].mark = req[r].mark /\ req'[r].link = x
  <2>1. req[r] \in ReqRows
    BY <1>1, <1>3
  <2>2. PICK q : q = req[r]
    OBVIOUS
  <2>3. PICK s : s = [q EXCEPT !.link = x]
    OBVIOUS
  <2>4. req'[r] = s
    BY <1>4, <2>2, <2>3
  <2> QED
    BY <2>1, <2>2, <2>3, <2>4, Relinks
<1>6. /\ RowSteps /\ row'[p] = Waiting(p, req')
      /\ \A q \in Procs : q # p => row'[q] = row[q]
  <2>1. Awaits(p, Waiting(p, req'), req') /\ Live(row[p])
    BY <1>0, <1>1, <1>3, WaitingAwaits DEF MayWait
  <2>2. x \in Blockers(req', p)
    BY <1>0, <1>2, <1>4 DEF Blockers, Pending, p
  <2>3. \A y \in Requests : OwnerOf[y] # p => req'[y] = req[y]
    BY <1>0, <1>4 DEF p
  <2>4. PICK s : s = Waiting(p, req')
    OBVIOUS
  <2>5. row' = [row EXCEPT ![p] = s]
    BY <1>0, <2>4
  <2>6. Awaits(p, s, req') /\ Blockers(req', p) # {}
    BY <2>1, <2>2, <2>4
  <2>7. /\ RowSteps /\ row'[p] = s
        /\ \A q \in Procs : q # p => row'[q] = row[q]
    BY <1>1, <2>1, <2>3, <2>5, <2>6, OneRow
  <2> QED
    BY <2>4, <2>7
<1>7. ~Terminal(row'[p]) /\ Live(row'[p])
  BY <1>1, <1>3, <1>6, WaitingAwaits DEF Awaits, Good, Live
<1>8. ReqSteps
  <2>1. req' \in [Requests -> ReqRows]
    BY <1>0, <1>2, <1>3, <1>4, <1>5
  <2>2. ReqStep(x)
    BY <1>0, <1>1, <1>2, <1>4, <1>7 DEF ReqStep, Unasked, p
  <2>3. ReqStep(r)
    BY <1>1, <1>5 DEF ReqStep
  <2>4. \A y \in Requests : y \notin {x, r} => ReqStep(y)
    BY <1>4 DEF ReqStep
  <2> QED
    BY <2>1, <2>2, <2>3, <2>4 DEF ReqSteps
<1>9. Together
  BY <1>0, <1>2, <1>4, <1>5 DEF Together, Pending, Unasked
<1>10. CleanSteps /\ SavedSteps
  BY <1>0, <1>6, <1>7, NoEnd
<1>11. /\ ThreadSteps /\ thread'[t].pc = "release"
       /\ \A u \in Threads : u # t => thread'[u] = thread[u]
  <2>1. req'[r].link # NoRequest
    BY <1>5, NoneAsked
  <2> QED
    BY <1>0, <1>1, <1>8, <2>1, GoesStep DEF Points, Delivering, r
<1>12. Step
  BY <1>0, <1>6, <1>8, <1>9, <1>10, <1>11, UsedType DEF Step, IInv, TypeOK
<1>13. Calm
  BY <1>0, <1>11, OneCalm
<1> QED
  BY <1>12, <1>13, CalmDoubt

-------------------------------------------------------------------------------
(* Decisions *)

\* What a decision writes.
LEMMA DecidesWrites ==
    ASSUME IInv, NEW r \in Requests, NEW verdict \in Verdicts, Decides(r, verdict)
    PROVE  ReqSteps /\ Together /\ RowSteps /\ CleanSteps /\ SavedSteps
<1> DEFINE p == OwnerOf[r]
           parent == Parent(r, verdict)
<1>0. /\ MayDecide(r, req') /\ req' = Settled(r, verdict, "none", parent)
      /\ row' = [row EXCEPT ![p] = AfterDecision(r, req', verdict, parent)]
      /\ UNCHANGED <<cleanup, saved>>
  BY DEF Decides
<1>1. Pending(req, r) /\ Live(row[p]) /\ p \in Procs /\ row[p] \in Rows
  BY <1>0, HumanAssumption DEF MayDecide, IInv, TypeOK
<1>2. parent = IF verdict = "approved" THEN NoRequest ELSE LinkedParent(r)
  BY DEF Parent
<1> HIDE DEF p, parent
<1>3. /\ ReqSteps /\ Together
      /\ \A x \in Requests : OwnerOf[x] # p => req'[x] = req[x]
  BY <1>0, <1>1, <1>2, SettledStep DEF Verdicts, p
<1>4. PICK s : s = AfterDecision(r, req', verdict, parent)
  OBVIOUS
<1>5. \/ s = row[p] /\ row[p].status # "waiting_human"
      \/ s = Waiting(p, req') /\ Blockers(req', p) # {}
      \/ s = Moves(row[p], "runnable", NoWait, "none")
      \/ s = Moves(row[p], "paused", Paused("paused"), "none")
  BY <1>4 DEF AfterDecision, p
<1>6. /\ \/ s = row[p] /\ row[p].status # "waiting_human"
         \/ Halts(s)
         \/ Awaits(p, s, req') /\ Blockers(req', p) # {}
      /\ s = row[p] \/ ~Terminal(s)
  BY <1>1, <1>5, MovesHalt, WaitingAwaits
<1>7. RowSteps /\ row'[p] = s /\ \A q \in Procs : q # p => row'[q] = row[q]
  BY <1>0, <1>1, <1>3, <1>4, <1>6, OneRow
<1>8. CleanSteps /\ SavedSteps
  BY <1>0, <1>6, <1>7, NoEnd
<1> QED
  BY <1>3, <1>7, <1>8

\* The Host decides.
LEMMA HostDecidesStep ==
    ASSUME IInv, NEW r \in Requests, NEW verdict \in Verdicts, HostDecides(r, verdict)
    PROVE  Step /\ DoubtInv'
<1>0. Decides(r, verdict) /\ UNCHANGED <<thread, used, memfence, doubtful>>
  BY DEF HostDecides, Decides
<1>1. Step
  BY <1>0, DecidesWrites, ThreadsStay, UsedType DEF Step, IInv, TypeOK
<1>2. Calm
  BY <1>0 DEF Calm
<1> QED
  BY <1>1, <1>2, CalmDoubt

\* A drain decides with the answer, if it still may.
LEMMA SettleStep ==
    ASSUME IInv, NEW t \in Threads, Settle(t)
    PROVE  Step /\ DoubtInv'
<1>0. /\ thread[t].pc \in Verdicts /\ thread[t].pc # "idle" /\ thread[t].pc # "doubt"
      /\ Leaves(t) /\ UNCHANGED <<used, memfence, doubtful, cleanup, saved>>
  BY DEF Settle, Verdicts, Decides
<1>1. CASE UNCHANGED <<row, req>>
  BY <1>0, <1>1, LeavingStep
<1>2. CASE Decides(thread[t].r, thread[t].pc)
  <2>1. thread[t].r \in Requests
    BY <1>0 DEF IInv, ThreadsInv
  <2>2. /\ ThreadSteps /\ thread'[t].pc = "idle"
        /\ \A u \in Threads : u # t => thread'[u] = thread[u]
    BY <1>0, LeavesStep
  <2>3. Step
    BY <1>0, <1>2, <2>1, <2>2, DecidesWrites, UsedType DEF Step, IInv, TypeOK
  <2>4. Calm
    BY <1>0, <2>2, OneCalm
  <2> QED
    BY <2>3, <2>4, CalmDoubt
<1> QED
  BY <1>1, <1>2 DEF Settle

\* What the end of a request in doubt writes: its process is behind a gate.
LEMMA UnknownWrites ==
    ASSUME IInv, NEW r \in Requests, Pending(req, r), UNCHANGED <<cleanup, saved>>,
           req' = Settled(r, "cancelled", "unknown", LinkedParent(r)),
           row' = [row EXCEPT ![OwnerOf[r]] = Gated(OwnerOf[r])]
    PROVE  ReqSteps /\ Together /\ RowSteps /\ CleanSteps /\ SavedSteps /\ ~Pending(req', r)
<1> DEFINE p == OwnerOf[r]
<1>1. p \in Procs /\ row[p] \in Rows
  BY HumanAssumption DEF IInv, TypeOK
<1> HIDE DEF p
<1>2. /\ ReqSteps /\ Together
      /\ \A x \in Requests : OwnerOf[x] # p => req'[x] = req[x]
  BY SettledStep DEF p
<1>3. PICK s : s = Gated(p)
  OBVIOUS
<1>4. \/ s = row[p] /\ row[p].status # "waiting_human"
      \/ Live(row[p]) /\ Halts(s) /\ ~Terminal(s)
  BY <1>1, <1>3, MovesHalt DEF Gated, Live, Exists, Terminal, TerminalStatuses
<1>5. RowSteps /\ row'[p] = s /\ \A q \in Procs : q # p => row'[q] = row[q]
  BY <1>1, <1>2, <1>3, <1>4, OneRow DEF p
<1>6. CleanSteps /\ SavedSteps
  BY <1>4, <1>5, NoEnd
<1>7. ~Pending(req', r)
  BY DEF Settled, Pending, IInv, TypeOK, ReqRows
<1> QED
  BY <1>2, <1>5, <1>6, <1>7

\* The Host settles a durable fence.
LEMMA ReconcileStep ==
    ASSUME IInv, NEW r \in Requests, Reconcile(r)
    PROVE  Step /\ DoubtInv'
<1>0. UNCHANGED <<thread, used, memfence, doubtful>>
  BY DEF Reconcile
<1>1. Step
  BY <1>0, UnknownWrites, ThreadsStay, UsedType DEF Reconcile, Step, IInv, TypeOK
<1>2. Calm
  BY <1>0 DEF Calm
<1> QED
  BY <1>1, <1>2, CalmDoubt

\* A thread leaves a request in doubt that is settled or fenced.
LEMMA LeavesDoubt ==
    ASSUME IInv, Step, NEW t \in Threads, thread'[t].pc = "idle",
           \A u \in Threads : u # t => thread'[u] = thread[u],
           NEW r0, r0 = thread[t].r,
           ~Pending(req', r0) \/ req'[r0].mark # "none" \/ r0 \in memfence',
           doubtful' = doubtful, memfence \subseteq memfence'
    PROVE  DoubtInv'
<1>1. ASSUME NEW r \in doubtful
      PROVE  /\ req'[r].status # "none" /\ req'[r].kind # "output"
             /\ \/ ~Pending(req', r)
                \/ Fenced(r)'
                \/ \E u \in Threads : thread'[u].pc = "doubt" /\ thread'[u].r = r
  <2>1. r \in Requests /\ req[r].status # "none" /\ req[r].kind # "output"
    BY DEF IInv, TypeOK, DoubtInv
  <2>2. /\ req'[r].status # "none" /\ req'[r].kind # "output"
        /\ Pending(req', r) => Pending(req, r)
    BY <2>1, AskedStays DEF Step
  <2>3. ReqStep(r)
    BY <2>1 DEF Step, ReqSteps
  <2>4. Pending(req', r) /\ Fenced(r) => Fenced(r)'
    BY <2>1, <2>3 DEF ReqStep, Fenced
  <2>5. CASE thread[t].r = r
    BY <2>2, <2>5 DEF Fenced
  <2>6. CASE thread[t].r # r
    <3>1. \A u \in Threads : thread[u].pc = "doubt" /\ thread[u].r = r =>
            thread'[u].pc = "doubt" /\ thread'[u].r = r
      BY <2>6
    <3> QED
      BY <2>2, <2>4, <3>1 DEF IInv, DoubtInv
  <2> QED
    BY <2>5, <2>6
<1>2. \A u \in Threads : thread'[u].pc = "present" => thread'[u].r \notin doubtful'
  BY DEF IInv, DoubtInv
<1> QED
  BY <1>1, <1>2 DEF DoubtInv

\* The doubt is recorded: with the request and its process,
LEMMA MarkUnknownStep ==
    ASSUME IInv, NEW t \in Threads, MarkUnknown(t)
    PROVE  Step /\ DoubtInv'
<1>0. /\ thread[t].pc = "doubt" /\ thread[t].pc # "idle" /\ Leaves(t)
      /\ UNCHANGED <<cleanup, memfence, saved, doubtful, used>>
  BY DEF MarkUnknown
<1>1. thread[t].r \in Requests
  BY <1>0 DEF IInv, ThreadsInv
<1>2. /\ ReqSteps /\ Together /\ RowSteps /\ CleanSteps /\ SavedSteps
      /\ ~Pending(req', thread[t].r)
  <2>1. CASE Pending(req, thread[t].r)
    BY <1>0, <1>1, <2>1, UnknownWrites DEF MarkUnknown
  <2>2. CASE ~Pending(req, thread[t].r)
    <3>1. UNCHANGED <<req, row>>
      BY <2>2 DEF MarkUnknown
    <3> QED
      BY <1>0, <2>2, <3>1, NothingAsked, NoRow, NoEnd DEF Pending
  <2> QED
    BY <2>1, <2>2
<1>3. /\ ThreadSteps /\ thread'[t].pc = "idle"
      /\ \A u \in Threads : u # t => thread'[u] = thread[u]
  BY <1>0, LeavesStep
<1>4. Step
  BY <1>0, <1>2, <1>3, UsedType DEF Step, IInv, TypeOK
<1> QED
  BY <1>0, <1>2, <1>3, <1>4, LeavesDoubt

\* with the request alone,
LEMMA MarkFenceStep ==
    ASSUME IInv, NEW t \in Threads, MarkFence(t)
    PROVE  Step /\ DoubtInv'
<1> DEFINE r == thread[t].r
<1>0. /\ thread[t].pc = "doubt" /\ thread[t].pc # "idle" /\ Leaves(t)
      /\ UNCHANGED <<row, cleanup, memfence, saved, doubtful, used>>
      /\ req' = IF Pending(req, r) THEN [req EXCEPT ![r].mark = "fence"] ELSE req
  BY DEF MarkFence
<1>1. r \in Requests /\ req \in [Requests -> ReqRows]
  BY <1>0 DEF IInv, TypeOK, ThreadsInv
<1> HIDE DEF r
<1>2. /\ ReqSteps /\ Together
      /\ ~Pending(req', r) \/ req'[r].mark # "none"
      /\ \A x \in Requests : req[x].blocking /\ Pending(req, x) => Pending(req', x)
  <2>1. CASE Pending(req, r)
    <3>1. /\ req'[r] = [req[r] EXCEPT !.mark = "fence"]
          /\ \A x \in Requests : x # r => req'[x] = req[x]
      BY <1>0, <1>1, <2>1
    <3>2. Resettled(req[r], [req[r] EXCEPT !.mark = "fence"], req[r].status, "fence")
      BY <1>1, <2>1, Resettles DEF Pending
    <3>3. Resettled(req[r], req'[r], req[r].status, "fence") /\ req[r].status # "none"
      BY <2>1, <3>1, <3>2 DEF Pending
    <3>4. req' = [x \in Requests |-> req'[x]]
      BY <1>0, <1>1, <2>1
    <3>5. req'[r].mark # "none"
      BY <3>3 DEF Resettled
    <3> QED
      BY <1>1, <3>1, <3>3, <3>4, <3>5, OneRequest
  <2>2. CASE ~Pending(req, r)
    BY <1>0, <2>2, NothingAsked DEF Pending
  <2> QED
    BY <2>1, <2>2
<1>3. RowSteps /\ CleanSteps /\ SavedSteps
  BY <1>0, <1>2, NoRow, NoEnd
<1>4. /\ ThreadSteps /\ thread'[t].pc = "idle"
      /\ \A u \in Threads : u # t => thread'[u] = thread[u]
  BY <1>0, LeavesStep
<1>5. Step
  BY <1>0, <1>2, <1>3, <1>4, UsedType DEF Step, IInv, TypeOK
<1> QED
  BY <1>0, <1>2, <1>4, <1>5, LeavesDoubt DEF r

\* or in memory.
LEMMA MarkMemoryStep ==
    ASSUME IInv, NEW t \in Threads, MarkMemory(t)
    PROVE  Step /\ DoubtInv'
<1>0. /\ thread[t].pc = "doubt" /\ thread[t].pc # "idle" /\ Leaves(t)
      /\ memfence' = memfence \cup {thread[t].r}
      /\ UNCHANGED <<row, req, cleanup, saved, doubtful, used>>
  BY DEF MarkMemory
<1>1. thread[t].r \in Requests
  BY <1>0 DEF IInv, ThreadsInv
<1>2. /\ ThreadSteps /\ thread'[t].pc = "idle"
      /\ \A u \in Threads : u # t => thread'[u] = thread[u]
  BY <1>0, LeavesStep
<1>3. Step
  BY <1>0, <1>1, <1>2, ThreadOnly DEF IInv, TypeOK
<1> QED
  BY <1>0, <1>2, <1>3, LeavesDoubt

-------------------------------------------------------------------------------
(* Asking, and outputs *)

\* The row of a new request.
LEMMA NewRequestRow ==
    ASSUME NEW a \in AskRecords, NEW n, n = NewRequest(a)
    PROVE  /\ n \in ReqRows /\ n.status = "pending" /\ n.kind = a.kind /\ n.kind # "none"
           /\ n.kind # "release" /\ n.blocking = a.blocking /\ n.for = NoRequest
           /\ n.kind = "output" => ~n.blocking
  BY DEF AskRecords, NewRequest, Unasked, ReqRows

\* A request is asked, of a live process unless it is an output.
LEMMA AskStep ==
    ASSUME IInv, NEW r \in Requests, NEW a \in AskRecords, req[r] = Unasked,
           req' = [req EXCEPT ![r] = NewRequest(a)],
           a.kind = "output" \/ Live(row'[OwnerOf[r]])
    PROVE  /\ ReqSteps /\ Together /\ Pending(req', r) /\ req'[r].kind = a.kind
           /\ req'[r].blocking = a.blocking
           /\ \A x \in Requests : x # r => req'[x] = req[x]
<1>0. req \in [Requests -> ReqRows] /\ req[r].status = "none" /\ req[r].for = NoRequest
  BY DEF IInv, TypeOK, Unasked
<1>1. PICK n : n = NewRequest(a)
  OBVIOUS
<1>2. /\ n \in ReqRows /\ n.status = "pending" /\ n.kind = a.kind /\ n.kind # "none"
      /\ n.kind # "release" /\ n.blocking = a.blocking /\ n.for = NoRequest
      /\ n.kind = "output" => ~n.blocking
  BY <1>1, NewRequestRow
<1>3. req' = [req EXCEPT ![r] = n]
  BY <1>1
<1>4. req'[r] = n /\ \A x \in Requests : x # r => req'[x] = req[x]
  BY <1>0, <1>3
<1>5. req' \in [Requests -> ReqRows]
  BY <1>0, <1>2, <1>3
<1>6. ReqStep(r)
  BY <1>0, <1>2, <1>4 DEF ReqStep
<1>7. \A x \in Requests : x # r => ReqStep(x)
  BY <1>4 DEF ReqStep
<1>8. Together
  BY <1>0, <1>4 DEF Together, Pending
<1> QED
  BY <1>2, <1>4, <1>5, <1>6, <1>7, <1>8 DEF ReqSteps, Pending

\* A question or a permission: with a blocking one, its process waits.
LEMMA QueryStep ==
    ASSUME IInv, NEW r \in Requests, NEW a \in AskRecords, Query(r, a)
    PROVE  Step /\ DoubtInv'
<1> DEFINE p == OwnerOf[r]
<1>0. /\ req[r] = Unasked /\ a.kind # "output" /\ Live(row[p])
      /\ req' = [req EXCEPT ![r] = NewRequest(a)]
      /\ UNCHANGED <<cleanup, thread, memfence, saved, doubtful, used>>
  BY DEF Query
<1>1. \/ a.blocking /\ row' = [row EXCEPT ![p] = Waiting(p, req')]
      \/ ~a.blocking /\ UNCHANGED row
  BY DEF Query
<1>2. p \in Procs /\ row \in [Procs -> Rows] /\ row[p] \in Rows
  BY HumanAssumption DEF IInv, TypeOK
<1>3. ~Terminal(Waiting(p, req')) /\ Awaits(p, Waiting(p, req'), req')
  BY <1>2, WaitingAwaits
<1> HIDE DEF p
<1>4. Live(row'[p])
  <2>1. Live(Waiting(p, req'))
    BY <1>3 DEF Live, Awaits, Good
  <2> QED
    BY <1>0, <1>1, <1>2, <2>1
<1>5. /\ ReqSteps /\ Together /\ Pending(req', r) /\ req'[r].blocking = a.blocking
      /\ \A x \in Requests : x # r => req'[x] = req[x]
  BY <1>0, <1>4, AskStep DEF p
<1>6. RowSteps /\ \A q \in Procs : row'[q] = row[q] \/ ~Terminal(row'[q])
  <2>1. CASE a.blocking /\ row' = [row EXCEPT ![p] = Waiting(p, req')]
    <3>1. PICK s : s = Waiting(p, req')
      OBVIOUS
    <3>2. row' = [row EXCEPT ![p] = s] /\ Awaits(p, s, req') /\ ~Terminal(s)
      BY <1>3, <2>1, <3>1
    <3>3. r \in Blockers(req', p)
      BY <1>5, <2>1 DEF Blockers, p
    <3>4. \A x \in Requests : OwnerOf[x] # p => req'[x] = req[x]
      BY <1>5 DEF p
    <3>5. RowSteps /\ row'[p] = s /\ \A q \in Procs : q # p => row'[q] = row[q]
      BY <1>0, <1>2, <3>2, <3>3, <3>4, OneRow
    <3> QED
      BY <3>2, <3>5
  <2>2. CASE ~a.blocking /\ UNCHANGED row
    <3>1. \A x \in Requests : req[x].blocking /\ Pending(req, x) => Pending(req', x)
      BY <1>5 DEF Pending
    <3> QED
      BY <2>2, <3>1, NoRow
  <2> QED
    BY <1>1, <2>1, <2>2
<1>7. CleanSteps /\ SavedSteps
  BY <1>0, <1>6, NoEnd
<1>8. Step
  BY <1>0, <1>5, <1>6, <1>7, ThreadsStay, UsedType DEF Step, IInv, TypeOK
<1>9. Calm
  BY <1>0 DEF Calm
<1> QED
  BY <1>8, <1>9, CalmDoubt

\* An output, which its caller takes at once.
LEMMA OutputStep ==
    ASSUME IInv, NEW t \in Threads, NEW r \in Requests, NEW a \in AskRecords, Output(t, r, a)
    PROVE  Step /\ DoubtInv'
<1>0. /\ thread[t] = Idle /\ req[r] = Unasked /\ a.kind = "output"
      /\ req' = [req EXCEPT ![r] = NewRequest(a)]
      /\ thread' = [thread EXCEPT ![t] = [pc |-> "deliver", r |-> r, up |-> NoRequest]]
      /\ UNCHANGED <<row, cleanup, memfence, saved, doubtful, used>>
  BY DEF Output
<1>1. /\ ReqSteps /\ Together /\ Pending(req', r) /\ req'[r].kind = "output"
      /\ \A x \in Requests : x # r => req'[x] = req[x]
  BY <1>0, AskStep
<1>2. RowSteps /\ CleanSteps /\ SavedSteps
  <2>1. \A x \in Requests : req[x].blocking /\ Pending(req, x) => Pending(req', x)
    BY <1>1 DEF Pending
  <2> QED
    BY <1>0, <2>1, NoRow, NoEnd
<1>3. /\ ThreadSteps /\ thread'[t].pc = "deliver"
      /\ \A u \in Threads : u # t => thread'[u] = thread[u]
  <2>1. PICK s : s = [pc |-> "deliver", r |-> r, up |-> NoRequest]
    OBVIOUS
  <2>2. s \in ThreadStates /\ s.pc = "deliver" /\ s.r = r
    BY <2>1 DEF ThreadStates
  <2>3. thread' = [thread EXCEPT ![t] = s]
    BY <1>0, <2>1
  <2>4. \A u \in Threads : thread[u].r # r
    <3> SUFFICES ASSUME NEW u \in Threads, thread[u].r = r PROVE FALSE
      OBVIOUS
    <3>1. thread[u].pc # "idle"
      BY NoneAsked DEF IInv, ThreadsInv
    <3> QED
      BY <1>0, <3>1 DEF IInv, ThreadsInv, Unasked
  <2>5. req'[s.r].status # "none" /\ req'[s.r].kind = "output"
    BY <1>1, <2>2 DEF Pending
  <2>6. ThreadSteps /\ thread'[t] = s /\ \A u \in Threads : u # t => thread'[u] = thread[u]
    BY <2>2, <2>3, <2>4, <2>5, TakesStep
  <2> QED
    BY <2>2, <2>6
<1>4. Step
  BY <1>0, <1>1, <1>2, <1>3, UsedType DEF Step, IInv, TypeOK
<1>5. Calm
  BY <1>0, <1>3, OneCalm DEF Idle
<1> QED
  BY <1>4, <1>5, CalmDoubt

\* The status of the output in hand is written, or not, and its thread leaves or goes on.
LEMMA DeliveryStep ==
    ASSUME IInv, NEW t \in Threads, NEW r \in Requests, r = thread[t].r,
           thread[t].pc \in Delivering,
           NEW status \in {"pending", "delivered", "cancelled"}, req[r].kind = "output",
           req' = req \/ req' = [req EXCEPT ![r].status = status],
           \/ req' = req
           \/ Pending(req, r) /\ status \in {"cancelled", "delivered"}
           \/ req[r].status = "delivered" /\ status = "pending",
           NEW pc \in {"write", "undo"}, Leaves(t) \/ Goes(t, pc),
           UNCHANGED <<row, cleanup, memfence, saved, doubtful>>, UNCHANGED used \/ Faulty
    PROVE  Step /\ DoubtInv'
<1>1. /\ ReqSteps /\ Together
      /\ \A x \in Requests : req[x].blocking /\ Pending(req, x) => Pending(req', x)
  <2>1. CASE req' = req
    BY <2>1, NothingAsked DEF Pending
  <2>2. CASE req' # req
    <3>1. req \in [Requests -> ReqRows]
      BY DEF IInv, TypeOK
    <3>2. /\ req'[r] = [req[r] EXCEPT !.status = status]
          /\ \A x \in Requests : x # r => req'[x] = req[x]
      BY <2>2, <3>1
    <3>3. Resettled(req[r], [req[r] EXCEPT !.status = status], status, req[r].mark)
      <4>1. req[r] \in ReqRows
        BY <3>1
      <4> QED
        BY <4>1, Resettles
    <3>4. Resettled(req[r], req'[r], status, req[r].mark)
      BY <3>2, <3>3
    <3>5. req' = [x \in Requests |-> req'[x]]
      BY <2>2, <3>1
    <3>6. req[r].status # "none"
      BY <2>2 DEF Pending
    <3>7. \/ req[r].kind = "output" /\ Pending(req, r) /\ status = "cancelled"
          \/ /\ req[r].kind = "output" /\ {req[r].status, status} \subseteq {"pending", "delivered"}
             /\ req[r].mark = req[r].mark
      BY <2>2 DEF Pending
    <3> QED
      BY <3>2, <3>4, <3>5, <3>6, <3>7, OneRequest
  <2> QED
    BY <2>1, <2>2
<1>2. RowSteps /\ CleanSteps /\ SavedSteps
  BY <1>1, NoRow, NoEnd
<1>3. /\ ThreadSteps /\ thread'[t].pc # "present"
      /\ \A u \in Threads : u # t => thread'[u] = thread[u]
  <2>1. CASE Leaves(t)
    BY <2>1, LeavesStep
  <2>2. CASE Goes(t, pc)
    <3>1. thread[t].pc # "idle"
      BY DEF Delivering
    <3> QED
      BY <1>1, <2>2, <3>1, GoesStep DEF Points, Presenting, Delivering
  <2> QED
    BY <2>1, <2>2
<1>4. Step
  BY <1>1, <1>2, <1>3, UsedType DEF Step, IInv, TypeOK
<1>5. thread[t].pc # "doubt"
  BY DEF Delivering
<1>6. Calm
  BY <1>3, <1>5, OneCalm
<1> QED
  BY <1>4, <1>6, CalmDoubt

\* A thread that delivers has an output in hand.
LEMMA OutputInHand ==
    ASSUME IInv, NEW t \in Threads, thread[t].pc \in Delivering
    PROVE  thread[t].r \in Requests /\ req[thread[t].r].kind = "output"
  BY DEF IInv, ThreadsInv, Delivering

\* The delivered mark commits, or the delivery is refused.
LEMMA PrepareStep ==
    ASSUME IInv, NEW t \in Threads, Prepare(t)
    PROVE  Step /\ DoubtInv'
<1>0. /\ thread[t].pc \in Delivering /\ UNCHANGED <<row, cleanup, memfence, saved, doubtful, used>>
  BY DEF Prepare, Delivering
<1>1. PICK r : r = thread[t].r
  OBVIOUS
<1>2. r \in Requests /\ req[r].kind = "output"
  BY <1>0, <1>1, OutputInHand
<1>3. CASE Pending(req, r) /\ Goes(t, "write") /\ req' = [req EXCEPT ![r].status = "delivered"]
  BY <1>0, <1>1, <1>2, <1>3, DeliveryStep
<1>4. CASE UNCHANGED req /\ (Goes(t, "undo") \/ Leaves(t))
  BY <1>0, <1>1, <1>2, <1>4, DeliveryStep
<1> QED
  BY <1>1, <1>3, <1>4 DEF Prepare

\* A provider that did not start gives the output back.
LEMMA NotWrittenStep ==
    ASSUME IInv, NEW t \in Threads, NotWritten(t)
    PROVE  Step /\ DoubtInv'
<1>0. /\ thread[t].pc \in Delivering /\ Faulty
      /\ UNCHANGED <<row, cleanup, memfence, saved, doubtful>>
      /\ Goes(t, "undo") \/ Leaves(t)
  BY DEF NotWritten, Delivering
<1>1. PICK r : r = thread[t].r
  OBVIOUS
<1>2. r \in Requests /\ req[r].kind = "output"
  BY <1>0, <1>1, OutputInHand
<1>3. \/ req' = req
      \/ req[r].status = "delivered" /\ req' = [req EXCEPT ![r].status = "pending"]
  BY <1>1 DEF NotWritten
<1> QED
  BY <1>0, <1>1, <1>2, <1>3, DeliveryStep

\* A caller whose delivery failed cancels its request.
LEMMA UndoStep ==
    ASSUME IInv, NEW t \in Threads, Undo(t)
    PROVE  Step /\ DoubtInv'
<1>0. /\ thread[t].pc \in Delivering /\ UNCHANGED <<row, cleanup, memfence, saved, doubtful, used>>
      /\ Leaves(t)
  BY DEF Undo, Delivering
<1>1. PICK r : r = thread[t].r
  OBVIOUS
<1>2. r \in Requests /\ req[r].kind = "output"
  BY <1>0, <1>1, OutputInHand
<1>3. \/ req' = req
      \/ Pending(req, r) /\ req' = [req EXCEPT ![r].status = "cancelled"]
  BY <1>1 DEF Undo
<1> QED
  BY <1>0, <1>1, <1>2, <1>3, DeliveryStep

-------------------------------------------------------------------------------
(* Signals, the cleanup, checkpoints and crashes *)

\* The end of a process: its cleanup is owed.
LEMMA EndsStep ==
    ASSUME IInv, NEW p \in Procs, Live(row[p]), RowSteps, Terminal(row'[p]),
           \A q \in Procs : q # p => row'[q] = row[q],
           cleanup' = [cleanup EXCEPT ![p] = "owed"]
    PROVE  CleanSteps
<1>1. cleanup \in [Procs -> {"none", "owed", "done"}]
  BY DEF IInv, TypeOK
<1>2. cleanup'[p] = "owed" /\ \A q \in Procs : q # p => cleanup'[q] = cleanup[q]
  BY <1>1
<1>3. cleanup' \in [Procs -> {"none", "owed", "done"}]
  BY <1>1
<1> QED
  BY <1>2, <1>3 DEF CleanSteps, CleanStep, Live

\* The requests of a process that ends or is cleaned up.
LEMMA CancelledAll ==
    ASSUME IInv, NEW p \in Procs, req' = Cancelled(p)
    PROVE  /\ ReqSteps /\ Together
           /\ \A r \in Requests : OwnerOf[r] # p => req'[r] = req[r]
           /\ \A r \in Requests : OwnerOf[r] = p => ~Pending(req', r)
<1>1. PICK S : S = {r \in Requests : Pending(req, r) /\ OwnerOf[r] = p}
  OBVIOUS
<1>2. /\ S \in SUBSET Requests
      /\ \A r \in S : Pending(req, r) /\ OwnerOf[r] = p
      /\ \A r \in Requests : Pending(req, r) /\ OwnerOf[r] = p => r \in S
  BY <1>1
<1>3. req' = [r \in Requests |->
                IF r \in S
                THEN [req[r] EXCEPT !.status = "cancelled",
                                    !.mark = IF @ = "fence" THEN "unknown" ELSE @]
                ELSE req[r]]
  BY <1>1, Zenon DEF Cancelled
<1> QED
  BY <1>2, <1>3, CancelledStep

\* A process ends.
LEMMA TerminateStep ==
    ASSUME IInv, NEW p \in Procs, Terminate(p)
    PROVE  Step /\ DoubtInv'
<1>0. /\ Live(row[p]) /\ Controlled /\ cleanup' = [cleanup EXCEPT ![p] = "owed"]
      /\ row' = [row EXCEPT ![p] = Moves(row[p], "killed", NoWait, "terminate")]
      /\ UNCHANGED <<req, thread, memfence, saved, doubtful>>
  BY DEF Terminate
<1>1. row[p] \in Rows
  BY DEF IInv, TypeOK
<1>2. PICK s : s = Moves(row[p], "killed", NoWait, "terminate")
  OBVIOUS
<1>3. Halts(s) /\ Terminal(s) /\ row' = [row EXCEPT ![p] = s]
  BY <1>0, <1>1, <1>2, MovesHalt
<1>4. RowSteps /\ row'[p] = s /\ \A q \in Procs : q # p => row'[q] = row[q]
  BY <1>0, <1>3, OneRow
<1>5. CleanSteps
  BY <1>0, <1>3, <1>4, EndsStep
<1>6. ReqSteps /\ Together
  BY <1>0, NothingAsked
<1>7. SavedSteps
  BY <1>0 DEF SavedSteps, SavedStep, IInv, TypeOK
<1>8. Step
  BY <1>0, <1>4, <1>5, <1>6, <1>7, ThreadsStay, UsedType DEF Step, IInv, TypeOK
<1>9. Calm
  BY <1>0 DEF Calm
<1> QED
  BY <1>8, <1>9, CalmDoubt

\* The Human phase of the cleanup.
LEMMA CleanUpStep ==
    ASSUME IInv, NEW p \in Procs, CleanUp(p)
    PROVE  Step /\ DoubtInv'
<1>0. /\ cleanup[p] = "owed" /\ req' = Cancelled(p) /\ cleanup' = [cleanup EXCEPT ![p] = "done"]
      /\ UNCHANGED <<row, thread, memfence, saved, doubtful, used>>
  BY DEF CleanUp
<1>1. /\ ReqSteps /\ Together
      /\ \A r \in Requests : OwnerOf[r] # p => req'[r] = req[r]
      /\ \A r \in Requests : OwnerOf[r] = p => ~Pending(req', r)
  BY <1>0, CancelledAll
<1>2. Terminal(row[p]) /\ row \in [Procs -> Rows] /\ cleanup \in [Procs -> {"none", "owed", "done"}]
  BY <1>0 DEF IInv, TypeOK, CleanupInv
<1>3. RowSteps
  <2>1. row[p].status # "waiting_human"
    BY <1>2 DEF Terminal, TerminalStatuses
  <2>2. row' = [row EXCEPT ![p] = row[p]]
    BY <1>0, <1>2
  <2> QED
    BY <1>1, <2>1, <2>2, OneRow
<1>4. CleanSteps
  <2>1. cleanup'[p] = "done" /\ \A q \in Procs : q # p => cleanup'[q] = cleanup[q]
    BY <1>0, <1>2
  <2>2. cleanup' \in [Procs -> {"none", "owed", "done"}]
    BY <1>0, <1>2
  <2> QED
    BY <1>0, <1>1, <1>2, <2>1, <2>2 DEF CleanSteps, CleanStep, Live
<1>5. SavedSteps
  BY <1>0 DEF SavedSteps, SavedStep, IInv, TypeOK
<1>6. Step
  BY <1>0, <1>1, <1>3, <1>4, <1>5, ThreadsStay, UsedType DEF Step, IInv, TypeOK
<1>7. Calm
  BY <1>0 DEF Calm
<1> QED
  BY <1>6, <1>7, CalmDoubt

\* A signal that pauses or resumes, of a Human or a parent.
LEMMA HaltingStep ==
    ASSUME IInv, NEW p \in Procs, Live(row[p]), Controlled,
           NEW s, Halts(s), ~Terminal(s), row' = [row EXCEPT ![p] = s],
           UNCHANGED <<req, cleanup, thread, memfence, saved, doubtful>>
    PROVE  Step /\ DoubtInv'
<1>1. RowSteps /\ row'[p] = s /\ \A q \in Procs : q # p => row'[q] = row[q]
  BY OneRow
<1>2. CleanSteps /\ SavedSteps
  BY <1>1, NoEnd
<1>3. Step
  BY <1>1, <1>2, NothingAsked, ThreadsStay, UsedType DEF Step, IInv, TypeOK
<1>4. Calm
  BY DEF Calm
<1> QED
  BY <1>3, <1>4, CalmDoubt

\* The signal of a Human.
LEMMA InterruptStep ==
    ASSUME IInv, NEW p \in Procs, NEW sig \in {"pause", "resume", "terminate"}, Interrupt(p, sig)
    PROVE  Step /\ DoubtInv'
<1>0. /\ Live(row[p]) /\ Controlled /\ UNCHANGED <<thread, memfence, saved, doubtful>>
      /\ row[p] \in Rows
  BY DEF Interrupt, IInv, TypeOK
<1>1. CASE sig = "pause"
  <2>1. PICK s : s = Moves(row[p], "paused", Paused("paused"), "none")
    OBVIOUS
  <2>2. row' = [row EXCEPT ![p] = s] /\ UNCHANGED <<req, cleanup>>
    BY <1>1, <2>1 DEF Interrupt
  <2>3. Halts(s) /\ ~Terminal(s)
    BY <1>0, <2>1, MovesHalt
  <2> QED
    BY <1>0, <2>2, <2>3, HaltingStep
<1>2. CASE sig = "resume"
  <2>1. PICK s : s = Moves(row[p], "runnable", NoWait, "none")
    OBVIOUS
  <2>2. row' = [row EXCEPT ![p] = s] /\ UNCHANGED <<req, cleanup>>
    BY <1>2, <2>1 DEF Interrupt
  <2>3. Halts(s) /\ ~Terminal(s)
    BY <1>0, <2>1, MovesHalt
  <2> QED
    BY <1>0, <2>2, <2>3, HaltingStep
<1>3. CASE sig = "terminate"
  <2>1. PICK s : s = Moves(row[p], "killed", NoWait, "terminate")
    OBVIOUS
  <2>2. /\ row' = [row EXCEPT ![p] = s] /\ req' = Cancelled(p)
        /\ cleanup' = [cleanup EXCEPT ![p] = "owed"]
    BY <1>3, <2>1 DEF Interrupt
  <2>3. Halts(s) /\ Terminal(s)
    BY <1>0, <2>1, MovesHalt
  <2>4. /\ ReqSteps /\ Together
        /\ \A r \in Requests : OwnerOf[r] # p => req'[r] = req[r]
    BY <2>2, CancelledAll
  <2>5. RowSteps /\ row'[p] = s /\ \A q \in Procs : q # p => row'[q] = row[q]
    BY <1>0, <2>2, <2>3, <2>4, OneRow
  <2>6. CleanSteps
    BY <1>0, <2>2, <2>3, <2>5, EndsStep
  <2>7. SavedSteps
    BY <1>0 DEF SavedSteps, SavedStep, IInv, TypeOK
  <2>8. Step
    BY <1>0, <2>4, <2>5, <2>6, <2>7, ThreadsStay, UsedType DEF Step, IInv, TypeOK
  <2>9. Calm
    BY <1>0 DEF Calm
  <2> QED
    BY <2>8, <2>9, CalmDoubt
<1> QED
  BY <1>1, <1>2, <1>3

\* A parent resumes its child.
LEMMA ParentResumeStep ==
    ASSUME IInv, NEW p \in Procs, ParentResume(p)
    PROVE  Step /\ DoubtInv'
<1>0. /\ Live(row[p]) /\ Controlled /\ row[p].status = "paused" /\ row[p] \in Rows
      /\ row' = [row EXCEPT ![p] = [SignalRow(row[p], "resume") EXCEPT !.sgen = 0, !.egen = 0]]
      /\ UNCHANGED <<req, cleanup, thread, memfence, saved, doubtful>>
  BY DEF ParentResume, SignalApplicable, IInv, TypeOK
<1>1. PICK s : s = Moves(row[p], "runnable", NoWait, "none")
  OBVIOUS
<1>2. row' = [row EXCEPT ![p] = s]
  BY <1>0, <1>1 DEF SignalRow, Moves
<1>3. Halts(s) /\ ~Terminal(s)
  BY <1>0, <1>1, MovesHalt
<1> QED
  BY <1>0, <1>2, <1>3, HaltingStep

\* A checkpoint of a live process.
LEMMA CheckpointStep ==
    ASSUME IInv, NEW p \in Procs, NEW at \in 0..MaxRequests, Checkpoint(p, at)
    PROVE  Step /\ DoubtInv'
<1>0. /\ Live(row[p]) /\ Faulty /\ saved' = [saved EXCEPT ![p] = [at |-> at, row |-> row[p]]]
      /\ UNCHANGED <<row, req, cleanup, thread, memfence, doubtful>>
  BY DEF Checkpoint
<1>1. ReqSteps /\ Together /\ RowSteps /\ CleanSteps
  BY <1>0, NothingAsked, NoRow, NoEnd DEF Pending
<1>2. SavedSteps
  <2>1. PICK c : c = [at |-> at, row |-> row[p]]
    OBVIOUS
  <2>2. /\ c \in [at : 0..MaxRequests, row : Rows] /\ c.row = row[p]
    BY <2>1 DEF IInv, TypeOK
  <2>3. c # NoCheckpoint
    <3>1. DOMAIN c # DOMAIN NoCheckpoint
      BY <2>1 DEF NoCheckpoint
    <3> QED
      BY <3>1
  <2>4. saved' = [saved EXCEPT ![p] = c]
    BY <1>0, <2>1
  <2> QED
    BY <1>0, <2>2, <2>3, <2>4 DEF SavedSteps, SavedStep, IInv, TypeOK
<1>3. Step
  BY <1>0, <1>1, <1>2, ThreadsStay, UsedType DEF Step, IInv, TypeOK
<1>4. Calm
  BY <1>0 DEF Calm
<1> QED
  BY <1>3, <1>4, CalmDoubt

\* A restored row is one that was saved, or it no longer waits for a Human.
LEMMA RestoredRow ==
    ASSUME IInv, NEW p \in Procs, saved[p] # NoCheckpoint, NEW q,
           NEW s, s = RestoredWait(saved[p].row, q)
    PROVE  /\ \/ /\ s = saved[p].row
                 /\ s.status = "waiting_human" => \E x \in s.wait.on : Pending(q, x)
              \/ Halts(s)
           /\ ~Terminal(s)
<1>1. PICK c : c = saved[p].row
  OBVIOUS
<1>2. c \in Rows /\ Live(c)
  BY <1>1 DEF IInv, TypeOK, WaitsInv
<1>3. \/ s = c /\ (c.status = "waiting_human" => \E x \in c.wait.on : Pending(q, x))
      \/ s = Moves(c, "paused", Paused("paused"), "none")
      \/ s = Moves(c, "runnable", NoWait, "none")
  BY <1>1 DEF RestoredWait
<1> QED
  BY <1>1, <1>2, <1>3, MovesHalt DEF Live

\* A restore cancels what was asked since the checkpoint, and takes back the row.
LEMMA RestoreStep ==
    ASSUME IInv, NEW p \in Procs, Restore(p)
    PROVE  Step /\ DoubtInv'
<1>0. /\ saved[p] # NoCheckpoint /\ Live(row[p]) /\ Faulty /\ req' = RestoredRequests(p)
      /\ row' = [row EXCEPT ![p] = RestoredWait(saved[p].row, req')]
      /\ UNCHANGED <<cleanup, thread, memfence, saved, doubtful>>
  BY DEF Restore
<1>1. /\ ReqSteps /\ Together
      /\ \A r \in Requests : OwnerOf[r] # p => req'[r] = req[r]
  <2>1. PICK S : S = {r \in Requests : Pending(req, r) /\ OwnerOf[r] = p /\ r > saved[p].at}
    OBVIOUS
  <2>2. S \in SUBSET Requests /\ \A r \in S : Pending(req, r) /\ OwnerOf[r] = p
    BY <2>1
  <2>3. \A r \in Requests :
          (Pending(req, r) /\ OwnerOf[r] = p /\ r > saved[p].at) <=> r \in S
    BY <2>1
  <2>4. req' = [r \in Requests |->
                  IF r \in S
                  THEN [req[r] EXCEPT !.status = "cancelled",
                                      !.mark = IF @ = "fence" THEN "unknown" ELSE @]
                  ELSE req[r]]
    BY <1>0, <2>3, Zenon DEF RestoredRequests
  <2> QED
    BY <1>0, <2>2, <2>4, CancelledStep
<1>2. PICK s : s = RestoredWait(saved[p].row, req')
  OBVIOUS
<1>3. /\ \/ /\ s = saved[p].row
            /\ s.status = "waiting_human" => \E x \in s.wait.on : Pending(req', x)
         \/ Halts(s)
      /\ ~Terminal(s)
  BY <1>0, <1>2, RestoredRow
<1>4. row' = [row EXCEPT ![p] = s]
  BY <1>0, <1>2
<1>5. RowSteps /\ row'[p] = s /\ \A q \in Procs : q # p => row'[q] = row[q]
  BY <1>0, <1>1, <1>3, <1>4, OneRow
<1>6. CleanSteps /\ SavedSteps
  BY <1>0, <1>3, <1>5, NoEnd
<1>7. Step
  BY <1>0, <1>1, <1>5, <1>6, ThreadsStay, UsedType DEF Step, IInv, TypeOK
<1>8. Calm
  BY <1>0 DEF Calm
<1> QED
  BY <1>7, <1>8, CalmDoubt

\* A crash takes back outputs only: what is in doubt stays settled or fenced by its row,
\* and what only memory held is no longer counted.
LEMMA CrashStep ==
    ASSUME IInv, Crash
    PROVE  Step /\ DoubtInv'
<1>0. /\ Faulty /\ UNCHANGED <<row, cleanup, saved>> /\ memfence' = {}
      /\ thread' = [t \in Threads |-> Idle]
      /\ doubtful' =
           doubtful \ (memfence \cup {thread[t].r : t \in {x \in Threads : thread[x].pc = "doubt"}})
  BY DEF Crash
<1>1. PICK undispatched \in SUBSET {t \in Threads : thread[t].pc = "write"} :
        req' = [r \in Requests |->
                  IF req[r].status = "delivered" /\ \E t \in undispatched : thread[t].r = r
                  THEN [req[r] EXCEPT !.status = "pending"] ELSE req[r]]
  BY DEF Crash
<1>2. PICK B : B = {r \in Requests : /\ req[r].status = "delivered"
                                    /\ \E t \in undispatched : thread[t].r = r}
  OBVIOUS
<1>3. \A r \in B : /\ r \in Requests /\ req[r].status = "delivered" /\ req[r].kind = "output"
                   /\ ~req[r].blocking /\ req[r].for = NoRequest
  BY <1>2 DEF IInv, ThreadsInv, Delivering, AskedInv, ReleaseInv
<1>4. req' = [r \in Requests |-> IF r \in B THEN [req[r] EXCEPT !.status = "pending"] ELSE req[r]]
  <2>1. \A r \in Requests :
          (req[r].status = "delivered" /\ \E t \in undispatched : thread[t].r = r) <=> r \in B
    BY <1>2
  <2> QED
    BY <1>1, <2>1, Zenon
<1>5. req \in [Requests -> ReqRows]
  BY DEF IInv, TypeOK
<1>6. \A r \in Requests :
        /\ r \notin B => req'[r] = req[r]
        /\ r \in B => Resettled(req[r], req'[r], "pending", req[r].mark)
  <2> SUFFICES ASSUME NEW r \in Requests, r \in B
               PROVE  Resettled(req[r], req'[r], "pending", req[r].mark)
    BY <1>4
  <2>1. req[r] \in ReqRows
    BY <1>5
  <2>2. Resettled(req[r], [req[r] EXCEPT !.status = "pending"], "pending", req[r].mark)
    BY <2>1, Resettles
  <2>3. req'[r] = [req[r] EXCEPT !.status = "pending"]
    BY <1>4
  <2> QED
    BY <2>2, <2>3
<1>7. ReqSteps
  <2>1. req' \in [Requests -> ReqRows]
    <3>1. \A r \in Requests : req'[r] \in ReqRows
      BY <1>5, <1>6 DEF Resettled
    <3> QED
      BY <1>4, <3>1
  <2>2. ASSUME NEW r \in Requests PROVE ReqStep(r)
    <3>1. CASE r \in B
      BY <1>3, <1>6, <3>1, SettlingStep
    <3>2. CASE r \notin B
      BY <1>6, <3>2 DEF ReqStep
    <3> QED
      BY <3>1, <3>2
  <2> QED
    BY <2>1, <2>2 DEF ReqSteps
<1>8. Together /\ \A r \in Requests : req[r].blocking /\ Pending(req, r) => Pending(req', r)
  BY <1>3, <1>6 DEF Together, Pending, Resettled
<1>9. RowSteps /\ CleanSteps /\ SavedSteps
  BY <1>0, <1>8, NoRow, NoEnd
<1>10. ThreadSteps /\ \A t \in Threads : thread'[t].pc = "idle"
  <2>1. Idle \in ThreadStates /\ Idle.pc = "idle"
    BY DEF Idle, ThreadStates
  <2> QED
    BY <1>0, <2>1 DEF ThreadSteps, ThreadStep
<1>11. Step
  BY <1>0, <1>7, <1>8, <1>9, <1>10, UsedType DEF Step, IInv, TypeOK
<1>12. ASSUME NEW r \in doubtful'
       PROVE  /\ req'[r].status # "none" /\ req'[r].kind # "output"
              /\ ~Pending(req', r) \/ req'[r].mark # "none"
  <2>1. /\ r \in doubtful /\ r \in Requests /\ r \notin memfence
        /\ \A t \in Threads : thread[t].pc = "doubt" => thread[t].r # r
    BY <1>0 DEF IInv, TypeOK
  <2>2. /\ req[r].status # "none" /\ req[r].kind # "output"
        /\ ~Pending(req, r) \/ req[r].mark # "none"
    BY <2>1 DEF IInv, DoubtInv, Fenced
  <2>3. r \notin B
    BY <1>3, <2>2
  <2> QED
    BY <1>6, <2>1, <2>2, <2>3 DEF Pending
<1>13. DoubtInv'
  <2>1. \A r \in doubtful' : /\ req'[r].status # "none" /\ req'[r].kind # "output"
                             /\ ~Pending(req', r) \/ Fenced(r)'
    BY <1>12 DEF Fenced
  <2> QED
    BY <1>10, <2>1 DEF DoubtInv
<1> QED
  BY <1>11, <1>13

-------------------------------------------------------------------------------
(* The theorems *)

\* Every step of the specification, by action.
LEMMA NextStep ==
    ASSUME IInv, Next
    PROVE  Step /\ DoubtInv'
<1>1. ASSUME NEW r \in Requests, NEW a \in AskOf[r],
             Query(r, a) \/ \E t \in Threads : Output(t, r, a)
      PROVE  Step /\ DoubtInv'
  <2>1. a \in AskRecords
    BY HumanAssumption
  <2> QED
    BY <1>1, <2>1, QueryStep, OutputStep
<1>2. ASSUME NEW r \in Requests, NEW v \in Verdicts, HostDecides(r, v)
      PROVE  Step /\ DoubtInv'
  BY <1>2, HostDecidesStep
<1>3. ASSUME NEW r \in Requests, Reconcile(r) PROVE Step /\ DoubtInv'
  BY <1>3, ReconcileStep
<1>4. ASSUME NEW p \in Procs, Terminate(p) \/ CleanUp(p) \/ ParentResume(p)
      PROVE  Step /\ DoubtInv'
  BY <1>4, TerminateStep, CleanUpStep, ParentResumeStep
<1>5. ASSUME NEW p \in Procs, NEW sig \in {"pause", "resume", "terminate"}, Interrupt(p, sig)
      PROVE  Step /\ DoubtInv'
  BY <1>5, InterruptStep
<1>6. ASSUME NEW t \in Threads, Drives(t) PROVE Step /\ DoubtInv'
  <2>1. CASE Select(t) \/ Recheck(t) \/ Dispatch(t) \/ FindRelease(t) \/ TakeRelease(t)
    BY <2>1, SelectStep, RecheckStep, DispatchStep, FindReleaseStep, TakeReleaseStep
  <2>2. CASE ReleaseRefused(t) \/ Written(t)
    <3>1. /\ Leaves(t) /\ thread[t].pc # "doubt"
          /\ UNCHANGED <<row, req, cleanup, memfence, saved, doubtful, used>>
      BY <2>2 DEF ReleaseRefused, Written
    <3> QED
      BY <3>1, LeavingStep
  <2>3. CASE \E x \in Requests : AskRelease(t, x)
    BY <2>3, AskReleaseStep
  <2>4. CASE \E v \in Verdicts : Answer(t, v)
    BY <2>4, AnswerStep
  <2>5. CASE Settle(t) \/ MarkUnknown(t) \/ Prepare(t) \/ Undo(t)
    BY <2>5, SettleStep, MarkUnknownStep, PrepareStep, UndoStep
  <2> QED
    BY <1>6, <2>1, <2>2, <2>3, <2>4, <2>5 DEF Drives
<1>7. ASSUME NEW t \in Threads, Faults(t) PROVE Step /\ DoubtInv'
  BY <1>7, NoAnswerStep, AmbiguousStep, MarkFenceStep, MarkMemoryStep, NotWrittenStep DEF Faults
<1>8. ASSUME NEW p \in Scope, Restore(p) PROVE Step /\ DoubtInv'
  BY <1>8, HumanAssumption, RestoreStep
<1>9. ASSUME NEW p \in Scope, NEW at \in {NoRequest} \cup {r \in Requests : OwnerOf[r] = p},
             Checkpoint(p, at)
      PROVE  Step /\ DoubtInv'
  <2>1. at \in 0..MaxRequests
    BY HumanAssumption DEF NoRequest, Requests
  <2> QED
    BY <1>9, <2>1, HumanAssumption, CheckpointStep
<1>10. CASE Crash
  BY <1>10, CrashStep
<1> QED
  BY <1>1, <1>2, <1>3, <1>4, <1>5, <1>6, <1>7, <1>8, <1>9, <1>10 DEF Next

\* Nothing is asked, claimed or in doubt to begin with.
LEMMA InitInv == Init => IInv
<1> SUFFICES ASSUME Init PROVE IInv
  OBVIOUS
<1>0. PICK new : new = [InsertProcess EXCEPT !.status = "runnable"]
  OBVIOUS
<1>1. /\ new \in Rows /\ new.status = "runnable" /\ new.wait = NoWait /\ new.code = "none"
      /\ NoWait.kind = "none"
  BY <1>0 DEF InsertProcess, Rows, Statuses, NoWait, Waits, WaitKinds, Codes, NoOwner
<1>2. row = [p \in Procs |-> new]
  BY <1>0 DEF Init
<1>3. Unasked \in ReqRows /\ Idle \in ThreadStates /\ Idle.pc = "idle" /\ Idle.r = NoRequest
  BY DEF Unasked, ReqRows, Idle, ThreadStates
<1>4. \A p \in Procs : /\ row[p] \in Rows /\ row[p].status = "runnable" /\ row[p].wait = NoWait
                       /\ row[p].code = "none" /\ saved[p] = NoCheckpoint
  BY <1>1, <1>2 DEF Init
<1>5. \A r \in Requests : req[r] = Unasked
  BY DEF Init
<1>6. \A t \in Threads : thread[t] = Idle
  BY DEF Init
<1>7. TypeOK
  <2>1. \A p \in Procs : ValidState(row[p].status, row[p].wait, row[p].code)
    BY <1>1, <1>4 DEF ValidState
  <2>2. /\ row \in [Procs -> Rows] /\ req \in [Requests -> ReqRows]
        /\ thread \in [Threads -> ThreadStates]
    BY <1>1, <1>2, <1>3 DEF Init
  <2>3. /\ cleanup \in [Procs -> {"none", "owed", "done"}] /\ memfence \subseteq Requests
        /\ doubtful \subseteq Requests /\ used \in [faults : Nat, controls : Nat]
        /\ saved \in [Procs -> {NoCheckpoint} \cup [at : 0..MaxRequests, row : Rows]]
    BY DEF Init
  <2> QED
    BY <2>1, <2>2, <2>3 DEF TypeOK
<1>8. AskedInv /\ ReleaseInv /\ DeniedTakesParent /\ TerminalHasNoQuestions
  <2>1. /\ Unasked.status = "none" /\ Unasked.kind = "none" /\ Unasked.for = NoRequest
    BY DEF Unasked
  <2>2. \A r \in Requests : /\ req[r].status = "none" /\ req[r].kind = "none"
                            /\ req[r].for = NoRequest
    BY <1>5, <2>1
  <2> QED
    BY <1>5, <2>2 DEF AskedInv, ReleaseInv, DeniedTakesParent, TerminalHasNoQuestions, Pending
<1>9. WaitsInv /\ WaitIsAnswerable
  BY <1>1, <1>4 DEF WaitsInv, WaitIsAnswerable
<1>10. CleanupInv
  BY <1>4 DEF CleanupInv, Exists, Init
<1>11. ThreadsInv /\ DoubtInv
  BY <1>3, <1>6 DEF ThreadsInv, DoubtInv, Init
<1> QED
  BY <1>7, <1>8, <1>9, <1>10, <1>11 DEF IInv

\* The invariant is inductive.
LEMMA NextInv == IInv /\ [Next]_vars => IInv'
<1> SUFFICES ASSUME IInv, [Next]_vars PROVE IInv'
  OBVIOUS
<1>1. CASE Next
  BY <1>1, NextStep, StepInv
<1>2. CASE UNCHANGED vars
  <2>1. UNCHANGED <<row, req, cleanup, thread, memfence, saved, doubtful, used>>
    BY <1>2 DEF vars
  <2>2. Step
    BY <2>1, ThreadOnly, ThreadsStay DEF IInv, TypeOK
  <2>3. Calm
    BY <2>1 DEF Calm
  <2> QED
    BY <2>2, <2>3, CalmDoubt, StepInv
<1> QED
  BY <1>1, <1>2

\* The inductive invariant of requests, waits, threads and doubts holds in every state.
THEOREM Invariance == Spec => []IInv
  BY InitInv, NextInv, PTL DEF Spec

\* A process never waits for a Human on requests that are all settled, whichever of the
\* Host, a drain, a doubt, a denied release or a restore settled them.
THEOREM WaitersAnswerable == Spec => []WaitIsAnswerable
<1>1. IInv => WaitIsAnswerable
  BY DEF IInv
<1> QED
  BY <1>1, Invariance, PTL

\* Requests are well formed and end together: a denied release with the request it was
\* for, the questions of a terminal process with its cleanup.
THEOREM RequestsEndTogether == Spec => []RequestsInv
<1>1. IInv => RequestsInv
  BY DEF IInv, RequestsInv
<1> QED
  BY <1>1, Invariance, PTL

\* Of a Host decision, a late answer, a cancellation, a doubt and a restore, the first to
\* settle a request stands.
THEOREM FirstDecisionStands == Spec => DecidedOnce
<1> DEFINE Once == \A r \in Requests :
                     req[r].status \in {"approved", "rejected", "cancelled"} =>
                       req'[r].status = req[r].status
<1>1. ASSUME IInv, [Next]_vars PROVE [Once]_vars
  <2>1. CASE Next
    <3>1. \A r \in Requests : ReqStep(r)
      BY <1>1, <2>1, NextStep DEF Step, ReqSteps
    <3>2. Once
      BY <3>1 DEF ReqStep, Pending
    <3> QED
      BY <3>2
  <2>2. CASE UNCHANGED vars
    BY <2>2
  <2> QED
    BY <1>1, <2>1, <2>2
<1> QED
  BY <1>1, Invariance, PTL DEF Spec, DecidedOnce

\* A request whose presentation ended in doubt is not presented again, by any drain and
\* across crashes, unless only memory knew of the doubt.
THEOREM DoubtShownOnce == Spec => DoubtNotRepeated
<1> DEFINE NotShown == \A t \in Drains :
                         thread[t].pc = "present" /\ thread'[t].pc = "io" =>
                           thread[t].r \notin doubtful
<1>1. IInv => NotShown
  BY DEF IInv, DoubtInv, Threads
<1> QED
  BY <1>1, Invariance, PTL DEF DoubtNotRepeated

===============================================================================
