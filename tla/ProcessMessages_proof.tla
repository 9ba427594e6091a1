------------------------- MODULE ProcessMessages_proof -------------------------
(***************************************************************************)
(* Proofs about ProcessMessages, for every set of senders, filters, hosts, *)
(* reads and bounds.                                                       *)
(*                                                                         *)
(* The conjuncts of the invariant are about different parts of the state,  *)
(* so that each has one lemma with one step per action: the row is valid   *)
(* (RowStep), a session acknowledges only what it read (SessionStep), what *)
(* the tool acknowledged is carried (MailStep), the claimed action is in   *)
(* the hands of a quantum (ClaimStep), and a parked process has no mail    *)
(* (ParkedStep).                                                           *)
(***************************************************************************)
EXTENDS ProcessMessages, TLAPS

USE DEF NoOwner

-------------------------------------------------------------------------------
(* The inductive invariant *)

\* What the store accepts as the row of a process that exists.
GoodRow(r) == r \in Rows /\ ValidState(r.status, r.wait, r.code) /\ Exists(r)

\* A session acknowledges messages of the page it read.
GoodSession(b) == b \in {Idle} \cup Busy /\ (b # Idle => b.ids \subseteq b.page)

\* A captured row can be put back, and captured mail of the tool is carried.
CheckpointIsSound ==
    saved # NoCheckpoint =>
      /\ GoodRow(saved.row)
      /\ \A m \in Messages :
           saved.msg[m].status = "acked" /\ saved.msg[m].by = "tool" => m \in carried

\* A claimed action, no checkpoint holding it, is in the hands of a quantum that is
\* past the choice of its action and has not finished, or the process is terminal.
ClaimInHand ==
    /\ pending.state = "resuming"
    /\ saved # NoCheckpoint => saved.pending.state # "resuming"
    => Terminal(row) \/ (sess[Quantum] # Idle /\ sess[Quantum].pc \notin {"quantum", "done"})

IInv ==
    /\ TypeOK
    /\ Exists(row)
    /\ \A s \in Sessions : GoodSession(sess[s])
    /\ CheckpointIsSound
    /\ ToolMailIsCarried
    /\ ClaimInHand
    /\ ParkedHasNoMail

-------------------------------------------------------------------------------
(* Rows *)

\* The constants from which the operators build rows have their types.
LEMMA ConstantTypes ==
    /\ TerminalStatuses \cup ConditionStatuses
         \cup {"absent", "created", "runnable", "running", "paused"} \subseteq Statuses
    /\ NoWait \in Waits
    /\ \A kind \in {"host_resume", "paused", "stale_execution"} :
         [kind |-> kind, on |-> {}] \in Waits
    /\ \A f \in Filters : MessageWait(f) \in Waits
    /\ {"none", "exited", "failed", "terminate", "scheduler_task_failed",
        "resource_limit_exceeded"} \subseteq Codes
<1>1. /\ TerminalStatuses \cup ConditionStatuses
           \cup {"absent", "created", "runnable", "running", "paused"} \subseteq Statuses
      /\ {"none", "exited", "failed", "terminate", "scheduler_task_failed",
          "resource_limit_exceeded"} \subseteq Codes
  BY DEF Statuses, Codes
<1>2. /\ NoWait \in Waits
      /\ \A kind \in {"host_resume", "paused", "stale_execution"} :
           [kind |-> kind, on |-> {}] \in Waits
      /\ \A f \in Filters : MessageWait(f) \in Waits
  BY DEF NoWait, Waits, WaitKinds, ConditionWaits, MessageWait
<1> QED
  BY <1>1, <1>2

\* The row of a process that is published is good.
LEMMA PublishedGood == GoodRow([InsertProcess EXCEPT !.status = "runnable"])
<1>1. [InsertProcess EXCEPT !.status = "runnable"] \in Rows
  BY ConstantTypes DEF InsertProcess, Rows
<1> QED
  BY <1>1 DEF GoodRow, InsertProcess, ValidState, Exists, NoWait

\* A transition to a state that the store accepts leaves a good row.
LEMMA TransitionGood ==
    ASSUME NEW r \in Rows, NEW status \in Statuses \ {"absent"}, NEW wait \in Waits,
           NEW code \in Codes, ValidState(status, wait, code)
    PROVE  LET t == Transition(r, status, wait, code) IN
           GoodRow(t) /\ t.status = status /\ t.wait = wait
<1>1. Transition(r, status, wait, code) \in Rows
  BY DEF Transition, Rows, EndsExecution
<1> QED
  BY <1>1 DEF Transition, GoodRow, Exists

\* Waking, failing and parking leave good rows.
LEMMA WakeFailPark ==
    ASSUME NEW r \in Rows
    PROVE  /\ GoodRow(WakeRow(r)) /\ WakeRow(r).wait = NoWait
           /\ \A c \in {"failed", "scheduler_task_failed"} :
                LET t == Transition(r, "failed", NoWait, c) IN
                GoodRow(t) /\ t.status = "failed" /\ t.wait = NoWait
           /\ \A f \in Filters :
                LET t == Transition(r, "waiting_event", MessageWait(f), "none") IN
                GoodRow(t) /\ t.wait = MessageWait(f)
<1>1. ValidState("runnable", NoWait, "none")
  BY DEF ValidState, NoWait
<1>2. \A c \in {"failed", "scheduler_task_failed"} : ValidState("failed", NoWait, c)
  BY DEF ValidState, NoWait
<1>3. \A f \in Filters : ValidState("waiting_event", MessageWait(f), "none")
  BY DEF ValidState, MessageWait
<1>4. {"runnable", "failed", "waiting_event"} \subseteq Statuses \ {"absent"}
  BY ConstantTypes DEF TerminalStatuses, ConditionStatuses
<1> QED
  BY <1>1, <1>2, <1>3, <1>4, ConstantTypes, TransitionGood DEF WakeRow

\* Claim, completion and stale recovery leave good rows, and no message wait that
\* was not there.
LEMMA ExecutionGood ==
    ASSUME NEW r, GoodRow(r)
    PROVE  /\ \A o \in Nat : LET t == ClaimRow(r, o, Quantum) IN GoodRow(t) /\ t.wait = NoWait
           /\ \A tok : LET t == CompleteRow(r, tok) IN
                /\ GoodRow(t) /\ t.wait \in {r.wait, NoWait}
                /\ Terminal(r) => Terminal(t)
           /\ LET t == RecoverStaleRow(r) IN
                GoodRow(t) /\ t.wait.kind = "stale_execution" /\ ~Terminal(t)
<1>1. r \in Rows
  BY DEF GoodRow
<1>2. \A o \in Nat : LET t == ClaimRow(r, o, Quantum) IN GoodRow(t) /\ t.wait = NoWait
  BY <1>1, ConstantTypes DEF ClaimRow, Rows, GoodRow, ValidState, Exists, NoWait, Sessions
<1>3. \A tok : LET t == CompleteRow(r, tok) IN
                /\ GoodRow(t) /\ t.wait \in {r.wait, NoWait}
                /\ Terminal(r) => Terminal(t)
  BY <1>1, ConstantTypes
  DEF CompleteRow, TokenCurrent, Rows, GoodRow, ValidState, Exists, NoWait, Terminal,
      TerminalStatuses
<1>4. LET t == RecoverStaleRow(r) IN
        GoodRow(t) /\ t.wait.kind = "stale_execution" /\ ~Terminal(t)
  BY <1>1, ConstantTypes
  DEF RecoverStaleRow, Rows, GoodRow, ValidState, Exists, Terminal, TerminalStatuses
<1> QED
  BY <1>2, <1>3, <1>4

\* A signal that applies leaves a good row that waits for no message.
LEMMA SignalGood ==
    ASSUME NEW r, GoodRow(r), NEW sig \in Signals, SignalApplicable(r, sig, TRUE)
    PROVE  GoodRow(SignalRow(r, sig)) /\ SignalRow(r, sig).wait.kind # "message"
<1>0. r \in Rows /\ r.status \in Statuses \ {"absent"} /\ r.wait \in Waits /\ ~Terminal(r)
  BY DEF GoodRow, SignalApplicable, Rows, Exists, Live
<1>1. CASE sig = "terminate"
  <2>1. ValidState("killed", NoWait, "terminate") /\ "killed" \in Statuses \ {"absent"}
    BY ConstantTypes DEF ValidState, NoWait, TerminalStatuses
  <2>2. SignalRow(r, sig) = Transition(r, "killed", NoWait, "terminate")
    BY <1>1 DEF SignalRow
  <2>3. NoWait \in Waits /\ "terminate" \in Codes /\ NoWait.kind # "message"
    BY ConstantTypes DEF NoWait
  <2> QED
    BY <1>0, <2>1, <2>2, <2>3, TransitionGood
<1>2. CASE sig = "resume"
  <2> DEFINE status == IF r.status = "paused" THEN "runnable" ELSE r.status
  <2>1. ValidState(status, NoWait, "none") /\ status \in Statuses \ {"absent"}
    BY <1>0, <1>2, ConstantTypes
    DEF ValidState, NoWait, Terminal, TerminalStatuses, ConditionStatuses, SignalApplicable
  <2>2. SignalRow(r, sig) = Transition(r, status, NoWait, "none")
    BY <1>2 DEF SignalRow
  <2> HIDE DEF status
  <2> QED
    BY <1>0, <2>1, <2>2, ConstantTypes, TransitionGood DEF NoWait
<1>3. CASE sig = "host_pause"
  <2>1. ValidState("paused", [kind |-> "host_resume", on |-> {}], "none")
    BY DEF ValidState
  <2>2. SignalRow(r, sig) = Transition(r, "paused", [kind |-> "host_resume", on |-> {}], "none")
    BY <1>3 DEF SignalRow
  <2> QED
    BY <1>0, <2>1, <2>2, ConstantTypes, TransitionGood
<1>4. CASE sig = "pause"
  <2> DEFINE wait == IF r.wait.kind = "host_resume" THEN r.wait
                     ELSE [kind |-> "paused", on |-> {}]
  <2>1. ValidState("paused", wait, "none") /\ wait \in Waits /\ wait.kind # "message"
    BY <1>0, ConstantTypes DEF ValidState
  <2>2. SignalRow(r, sig) = Transition(r, "paused", wait, "none")
    BY <1>4 DEF SignalRow
  <2> HIDE DEF wait
  <2> QED
    BY <1>0, <2>1, <2>2, ConstantTypes, TransitionGood
<1> QED
  BY <1>1, <1>2, <1>3, <1>4 DEF Signals

\* The row of a sound checkpoint comes back as a good row.
LEMMA RestoredGood ==
    ASSUME TypeOK, CheckpointIsSound, saved # NoCheckpoint
    PROVE  GoodRow(RestoredRow)
<1>1. /\ saved.row \in Rows /\ ValidState(saved.row.status, saved.row.wait, saved.row.code)
      /\ saved.row.status # "absent" /\ saved.row.wait \in Waits
      /\ row.sgen + 1 \in Nat /\ row.egen + 1 \in Nat
  BY DEF CheckpointIsSound, GoodRow, Exists, TypeOK, Rows
<1> DEFINE wait == IF saved.row.wait.kind = "stale_execution"
                   THEN [kind |-> "paused", on |-> {}] ELSE saved.row.wait
<1>2. wait \in Waits /\ ValidState(saved.row.status, wait, saved.row.code)
  BY <1>1, ConstantTypes DEF ValidState
<1>3. RestoredRow = [saved.row EXCEPT !.sgen = row.sgen + 1, !.egen = row.egen + 1, !.wait = wait]
  BY <1>1 DEF RestoredRow, Rows
<1> HIDE DEF wait
<1>4. RestoredRow \in Rows
  BY <1>1, <1>2, <1>3 DEF Rows
<1>5. /\ RestoredRow.status = saved.row.status /\ RestoredRow.wait = wait
      /\ RestoredRow.code = saved.row.code
  BY <1>1, <1>3 DEF Rows
<1> QED
  BY <1>1, <1>2, <1>4, <1>5 DEF GoodRow, Exists

-------------------------------------------------------------------------------
(* Sessions *)

\* A session that is doing something has a whole record.
LEMMA BusySession ==
    ASSUME TypeOK, NEW s \in Sessions, sess[s].pc # "idle"
    PROVE  /\ sess[s] \in Busy /\ sess[s] # Idle
           /\ sess[s].call \in Calls /\ sess[s].call.want \in Filters
  BY MessagesAssumption DEF TypeOK, Idle, Busy, CallRecords

\* Moving to another point of a call keeps the rest of the session.
LEMMA GoesSession ==
    ASSUME TypeOK, NEW s \in Sessions, sess[s].pc # "idle", GoodSession(sess[s]),
           NEW pc \in {"quantum", "read", "park", "poll", "page", "ack", "store", "settle",
                       "raised", "done"},
           Goes(s, pc)
    PROVE  /\ sess' \in [Sessions -> {Idle} \cup Busy]
           /\ GoodSession(sess'[s]) /\ sess'[s] # Idle /\ sess'[s].pc = pc
           /\ \A t \in Sessions \ {s} : sess'[t] = sess[t]
<1>1. sess[s] \in Busy /\ sess[s].ids \subseteq sess[s].page
  BY BusySession DEF GoodSession
<1>2. /\ sess' = [sess EXCEPT ![s] = [sess[s] EXCEPT !.pc = pc]]
      /\ sess \in [Sessions -> {Idle} \cup Busy]
  BY DEF Goes, TypeOK
<1>3. /\ [sess[s] EXCEPT !.pc = pc] \in Busy
      /\ [sess[s] EXCEPT !.pc = pc].ids = sess[s].ids
      /\ [sess[s] EXCEPT !.pc = pc].page = sess[s].page
      /\ [sess[s] EXCEPT !.pc = pc].pc = pc
  BY <1>1 DEF Busy
<1>4. [sess[s] EXCEPT !.pc = pc] # Idle
  BY <1>3 DEF Idle
<1> QED
  BY <1>1, <1>2, <1>3, <1>4 DEF GoodSession

\* Replacing one session by a good one.
LEMMA ReplaceSession ==
    ASSUME TypeOK, NEW s \in Sessions, NEW b, GoodSession(b), sess' = [sess EXCEPT ![s] = b]
    PROVE  /\ sess' \in [Sessions -> {Idle} \cup Busy] /\ sess'[s] = b
           /\ \A t \in Sessions \ {s} : sess'[t] = sess[t]
  BY DEF TypeOK, GoodSession

\* A session that is opened, or that a quantum points at a read, is good.
LEMMA OpenGood ==
    /\ GoodSession(Idle)
    /\ \A tok \in Tokens, pc \in {"quantum", "read"}, c \in Calls :
         LET b == OpenSession(tok, pc, c) IN GoodSession(b) /\ b # Idle /\ b.pc = pc
    /\ \A b \in Busy, c \in Calls : GoodSession(b) =>
         LET d == [b EXCEPT !.pc = "read", !.call = c] IN
         GoodSession(d) /\ d # Idle /\ d.pc = "read"
<1>1. GoodSession(Idle)
  BY DEF GoodSession
<1>2. ASSUME NEW tok \in Tokens, NEW pc \in {"quantum", "read"}, NEW c \in Calls
      PROVE  LET b == OpenSession(tok, pc, c) IN GoodSession(b) /\ b # Idle /\ b.pc = pc
  BY DEF OpenSession, GoodSession, Busy, Idle
<1>3. ASSUME NEW b \in Busy, NEW c \in Calls, GoodSession(b)
      PROVE  LET d == [b EXCEPT !.pc = "read", !.call = c] IN
             GoodSession(d) /\ d # Idle /\ d.pc = "read"
  <2> DEFINE d == [b EXCEPT !.pc = "read", !.call = c]
  <2>1. d \in Busy /\ d.pc = "read" /\ d.ids = b.ids /\ d.page = b.page
    BY DEF Busy
  <2>2. d # Idle /\ b # Idle
    BY <2>1 DEF Idle, Busy
  <2> QED
    BY <1>3, <2>1, <2>2 DEF GoodSession
<1> QED
  BY <1>1, <1>2, <1>3

\* A read keeps its page, and acknowledges the unread part of it.
LEMMA ReadPageSession ==
    ASSUME TypeOK, NEW s \in Sessions, ReadPage(s)
    PROVE  \E p \in Pages(sess[s].call), b \in Busy :
             /\ sess' = [sess EXCEPT ![s] = b]
             /\ GoodSession(b) /\ b.pc = "page" /\ b.page = p
<1>1. sess[s] \in Busy
  BY BusySession DEF ReadPage
<1>2. PICK p \in Pages(sess[s].call) :
        sess' = [sess EXCEPT ![s].pc = "page", ![s].page = p,
                             ![s].ids = IF sess[s].call.ack
                                        THEN {m \in p : msg[m].status = "unread"} ELSE {}]
  BY DEF ReadPage
<1> DEFINE ids == IF sess[s].call.ack THEN {m \in p : msg[m].status = "unread"} ELSE {}
           b == [sess[s] EXCEPT !.pc = "page", !.page = p, !.ids = ids]
<1>3. p \in SUBSET Messages /\ ids \in SUBSET Messages /\ ids \subseteq p
  BY DEF Pages, Visible
<1>4. sess' = [sess EXCEPT ![s] = b]
  BY <1>2 DEF TypeOK
<1> HIDE DEF ids
<1>5. b \in Busy /\ b.ids = ids /\ b.page = p /\ b.pc = "page"
  BY <1>1, <1>3 DEF Busy
<1> HIDE DEF b
<1>6. GoodSession(b)
  BY <1>3, <1>5 DEF GoodSession
<1> QED
  BY <1>4, <1>5, <1>6

\* A session that parks keeps its page.
LEMMA ParkSession ==
    ASSUME TypeOK, NEW s \in Sessions, GoodSession(sess[s]), Park(s)
    PROVE  \E b \in Busy : /\ sess' = [sess EXCEPT ![s] = b]
                           /\ GoodSession(b) /\ b.pc \in {"park", "poll"}
<1>1. sess[s] \in Busy /\ sess[s].ids \subseteq sess[s].page
  BY BusySession DEF Park, GoodSession
<1> DEFINE pc == IF sess[s].call.path = "tool" THEN "park" ELSE "poll"
           b == [sess[s] EXCEPT !.pc = pc, !.seen = row'.sgen]
<1>2. sess' = [sess EXCEPT ![s] = b]
  BY DEF Park, TypeOK
<1>3. row'.sgen \in Nat
  BY DEF Park, Transition, TypeOK, Rows
<1>4. pc \in {"park", "poll"}
  OBVIOUS
<1> HIDE DEF pc
<1>5. b \in Busy /\ b.ids = sess[s].ids /\ b.page = sess[s].page /\ b.pc = pc
  BY <1>1, <1>3, <1>4 DEF Busy
<1> HIDE DEF b
<1> QED
  BY <1>1, <1>2, <1>4, <1>5 DEF GoodSession

\* What every step does to the sessions.
Sound == sess' \in [Sessions -> {Idle} \cup Busy] /\ \A s \in Sessions : GoodSession(sess'[s])

\* Every step keeps the sessions.
LEMMA SessionStep == ASSUME IInv, [Next]_vars PROVE Sound
<1> USE DEF IInv, Sound
<1>0. \A s \in Sessions : sess[s].pc # "idle" => sess[s] \in Busy /\ sess[s].call \in Calls
  BY BusySession
<1>q. Quantum \in Sessions /\ Hosts \subseteq Sessions
  BY DEF Sessions
<1>idle. Idle.pc = "idle"
  BY DEF Idle
<1>g. ASSUME NEW s \in Sessions, NEW b, GoodSession(b), sess' = [sess EXCEPT ![s] = b]
      PROVE  Sound
  BY <1>g, ReplaceSession
<1>m. ASSUME NEW s \in Sessions, sess[s].pc # "idle",
             NEW pc \in {"quantum", "read", "park", "poll", "page", "ack", "store", "settle",
                         "raised", "done"}, Goes(s, pc)
      PROVE  Sound
  BY <1>m, GoesSession
<1>u. ASSUME UNCHANGED sess PROVE Sound
  BY <1>u DEF TypeOK
<1>1. ASSUME NEW m \in Messages, Post(m) PROVE Sound
  BY <1>1, <1>u DEF Post
<1>2. CASE Claim
  <2>1. [gen |-> row.egen + 1, owner |-> epoch, lease |-> Quantum] \in Tokens
    BY <1>q DEF Tokens, TypeOK, Rows
  <2>2. (CHOOSE c \in Calls : TRUE) \in Calls
    BY MessagesAssumption
  <2> QED
    BY <1>2, <1>q, <1>g, <2>1, <2>2, OpenGood DEF Claim
<1>3. CASE Resume
  <2>1. sess[Quantum] \in Busy /\ GoodSession(sess[Quantum]) /\ pending.call \in Calls
    BY <1>0, <1>3, <1>q DEF Resume, TypeOK, PendingRows, NoPending
  <2>2. sess' = [sess EXCEPT ![Quantum] =
                   [sess[Quantum] EXCEPT !.pc = "read", !.call = pending.call]]
    BY <1>3 DEF Resume
  <2> QED
    BY <1>q, <1>g, <2>1, <2>2, OpenGood
<1>4. CASE ResumeNothing \/ SelectOther
  BY <1>4, <1>q, <1>m DEF ResumeNothing, SelectOther
<1>5. ASSUME NEW c \in Calls, Select(c) PROVE Sound
  <2>1. sess[Quantum] \in Busy /\ GoodSession(sess[Quantum])
    BY <1>0, <1>5, <1>q DEF Select
  <2>2. sess' = [sess EXCEPT ![Quantum] = [sess[Quantum] EXCEPT !.pc = "read", !.call = c]]
    BY <1>5 DEF Select
  <2> QED
    BY <1>q, <1>g, <2>1, <2>2, OpenGood
<1>6. ASSUME NEW s \in Hosts, NEW c \in Calls, HostCall(s, c) PROVE Sound
  <2>1. NoToken \in Tokens
    BY DEF NoToken, Tokens
  <2> QED
    BY <1>6, <1>q, <1>g, <2>1, OpenGood DEF HostCall
<1>7. ASSUME NEW s \in Sessions, ReadPage(s) PROVE Sound
  BY <1>7, <1>g, ReadPageSession
<1>8. ASSUME NEW s \in Sessions,
             ReadNothing(s) \/ ReadRefused(s) \/ Poll(s) \/ AckSyscall(s) \/ StoreTool(s)
               \/ StoreOmitted(s) \/ StoreSyscall(s) \/ Interrupt(s)
      PROVE  Sound
  BY <1>8, <1>m
  DEF ReadNothing, ReadRefused, Poll, AckSyscall, StoreTool, StoreOmitted, StoreSyscall, Interrupt,
      Fails, Conflicts
<1>9. ASSUME NEW s \in Sessions, Park(s) PROVE Sound
  BY <1>9, <1>g, ParkSession
<1>10. ASSUME NEW s \in Sessions, Persist(s) \/ Settle(s) PROVE Sound
  BY <1>10, <1>m, <1>g, OpenGood DEF Persist, Settle
<1>11. ASSUME NEW s \in Sessions, Observe(s) PROVE Sound
  BY <1>11, <1>m DEF Observe, Fails
<1>12. ASSUME NEW s \in Sessions, Raise(s) PROVE Sound
  BY <1>12, <1>g, OpenGood DEF Raise
<1>13. CASE QuantumEnds
  BY <1>13, <1>q, <1>g, OpenGood DEF QuantumEnds
<1>14. ASSUME NEW sig \in HostSignals, Signal(sig) PROVE Sound
  BY <1>14, <1>u DEF Signal
<1>15. ASSUME NEW at \in 0..MaxMessages, Checkpoint(at) PROVE Sound
  BY <1>15, <1>u DEF Checkpoint
<1>16. CASE Restore
  BY <1>16, <1>u DEF Restore
<1>17. CASE Crash
  BY <1>17, OpenGood DEF Crash
<1>18. CASE UNCHANGED vars
  BY <1>18, <1>u DEF vars
<1> QED
  BY <1>1, <1>2, <1>3, <1>4, <1>5, <1>6, <1>7, <1>8, <1>9, <1>10, <1>11, <1>12, <1>13, <1>14,
     <1>15, <1>16, <1>17, <1>18
  DEF Next, Works

-------------------------------------------------------------------------------
(* The row and the mailbox *)

\* Every step leaves a good row.
LEMMA RowStep == ASSUME IInv, [Next]_vars PROVE GoodRow(row')
<1> USE DEF IInv
<1>0. GoodRow(row) /\ row \in Rows /\ epoch \in Nat
  BY DEF TypeOK, GoodRow
<1>u. ASSUME UNCHANGED row PROVE GoodRow(row')
  BY <1>0, <1>u
<1>1. ASSUME NEW m \in Messages, Post(m) PROVE GoodRow(row')
  BY <1>0, <1>1, WakeFailPark DEF Post
<1>2. CASE Claim
  BY <1>0, <1>2, ExecutionGood DEF Claim
<1>3. CASE Resume \/ ResumeNothing \/ SelectOther
  BY <1>3, <1>u DEF Resume, ResumeNothing, SelectOther
<1>4. ASSUME NEW c \in Calls, Select(c) PROVE GoodRow(row')
  BY <1>4, <1>u DEF Select
<1>5. ASSUME NEW s \in Hosts, NEW c \in Calls, HostCall(s, c) PROVE GoodRow(row')
  BY <1>5, <1>u DEF HostCall
<1>6. ASSUME NEW s \in Sessions,
             ReadPage(s) \/ ReadNothing(s) \/ ReadRefused(s) \/ Persist(s) \/ Poll(s)
               \/ Observe(s) \/ AckSyscall(s) \/ StoreTool(s) \/ StoreOmitted(s)
               \/ StoreSyscall(s) \/ Settle(s)
      PROVE  GoodRow(row')
  BY <1>6, <1>u
  DEF ReadPage, ReadNothing, ReadRefused, Persist, Poll, Observe, AckSyscall, StoreTool,
      StoreOmitted, StoreSyscall, Settle, Fails, Conflicts
<1>7. ASSUME NEW s \in Sessions, Park(s) PROVE GoodRow(row')
  <2>1. sess[s].call.want \in Filters
    BY <1>7, BusySession DEF Park
  <2> QED
    BY <1>0, <1>7, <2>1, WakeFailPark DEF Park
<1>8. ASSUME NEW s \in Sessions, Interrupt(s) PROVE GoodRow(row')
  BY <1>0, <1>8, WakeFailPark DEF Interrupt, Fails
<1>9. ASSUME NEW s \in Sessions, Raise(s) PROVE GoodRow(row')
  BY <1>0, <1>9, WakeFailPark DEF Raise
<1>10. CASE QuantumEnds
  BY <1>0, <1>10, ExecutionGood DEF QuantumEnds
<1>11. ASSUME NEW sig \in HostSignals, Signal(sig) PROVE GoodRow(row')
  <2>1. sig \in Signals
    BY MessagesAssumption DEF Signals
  <2> QED
    BY <1>0, <1>11, <2>1, SignalGood DEF Signal
<1>12. ASSUME NEW at \in 0..MaxMessages, Checkpoint(at) PROVE GoodRow(row')
  BY <1>12, <1>u DEF Checkpoint
<1>13. CASE Restore
  <2>1. GoodRow(RestoredRow)
    BY <1>13, RestoredGood DEF Restore
  <2>2. row' \in {WakeRow(RestoredRow), RestoredRow}
    BY <1>13 DEF Restore, Reconciled
  <2> QED
    BY <2>1, <2>2, WakeFailPark DEF GoodRow
<1>14. CASE Crash
  <2> DEFINE r == IF IsStaleExecution(row, epoch + 1) THEN RecoverStaleRow(row) ELSE row
  <2>1. GoodRow(r)
    BY <1>0, ExecutionGood
  <2>2. row' \in {Transition(r, "failed", NoWait, "failed"), r}
    BY <1>14 DEF Crash, Loaded
  <2> HIDE DEF r
  <2> QED
    BY <2>1, <2>2, WakeFailPark DEF GoodRow
<1>15. CASE UNCHANGED vars
  BY <1>15, <1>u DEF vars
<1> QED
  BY <1>1, <1>2, <1>3, <1>4, <1>5, <1>6, <1>7, <1>8, <1>9, <1>10, <1>11, <1>12, <1>13, <1>14,
     <1>15
  DEF Next, Works

\* An acknowledgement changes unread messages among the given ones only.
LEMMA AckedMail ==
    ASSUME TypeOK, NEW ids \in SUBSET Messages, NEW by \in {"tool", "syscall"}
    PROVE  /\ Acked(ids, by) \in [Messages -> MessageRows]
           /\ \A m \in Messages :
                \/ Acked(ids, by)[m] = msg[m]
                \/ /\ m \in ids /\ msg[m].status = "unread"
                   /\ Acked(ids, by)[m].status = "acked" /\ Acked(ids, by)[m].by = by
<1>1. \A m \in Messages : msg[m] \in MessageRows
  BY DEF TypeOK
<1>2. \A r \in MessageRows :
        LET t == [r EXCEPT !.status = "acked", !.by = by] IN
        t \in MessageRows /\ t.status = "acked" /\ t.by = by
  BY DEF MessageRows
<1> QED
  BY <1>1, <1>2 DEF Acked

\* What a restore makes of a message.
LEMMA RestoredMessage ==
    ASSUME TypeOK, saved # NoCheckpoint
    PROVE  /\ RestoredMail \in [Messages -> MessageRows]
           /\ \A m \in Messages :
                \/ RestoredMail[m] = saved.msg[m]
                \/ RestoredMail[m] = msg[m]
                \/ msg[m].status = "unread" /\ RestoredMail[m].status = "superseded"
<1>1. msg \in [Messages -> MessageRows] /\ saved.msg \in [Messages -> MessageRows]
  BY DEF TypeOK, Checkpoints
<1>2. \A r \in MessageRows :
        LET t == [r EXCEPT !.status = "superseded"] IN
        t \in MessageRows /\ t.status = "superseded"
  BY DEF MessageRows
<1>3. ASSUME NEW m \in Messages
      PROVE  /\ RestoredMail[m] \in MessageRows
             /\ \/ RestoredMail[m] = saved.msg[m]
                \/ RestoredMail[m] = msg[m]
                \/ msg[m].status = "unread" /\ RestoredMail[m].status = "superseded"
  <2>1. msg[m] \in MessageRows /\ saved.msg[m] \in MessageRows
    BY <1>1
  <2> QED
    BY <1>2, <2>1 DEF RestoredMail
<1>4. RestoredMail = [m \in Messages |-> RestoredMail[m]]
  BY DEF RestoredMail
<1> QED
  BY <1>3, <1>4

\* How a step may change the mailbox: a post, an acknowledgement by the syscall, one
\* by the tool with its result, or a restore.
MailMoves ==
    \/ msg' = msg
    \/ \E m \in Messages : Post(m)
    \/ \E s \in Sessions : AckSyscall(s)
    \/ \E s \in Sessions : /\ StoreTool(s) /\ msg' = Acked(sess[s].ids, "tool")
                           /\ carried' = carried \cup sess[s].page
    \/ Restore

\* Every step moves the mailbox in one of these ways, and takes nothing from what is
\* carried.
LEMMA MailMovesStep ==
    ASSUME IInv, [Next]_vars
    PROVE  MailMoves /\ carried \subseteq carried' /\ carried' \subseteq Messages
<1>0. carried \subseteq Messages /\ \A s \in Sessions : sess[s].pc # "idle" =>
                                       sess[s].page \subseteq Messages
  BY BusySession DEF IInv, TypeOK, Busy
<1> DEFINE Goal == MailMoves /\ carried \subseteq carried' /\ carried' \subseteq Messages
<1>u. ASSUME UNCHANGED <<msg, carried>> PROVE Goal
  BY <1>0, <1>u DEF MailMoves
<1>1. ASSUME NEW m \in Messages, Post(m) PROVE Goal
  <2>1. UNCHANGED carried
    BY <1>1 DEF Post
  <2> QED
    BY <1>0, <1>1, <2>1 DEF MailMoves
<1>2. ASSUME NEW s \in Sessions, AckSyscall(s) PROVE Goal
  <2>1. UNCHANGED carried
    BY <1>2 DEF AckSyscall
  <2> QED
    BY <1>0, <1>2, <2>1 DEF MailMoves
<1>3. ASSUME NEW s \in Sessions, StoreTool(s) PROVE Goal
  <2>1. CASE UNCHANGED <<msg, carried>>
    BY <2>1, <1>u
  <2>2. CASE msg' = Acked(sess[s].ids, "tool") /\ carried' = carried \cup sess[s].page
    <3>1. sess[s].page \subseteq Messages
      BY <1>0, <1>3 DEF StoreTool, Conflicts
    <3> QED
      BY <1>0, <1>3, <2>2, <3>1 DEF MailMoves
  <2> QED
    BY <1>3, <2>1, <2>2 DEF StoreTool, DeferredAck, Conflicts
<1>4. ASSUME NEW s \in Sessions, StoreSyscall(s) PROVE Goal
  <2>1. sess[s].page \subseteq Messages
    BY <1>0, <1>4 DEF StoreSyscall, Conflicts
  <2>2. msg' = msg /\ (carried' = carried \/ carried' = carried \cup sess[s].page)
    BY <1>4 DEF StoreSyscall, Conflicts
  <2> QED
    BY <1>0, <2>1, <2>2 DEF MailMoves
<1>5. ASSUME NEW s \in Sessions,
             ReadPage(s) \/ ReadNothing(s) \/ Park(s) \/ ReadRefused(s) \/ Persist(s) \/ Poll(s)
               \/ Observe(s) \/ StoreOmitted(s) \/ Settle(s) \/ Raise(s) \/ Interrupt(s)
      PROVE  Goal
  BY <1>5, <1>u
  DEF ReadPage, ReadNothing, Park, ReadRefused, Persist, Poll, Observe, StoreOmitted, Settle, Raise,
      Interrupt, Fails
<1>6. CASE Claim \/ Resume \/ ResumeNothing \/ SelectOther \/ QuantumEnds \/ Crash
  BY <1>6, <1>u DEF Claim, Resume, ResumeNothing, SelectOther, QuantumEnds, Crash
<1>7. ASSUME NEW c \in Calls, Select(c) \/ \E s \in Hosts : HostCall(s, c) PROVE Goal
  BY <1>7, <1>u DEF Select, HostCall
<1>8. ASSUME NEW sig \in HostSignals, Signal(sig) PROVE Goal
  BY <1>8, <1>u DEF Signal
<1>9. ASSUME NEW at \in 0..MaxMessages, Checkpoint(at) PROVE Goal
  BY <1>9, <1>u DEF Checkpoint
<1>10. CASE Restore
  <2>1. UNCHANGED carried
    BY <1>10 DEF Restore
  <2> QED
    BY <1>0, <1>10, <2>1 DEF MailMoves
<1>11. CASE UNCHANGED vars
  BY <1>11, <1>u DEF vars
<1> QED
  BY <1>1, <1>2, <1>3, <1>4, <1>5, <1>6, <1>7, <1>8, <1>9, <1>10, <1>11 DEF Next, Works

\* Every step keeps the types of the mailbox, and that what the tool acknowledged is
\* carried.
LEMMA MailStep ==
    ASSUME IInv, [Next]_vars
    PROVE  msg' \in [Messages -> MessageRows] /\ ToolMailIsCarried'
<1> USE DEF IInv
<1>0. /\ MailMoves /\ carried \subseteq carried'
      /\ msg \in [Messages -> MessageRows] /\ ToolMailIsCarried
  BY MailMovesStep DEF TypeOK
<1>s. ASSUME NEW s \in Sessions, sess[s].pc # "idle"
      PROVE  sess[s].ids \in SUBSET Messages /\ sess[s].ids \subseteq sess[s].page
  BY <1>s, BusySession DEF Busy, GoodSession
<1> DEFINE Goal == msg' \in [Messages -> MessageRows] /\ ToolMailIsCarried'
<1>1. CASE msg' = msg
  BY <1>0, <1>1 DEF ToolMailIsCarried
<1>2. ASSUME NEW m \in Messages, Post(m) PROVE Goal
  <2>1. /\ msg' = [msg EXCEPT ![m] = [status |-> "unread", by |-> "none"]]
        /\ carried' = carried
    BY <1>2 DEF Post
  <2>2. [status |-> "unread", by |-> "none"] \in MessageRows
    BY DEF MessageRows
  <2>3. \A n \in Messages : msg'[n] = msg[n] \/ msg'[n].status = "unread"
    BY <1>0, <2>1
  <2> QED
    BY <1>0, <2>1, <2>2, <2>3 DEF ToolMailIsCarried
<1>3. ASSUME NEW s \in Sessions, AckSyscall(s) PROVE Goal
  <2>1. msg' = Acked(sess[s].ids, "syscall") /\ carried' = carried
    BY <1>3 DEF AckSyscall
  <2>2. sess[s].ids \in SUBSET Messages
    BY <1>3, <1>s DEF AckSyscall
  <2> QED
    BY <1>0, <2>1, <2>2, AckedMail DEF ToolMailIsCarried
<1>4. ASSUME NEW s \in Sessions, StoreTool(s), msg' = Acked(sess[s].ids, "tool"),
             carried' = carried \cup sess[s].page
      PROVE  Goal
  <2>1. sess[s].ids \in SUBSET Messages /\ sess[s].ids \subseteq sess[s].page
    BY <1>4, <1>s DEF StoreTool, Conflicts
  <2> QED
    BY <1>0, <1>4, <2>1, AckedMail DEF ToolMailIsCarried
<1>5. CASE Restore
  <2>1. saved # NoCheckpoint /\ msg' = RestoredMail /\ carried' = carried
    BY <1>5 DEF Restore
  <2> QED
    BY <1>0, <2>1, RestoredMessage DEF ToolMailIsCarried, CheckpointIsSound
<1> QED
  BY <1>0, <1>1, <1>2, <1>3, <1>4, <1>5 DEF MailMoves

-------------------------------------------------------------------------------
(* Pending actions, checkpoints and counters *)

\* Every step keeps the types of the rest of the state.
LEMMA OtherTypes ==
    ASSUME IInv, [Next]_vars
    PROVE  /\ pending' \in PendingRows /\ epoch' \in Nat
           /\ used' \in [calls : [Sessions -> Nat], idle : Nat, faults : Nat]
<1> DEFINE Counters == [calls : [Sessions -> Nat], idle : Nat, faults : Nat]
           Goal == pending' \in PendingRows /\ epoch' \in Nat /\ used' \in Counters
<1>0. pending \in PendingRows /\ epoch \in Nat /\ used \in Counters
  BY DEF IInv, TypeOK
<1>1. /\ [used EXCEPT !.idle = @ + 1] \in Counters
      /\ [used EXCEPT !.faults = @ + 1] \in Counters
  BY <1>0
<1>2. ASSUME NEW s \in Sessions PROVE [used EXCEPT !.calls[s] = @ + 1] \in Counters
  <2>1. [used.calls EXCEPT ![s] = @ + 1] \in [Sessions -> Nat]
    BY <1>0
  <2> QED
    BY <1>0, <2>1
<1>3. NoPending \in PendingRows
  BY DEF PendingRows
<1>q. Quantum \in Sessions /\ Hosts \subseteq Sessions
  BY DEF Sessions
<1> HIDE DEF Counters
<1>u. ASSUME UNCHANGED <<pending, epoch, used>> PROVE Goal
  BY <1>0, <1>u
<1>4. ASSUME NEW m \in Messages, Post(m) PROVE Goal
  BY <1>4, <1>u DEF Post
<1>5. ASSUME Claim PROVE Goal
  BY <1>0, <1>1, <1>5 DEF Claim
<1>6. ASSUME Resume PROVE Goal
  <2>1. [pending EXCEPT !.state = "resuming"] \in PendingRows
    BY <1>0, <1>6 DEF Resume, PendingRows, NoPending
  <2> QED
    BY <1>0, <1>6, <2>1 DEF Resume
<1>7. ASSUME ResumeNothing \/ SelectOther \/ QuantumEnds PROVE Goal
  BY <1>7, <1>u DEF ResumeNothing, SelectOther, QuantumEnds
<1>8. ASSUME NEW c \in Calls, Select(c) PROVE Goal
  BY <1>0, <1>2, <1>8, <1>q DEF Select
<1>9. ASSUME NEW c \in Calls, NEW s \in Hosts, HostCall(s, c) PROVE Goal
  BY <1>0, <1>2, <1>9, <1>q DEF HostCall
<1>10. ASSUME NEW s \in Sessions,
             ReadPage(s) \/ ReadNothing(s) \/ Park(s) \/ ReadRefused(s) \/ Poll(s) \/ Observe(s)
               \/ AckSyscall(s) \/ StoreTool(s) \/ StoreOmitted(s) \/ StoreSyscall(s)
               \/ Raise(s) \/ Interrupt(s)
      PROVE  Goal
  BY <1>10, <1>u
  DEF ReadPage, ReadNothing, Park, ReadRefused, Poll, Observe, AckSyscall, StoreTool, StoreOmitted,
      StoreSyscall, Raise, Interrupt, Fails, Conflicts
<1>11. ASSUME NEW s \in Sessions, Persist(s) PROVE Goal
  <2>1. sess[s].call \in Calls
    BY <1>11, BusySession DEF Persist, IInv
  <2>2. [state |-> "pending", call |-> sess[s].call] \in PendingRows
    BY <2>1 DEF PendingRows
  <2> QED
    BY <1>0, <1>11, <2>2 DEF Persist
<1>12. ASSUME NEW s \in Sessions, Settle(s) PROVE Goal
  BY <1>0, <1>3, <1>12 DEF Settle
<1>13. ASSUME NEW sig \in HostSignals, Signal(sig) PROVE Goal
  BY <1>0, <1>1, <1>13 DEF Signal
<1>14. ASSUME NEW at \in 0..MaxMessages, Checkpoint(at) PROVE Goal
  BY <1>0, <1>1, <1>14 DEF Checkpoint
<1>15. ASSUME Restore PROVE Goal
  <2>1. saved.pending \in PendingRows
    BY <1>15 DEF Restore, IInv, TypeOK, Checkpoints
  <2> QED
    BY <1>0, <1>1, <1>15, <2>1 DEF Restore
<1>16. ASSUME Crash PROVE Goal
  BY <1>0, <1>1, <1>16 DEF Crash
<1>17. ASSUME UNCHANGED vars PROVE Goal
  BY <1>17, <1>u DEF vars
<1>18. Goal
  BY <1>4, <1>5, <1>6, <1>7, <1>8, <1>9, <1>10, <1>11, <1>12, <1>13, <1>14, <1>15, <1>16, <1>17
  DEF Next, Works
<1> QED
  BY <1>18 DEF Counters

\* What a checkpoint captures.
LEMMA Captured ==
    ASSUME IInv, NEW at \in 0..MaxMessages, Checkpoint(at)
    PROVE  /\ saved' \in Checkpoints /\ saved' # NoCheckpoint
           /\ saved'.msg = msg /\ saved'.pending = pending /\ GoodRow(saved'.row)
<1> DEFINE status == IF row.status = "running" THEN "runnable" ELSE row.status
           r == [row EXCEPT !.status = status, !.sgen = 0, !.egen = 0, !.owner = NoOwner,
                            !.lease = NoHolder]
           later == {m \in Messages : m > at /\ msg[m].status = "none"}
<1>1. saved' = [later |-> later, msg |-> msg, pending |-> pending, row |-> r]
  BY DEF Checkpoint
<1>2. row \in Rows /\ ValidState(row.status, row.wait, row.code) /\ row.status # "absent"
  BY DEF IInv, TypeOK, Exists
<1>3. status \in Statuses \ {"absent"} /\ ValidState(status, row.wait, row.code)
  BY <1>2, ConstantTypes DEF Rows, ValidState
<1> HIDE DEF status
<1>4. r \in Rows /\ r.status = status /\ r.wait = row.wait /\ r.code = row.code
  BY <1>2, <1>3 DEF Rows
<1>5. GoodRow(r)
  BY <1>3, <1>4 DEF GoodRow, Exists
<1> HIDE DEF r
<1>6. later \in SUBSET Messages /\ msg \in [Messages -> MessageRows] /\ pending \in PendingRows
  BY DEF IInv, TypeOK
<1> HIDE DEF later
<1>7. saved' \in Checkpoints
  BY <1>1, <1>4, <1>6 DEF Checkpoints
<1>8. saved' # NoCheckpoint
  <2>1. "row" \in DOMAIN saved'
    BY <1>1
  <2>2. "row" \notin DOMAIN NoCheckpoint
    BY DEF NoCheckpoint
  <2> QED
    BY <2>1, <2>2
<1> QED
  BY <1>1, <1>5, <1>7, <1>8

\* Only a checkpoint changes what is saved.
LEMMA SavedMoves ==
    ASSUME [Next]_vars
    PROVE  saved' = saved \/ \E at \in 0..MaxMessages : Checkpoint(at)
  BY DEF Next, Works, vars, Post, Claim, Resume, ResumeNothing, Select, SelectOther, HostCall,
         ReadPage, ReadNothing, Park, ReadRefused, Persist, Poll, Observe, AckSyscall, StoreTool,
         StoreOmitted, StoreSyscall, Settle, Raise, Interrupt, QuantumEnds, Signal, Restore, Crash,
         Fails, Conflicts

\* Every step keeps the checkpoint sound.
LEMMA CheckpointStep ==
    ASSUME IInv, [Next]_vars
    PROVE  saved' \in Checkpoints /\ CheckpointIsSound'
<1>0. carried \subseteq carried'
  BY MailMovesStep
<1>1. CASE saved' = saved
  BY <1>0, <1>1 DEF IInv, TypeOK, CheckpointIsSound
<1>2. ASSUME NEW at \in 0..MaxMessages, Checkpoint(at)
      PROVE  saved' \in Checkpoints /\ CheckpointIsSound'
  BY <1>0, <1>2, Captured DEF IInv, CheckpointIsSound, ToolMailIsCarried
<1> QED
  BY <1>1, <1>2, SavedMoves

\* Every step keeps the claimed action in hand.
LEMMA ClaimStep == ASSUME IInv, [Next]_vars PROVE ClaimInHand'
<1> DEFINE Held == sess[Quantum] # Idle /\ sess[Quantum].pc \notin {"quantum", "done"}
           Excused == saved # NoCheckpoint /\ saved.pending.state = "resuming"
<1>q. Quantum \in Sessions /\ Quantum \notin Hosts /\ Idle.pc = "idle"
  BY MessagesAssumption DEF Sessions, Idle
<1>0. /\ Excused \/ pending.state # "resuming" \/ Terminal(row) \/ Held
      /\ pending \in PendingRows /\ Exists(row)
  BY DEF IInv, ClaimInHand, TypeOK
<1>f. ASSUME saved' = saved, pending'.state = "resuming" => pending.state = "resuming",
             Terminal(row) => Terminal(row'), Held => Held' \/ Terminal(row')
                                                      \/ pending'.state # "resuming"
      PROVE  ClaimInHand'
  BY <1>0, <1>f DEF ClaimInHand
<1>t. Terminal(row) => row.status # "runnable" /\ ~Live(row)
  BY DEF Terminal, TerminalStatuses, Live
<1>g. ASSUME NEW s \in Sessions, sess[s].pc # "idle",
             NEW pc \in {"quantum", "read", "park", "poll", "page", "ack", "store", "settle",
                         "raised"},
             Goes(s, pc), pc # "quantum"
      PROVE  Held => Held'
  BY <1>g, <1>q, GoesSession DEF IInv
<1>h. ASSUME NEW s \in Sessions, s # Quantum, NEW b, GoodSession(b), sess' = [sess EXCEPT ![s] = b]
      PROVE  Held => Held'
  BY <1>h, <1>q, ReplaceSession DEF IInv
<1>1. ASSUME NEW m \in Messages, Post(m) PROVE ClaimInHand'
  <2>1. Terminal(row) => Terminal(row')
    BY <1>1, <1>t DEF Post
  <2> QED
    BY <1>1, <2>1, <1>f DEF Post
<1>2. CASE Claim
  BY <1>0, <1>2, <1>t, <1>q DEF Claim, ClaimInHand
<1>3. CASE Resume
  <2> DEFINE b == [sess[Quantum] EXCEPT !.pc = "read", !.call = pending.call]
  <2>1. sess[Quantum] \in Busy /\ GoodSession(sess[Quantum]) /\ pending.call \in Calls
    BY <1>0, <1>3, <1>q, BusySession DEF Resume, IInv, PendingRows, NoPending
  <2>2. sess' = [sess EXCEPT ![Quantum] = b]
    BY <1>3 DEF Resume
  <2>3. b # Idle /\ b.pc = "read"
    BY <2>1, OpenGood
  <2> HIDE DEF b
  <2>4. sess'[Quantum] = b
    BY <1>q, <2>2 DEF IInv, TypeOK
  <2> QED
    BY <2>3, <2>4 DEF ClaimInHand
<1>4. CASE ResumeNothing
  BY <1>4, <1>f DEF ResumeNothing
<1>5. ASSUME NEW c \in Calls, Select(c) PROVE ClaimInHand'
  BY <1>5 DEF Select, ClaimInHand
<1>6. CASE SelectOther
  BY <1>6 DEF SelectOther, ClaimInHand
<1>7. ASSUME NEW s \in Hosts, NEW c \in Calls, HostCall(s, c) PROVE ClaimInHand'
  <2>1. sess'[Quantum] = sess[Quantum]
    BY <1>7, <1>q DEF HostCall, IInv, TypeOK, Sessions
  <2> QED
    BY <1>7, <2>1, <1>f DEF HostCall
<1>8. ASSUME NEW s \in Sessions, ReadPage(s) PROVE ClaimInHand'
  <2>1. UNCHANGED <<row, pending, saved>>
    BY <1>8 DEF ReadPage
  <2>2. sess'[s].pc = "page" /\ (s # Quantum => sess'[Quantum] = sess[Quantum])
    BY <1>8, <1>q, ReadPageSession DEF IInv, TypeOK
  <2>3. Held => Held'
    BY <2>2, <1>q
  <2> QED
    BY <2>1, <2>3, <1>f
<1>9. ASSUME NEW s \in Sessions,
             ReadNothing(s) \/ ReadRefused(s) \/ Poll(s) \/ Observe(s) \/ AckSyscall(s)
               \/ StoreTool(s) \/ StoreOmitted(s) \/ StoreSyscall(s)
      PROVE  ClaimInHand'
  <2>1. UNCHANGED <<row, pending, saved>>
    BY <1>9
    DEF ReadNothing, ReadRefused, Poll, Observe, AckSyscall, StoreTool, StoreOmitted, StoreSyscall,
        Fails, Conflicts
  <2>2. Held => Held'
    BY <1>9, <1>g
    DEF ReadNothing, ReadRefused, Poll, Observe, AckSyscall, StoreTool, StoreOmitted, StoreSyscall,
        Fails, Conflicts
  <2> QED
    BY <2>1, <2>2, <1>f
<1>10. ASSUME NEW s \in Sessions, Park(s) PROVE ClaimInHand'
  <2>1. UNCHANGED <<pending, saved>> /\ ~Terminal(row)
    BY <1>10 DEF Park, MayPark, MayWrite, Live
  <2>2. sess'[s].pc \in {"park", "poll"} /\ (s # Quantum => sess'[Quantum] = sess[Quantum])
    BY <1>10, <1>q, ParkSession DEF IInv, TypeOK
  <2>3. Held => Held'
    BY <2>2, <1>q
  <2> QED
    BY <2>1, <2>3, <1>f
<1>11. ASSUME NEW s \in Sessions, Persist(s) PROVE ClaimInHand'
  <2>1. CASE s = Quantum
    BY <1>11, <2>1 DEF Persist, ClaimInHand
  <2>2. CASE s # Quantum
    BY <1>11, <2>2, <1>f, <1>h, OpenGood DEF Persist
  <2> QED
    BY <2>1, <2>2
<1>12. ASSUME NEW s \in Sessions, Interrupt(s) PROVE ClaimInHand'
  <2>1. Terminal(row) => Terminal(row')
    BY <1>12 DEF Interrupt, Terminal, TerminalStatuses, Fails
  <2>2. Held => Held'
    BY <1>12, <1>g DEF Interrupt, Fails
  <2> QED
    BY <1>12, <2>1, <2>2, <1>f DEF Interrupt, Fails
<1>13. ASSUME NEW s \in Sessions, Settle(s) PROVE ClaimInHand'
  <2>1. CASE s = Quantum
    <3>1. pending'.state # "resuming"
      BY <1>13, <2>1 DEF Settle, NoPending
    <3> QED
      BY <3>1 DEF ClaimInHand
  <2>2. CASE s # Quantum
    BY <1>13, <2>2, <1>f, <1>h, OpenGood DEF Settle
  <2> QED
    BY <2>1, <2>2
<1>14. ASSUME NEW s \in Sessions, Raise(s) PROVE ClaimInHand'
  <2>0. UNCHANGED <<pending, saved>>
    BY <1>14 DEF Raise
  <2>1. CASE s = Quantum
    <3>1. Terminal(row')
      <4>1. CASE Live(row)
        BY <1>14, <2>1, <4>1 DEF Raise, Terminal, TerminalStatuses, Transition
      <4>2. CASE ~Live(row)
        BY <1>0, <1>14, <2>1, <4>2 DEF Raise, Live
      <4> QED
        BY <4>1, <4>2
    <3> QED
      BY <3>1 DEF ClaimInHand
  <2>2. CASE s # Quantum
    BY <1>14, <2>0, <2>2, <1>f, <1>h, OpenGood DEF Raise
  <2> QED
    BY <2>1, <2>2
<1>15. CASE QuantumEnds
  <2>1. Terminal(row) => Terminal(row')
    BY <1>15, ExecutionGood DEF QuantumEnds, IInv, TypeOK, GoodRow
  <2> QED
    BY <1>15, <2>1, <1>f DEF QuantumEnds
<1>16. ASSUME NEW sig \in HostSignals, Signal(sig) PROVE ClaimInHand'
  BY <1>16, <1>t, <1>f DEF Signal, SignalApplicable
<1>17. ASSUME NEW at \in 0..MaxMessages, Checkpoint(at) PROVE ClaimInHand'
  <2>1. pending' = pending
    BY <1>17 DEF Checkpoint
  <2> QED
    BY <1>17, <2>1, Captured DEF ClaimInHand
<1>18. CASE Restore
  BY <1>18 DEF Restore, ClaimInHand
<1>19. CASE Crash
  <2> DEFINE r == IF IsStaleExecution(row, epoch + 1) THEN RecoverStaleRow(row) ELSE row
  <2>1. row' = Loaded(r) /\ UNCHANGED <<pending, saved>>
    BY <1>19 DEF Crash
  <2>2. Exists(r)
    BY ExecutionGood DEF IInv, TypeOK, GoodRow
  <2> HIDE DEF r
  <2>3. pending.state = "resuming" => Terminal(row')
    BY <2>1, <2>2 DEF Loaded, Live, Terminal, TerminalStatuses, Transition
  <2> QED
    BY <2>1, <2>3 DEF ClaimInHand
<1>20. CASE UNCHANGED vars
  BY <1>20, <1>f DEF vars
<1> QED
  BY <1>1, <1>2, <1>3, <1>4, <1>5, <1>6, <1>7, <1>8, <1>9, <1>10, <1>11, <1>12, <1>13, <1>14,
     <1>15, <1>16, <1>17, <1>18, <1>19, <1>20
  DEF Next, Works

-------------------------------------------------------------------------------
(* The parked process *)

\* Every step leaves a parked process without mail.
LEMMA ParkedStep == ASSUME IInv, [Next]_vars PROVE ParkedHasNoMail'
<1> DEFINE Fewer == \A m \in Messages : msg'[m].status = "unread" => msg[m].status = "unread"
<1>0. GoodRow(row) /\ row \in Rows /\ epoch \in Nat /\ ParkedHasNoMail
  BY DEF IInv, TypeOK, GoodRow
<1>n. NoWait.kind # "message"
  BY DEF NoWait
<1>f. ASSUME Fewer, row'.wait.kind = "message" => row'.wait = row.wait PROVE ParkedHasNoMail'
  BY <1>0, <1>f DEF ParkedHasNoMail, HasMail, Matches
<1>u. ASSUME UNCHANGED <<row, msg>> PROVE ParkedHasNoMail'
  BY <1>u, <1>f
<1>1. ASSUME NEW m \in Messages, Post(m) PROVE ParkedHasNoMail'
  <2>1. CASE Wakes(row, msg', m)
    <3>1. row'.wait = NoWait
      BY <1>0, <1>1, <2>1, WakeFailPark DEF Post
    <3> QED
      BY <1>n, <3>1 DEF ParkedHasNoMail
  <2>2. CASE ~Wakes(row, msg', m)
    <3>1. row' = row
      BY <1>1, <2>2 DEF Post
    <3>2. \A n \in Messages : n # m => msg'[n] = msg[n]
      BY <1>1 DEF Post, IInv, TypeOK
    <3> QED
      BY <1>0, <2>2, <3>1, <3>2 DEF ParkedHasNoMail, HasMail, Matches, Wakes
  <2> QED
    BY <2>1, <2>2
<1>2. CASE Claim
  <2>1. row'.wait = NoWait /\ msg' = msg
    BY <1>0, <1>2, ExecutionGood DEF Claim
  <2> QED
    BY <1>n, <2>1 DEF ParkedHasNoMail
<1>3. CASE Resume \/ ResumeNothing \/ SelectOther
  BY <1>3, <1>u DEF Resume, ResumeNothing, SelectOther
<1>4. ASSUME NEW c \in Calls, Select(c) \/ \E s \in Hosts : HostCall(s, c) PROVE ParkedHasNoMail'
  BY <1>4, <1>u DEF Select, HostCall
<1>5. ASSUME NEW s \in Sessions,
             ReadPage(s) \/ ReadNothing(s) \/ ReadRefused(s) \/ Persist(s) \/ Poll(s)
               \/ Observe(s) \/ StoreOmitted(s) \/ StoreSyscall(s) \/ Settle(s)
      PROVE  ParkedHasNoMail'
  BY <1>5, <1>u
  DEF ReadPage, ReadNothing, ReadRefused, Persist, Poll, Observe, StoreOmitted, StoreSyscall,
      Settle, Fails, Conflicts
<1>6. ASSUME NEW s \in Sessions, AckSyscall(s) \/ StoreTool(s) PROVE ParkedHasNoMail'
  <2>1. sess[s].ids \in SUBSET Messages
    BY <1>6, BusySession DEF AckSyscall, StoreTool, IInv, Busy, Conflicts
  <2>2. \/ msg' = msg \/ msg' = Acked(sess[s].ids, "syscall") \/ msg' = Acked(sess[s].ids, "tool")
    BY <1>6 DEF AckSyscall, StoreTool, DeferredAck, Conflicts
  <2>3. Fewer
    BY <2>1, <2>2, AckedMail DEF IInv
  <2>4. row' = row
    BY <1>6 DEF AckSyscall, StoreTool, Conflicts
  <2> QED
    BY <2>3, <2>4, <1>f
<1>7. ASSUME NEW s \in Sessions, Park(s) PROVE ParkedHasNoMail'
  <2>1. sess[s].call.want \in Filters /\ sess[s].call \in Calls
    BY <1>7, BusySession DEF Park, IInv
  <2>2. row'.wait = MessageWait(sess[s].call.want) /\ msg' = msg
    BY <1>0, <1>7, <2>1, WakeFailPark DEF Park
  <2>3. \A m \in Messages : ~Matches(msg, m, sess[s].call.want)
    BY <1>7 DEF Park, Visible, Matches
  <2> QED
    BY <2>2, <2>3 DEF ParkedHasNoMail, MessageWait, HasMail, Matches
<1>8. ASSUME NEW s \in Sessions, Interrupt(s) \/ Raise(s) PROVE ParkedHasNoMail'
  <2>1. row' = row \/ row'.wait = NoWait
    BY <1>0, <1>8, WakeFailPark DEF Interrupt, Raise, Fails
  <2>2. msg' = msg
    BY <1>8 DEF Interrupt, Raise, Fails
  <2> QED
    BY <2>1, <2>2, <1>f, <1>n
<1>9. CASE QuantumEnds
  <2>1. row'.wait \in {row.wait, NoWait} /\ msg' = msg
    BY <1>0, <1>9, ExecutionGood DEF QuantumEnds
  <2> QED
    BY <2>1, <1>f, <1>n
<1>10. ASSUME NEW sig \in HostSignals, Signal(sig) PROVE ParkedHasNoMail'
  <2>1. sig \in Signals
    BY MessagesAssumption DEF Signals
  <2>2. row'.wait.kind # "message"
    BY <1>0, <1>10, <2>1, SignalGood DEF Signal
  <2> QED
    BY <2>2 DEF ParkedHasNoMail
<1>11. ASSUME NEW at \in 0..MaxMessages, Checkpoint(at) PROVE ParkedHasNoMail'
  BY <1>11, <1>u DEF Checkpoint
<1>12. CASE Restore
  <2>1. GoodRow(RestoredRow) /\ RestoredRow \in Rows
    BY <1>12, RestoredGood DEF Restore, IInv, GoodRow
  <2>2. row' = Reconciled(RestoredRow, msg')
    BY <1>12 DEF Restore
  <2>3. CASE RestoredRow.wait.kind = "message" /\ \E f \in RestoredRow.wait.on : HasMail(msg', f)
    <3>1. row'.wait = NoWait
      BY <2>1, <2>2, <2>3, WakeFailPark DEF Reconciled
    <3> QED
      BY <1>n, <3>1 DEF ParkedHasNoMail
  <2>4. CASE ~(RestoredRow.wait.kind = "message" /\ \E f \in RestoredRow.wait.on : HasMail(msg', f))
    <3>1. row' = RestoredRow
      BY <2>2, <2>4 DEF Reconciled
    <3> QED
      BY <2>4, <3>1 DEF ParkedHasNoMail, HasMail, Matches
  <2> QED
    BY <2>3, <2>4
<1>13. CASE Crash
  <2> DEFINE r == IF IsStaleExecution(row, epoch + 1) THEN RecoverStaleRow(row) ELSE row
  <2>1. /\ r \in Rows /\ (r = row \/ r.wait.kind = "stale_execution")
    BY <1>0, ExecutionGood DEF GoodRow
  <2>2. row' \in {Transition(r, "failed", NoWait, "failed"), r} /\ msg' = msg
    BY <1>13 DEF Crash, Loaded
  <2> HIDE DEF r
  <2>3. row'.wait \in {NoWait, r.wait}
    BY <2>1, <2>2, WakeFailPark
  <2> QED
    BY <2>1, <2>2, <2>3, <1>f, <1>n
<1>14. CASE UNCHANGED vars
  BY <1>14, <1>u DEF vars
<1> QED
  BY <1>1, <1>2, <1>3, <1>4, <1>5, <1>6, <1>7, <1>8, <1>9, <1>10, <1>11, <1>12, <1>13, <1>14
  DEF Next, Works

-------------------------------------------------------------------------------
(* Theorems *)

\* The invariant holds of every reachable state, however posts, reads, quanta, signals,
\* checkpoints, restores and crashes interleave.
THEOREM Invariance == Spec => []IInv
<1>1. Init => IInv
  <2> SUFFICES ASSUME Init PROVE IInv
    OBVIOUS
  <2>1. /\ row \in Rows /\ ValidState(row.status, row.wait, row.code) /\ Exists(row)
        /\ row.wait = NoWait
    BY PublishedGood DEF Init, GoodRow, InsertProcess
  <2>2. /\ msg \in [Messages -> MessageRows] /\ ToolMailIsCarried
        /\ pending \in PendingRows /\ ClaimInHand
    BY DEF Init, Unposted, MessageRows, ToolMailIsCarried, PendingRows, NoPending, ClaimInHand
  <2>3. sess \in [Sessions -> {Idle} \cup Busy] /\ \A s \in Sessions : GoodSession(sess[s])
    BY OpenGood DEF Init
  <2>4. /\ carried \subseteq Messages /\ saved \in Checkpoints /\ CheckpointIsSound /\ epoch \in Nat
        /\ used \in [calls : [Sessions -> Nat], idle : Nat, faults : Nat]
    BY DEF Init, Checkpoints, CheckpointIsSound
  <2>5. ParkedHasNoMail
    BY <2>1 DEF ParkedHasNoMail, NoWait
  <2> QED
    BY <2>1, <2>2, <2>3, <2>4, <2>5 DEF IInv, TypeOK
<1>2. IInv /\ [Next]_vars => IInv'
  <2> SUFFICES ASSUME IInv, [Next]_vars PROVE IInv'
    OBVIOUS
  <2>1. TypeOK' /\ Exists(row)'
    BY RowStep, SessionStep, MailStep, MailMovesStep, OtherTypes, CheckpointStep
    DEF TypeOK, GoodRow, Sound, Exists
  <2> QED
    BY <2>1, SessionStep, CheckpointStep, MailStep, ClaimStep, ParkedStep DEF IInv, Sound
<1> QED
  BY <1>1, <1>2, PTL DEF Spec

\* No wakeup is lost: a process parked for mail has none that its filter admits (post,
\* receive, _reconcile_restored_wait_states), for any number of messages and readers.
THEOREM NoLostWakeup == Spec => []ParkedHasNoMail
  BY Invariance, PTL DEF IInv

\* What the tool acknowledged is carried, and a claimed action is in hand
\* (_commit_process_message_ack, _resume_pending_message_action, _load_pending_actions).
THEOREM MailConsistent == Spec => []MailInv
<1>1. IInv => MailInv
  BY DEF IInv, MailInv, ClaimInHand, ClaimHasItsQuantum
<1> QED
  BY <1>1, Invariance, PTL

\* Only the read of a page takes a session from "read" to "page".
LEMMA OnlyReadPage ==
    ASSUME IInv, Next, NEW s \in Sessions, sess[s].pc = "read", sess'[s].pc = "page"
    PROVE  ReadPage(s)
<1> USE DEF IInv
<1>q. Quantum \in Sessions /\ Hosts \subseteq Sessions /\ Idle.pc = "idle"
  BY DEF Sessions, Idle
<1>g. ASSUME NEW t \in Sessions, NEW b, sess' = [sess EXCEPT ![t] = b], b.pc # "page" PROVE FALSE
  BY <1>g DEF TypeOK
<1>m. ASSUME NEW t \in Sessions, sess[t].pc # "idle",
             NEW pc \in {"read", "ack", "store", "settle", "raised", "done"}, Goes(t, pc)
      PROVE  FALSE
  BY <1>m, GoesSession
<1>u. sess' # sess
  OBVIOUS
<1>1. ASSUME \/ \E m \in Messages : Post(m)
             \/ \E sig \in HostSignals : Signal(sig)
             \/ \E at \in 0..MaxMessages : Checkpoint(at)
             \/ Restore
      PROVE  FALSE
  BY <1>1, <1>u DEF Post, Signal, Checkpoint, Restore
<1>2. CASE Claim
  BY <1>2, <1>q, <1>g DEF Claim, OpenSession
<1>3. ASSUME Resume \/ \E c \in Calls : Select(c) PROVE FALSE
  <2>1. PICK c \in Calls \cup {pending.call} :
          sess' = [sess EXCEPT ![Quantum] = [sess[Quantum] EXCEPT !.pc = "read", !.call = c]]
    BY <1>3 DEF Resume, Select
  <2>2. sess[Quantum] \in Busy
    BY <1>3, <1>q, BusySession DEF Resume, Select
  <2>3. [sess[Quantum] EXCEPT !.pc = "read", !.call = c].pc # "page"
    BY <2>2 DEF Busy
  <2> QED
    BY <1>q, <1>g, <2>1, <2>3
<1>4. ASSUME ResumeNothing \/ SelectOther PROVE FALSE
  BY <1>4, <1>q, <1>m DEF ResumeNothing, SelectOther
<1>5. ASSUME NEW t \in Hosts, NEW c \in Calls, HostCall(t, c) PROVE FALSE
  BY <1>5, <1>q, <1>g DEF HostCall, OpenSession
<1>6. ASSUME NEW t \in Sessions, ReadPage(t) PROVE ReadPage(s)
  BY <1>6, ReadPageSession DEF TypeOK
<1>7. ASSUME NEW t \in Sessions,
             ReadNothing(t) \/ ReadRefused(t) \/ Poll(t) \/ Observe(t) \/ AckSyscall(t)
               \/ StoreTool(t) \/ StoreOmitted(t) \/ StoreSyscall(t) \/ Interrupt(t)
      PROVE  FALSE
  BY <1>7, <1>m
  DEF ReadNothing, ReadRefused, Poll, Observe, AckSyscall, StoreTool, StoreOmitted, StoreSyscall,
      Interrupt, Fails, Conflicts
<1>8. ASSUME NEW t \in Sessions, Park(t) PROVE FALSE
  BY <1>8, <1>g, ParkSession
<1>9. ASSUME NEW t \in Sessions, Persist(t) \/ Settle(t) \/ Raise(t) PROVE FALSE
  BY <1>9, <1>m, <1>g, <1>q DEF Persist, Settle, Raise
<1>10. ASSUME QuantumEnds PROVE FALSE
  BY <1>10, <1>g, <1>q DEF QuantumEnds
<1>11. ASSUME Crash PROVE FALSE
  BY <1>11, <1>q DEF Crash
<1> QED
  BY <1>1, <1>2, <1>3, <1>4, <1>5, <1>6, <1>7, <1>8, <1>9, <1>10, <1>11 DEF Next, Works

\* Superseded mail stays out: no page takes it, and only a restore of a checkpoint that
\* had it acknowledged makes it acknowledged (ack, list_page).
THEOREM SupersededOut == Spec => SupersededStaysOut
<1> DEFINE Out(m) ==
      /\ \A s \in Sessions :
           sess[s] # Idle /\ sess[s].pc = "read" /\ sess'[s] # Idle /\ sess'[s].pc = "page"
             => m \notin sess'[s].page
      /\ msg'[m].status = "acked" => saved # NoCheckpoint /\ msg'[m] = saved.msg[m]
<1>1. ASSUME IInv, Next, NEW m \in Messages, msg[m].status = "superseded" PROVE Out(m)
  <2> USE <1>1 DEF IInv
  <2>1. ASSUME NEW s \in Sessions, sess[s] # Idle, sess[s].pc = "read", sess'[s] # Idle,
               sess'[s].pc = "page"
        PROVE  m \notin sess'[s].page
    <3>1. ReadPage(s)
      BY <2>1, OnlyReadPage
    <3>2. m \notin Visible(sess[s].call)
      BY DEF Visible
    <3> QED
      BY <3>1, <3>2, ReadPageSession DEF Pages, TypeOK
  <2>2. ASSUME msg'[m].status = "acked" PROVE saved # NoCheckpoint /\ msg'[m] = saved.msg[m]
    <3>0. MailMoves /\ msg'[m] # msg[m]
      BY <2>2, MailMovesStep
    <3>1. ASSUME NEW n \in Messages, Post(n) PROVE FALSE
      BY <3>0, <3>1 DEF Post, TypeOK
    <3>2. ASSUME NEW s \in Sessions, sess[s].pc # "idle", NEW by \in {"tool", "syscall"},
                 msg' = Acked(sess[s].ids, by)
          PROVE  FALSE
      <4>1. sess[s].ids \in SUBSET Messages
        BY <3>2, BusySession DEF Busy
      <4> QED
        BY <3>0, <3>2, <4>1, AckedMail
    <3>3. CASE Restore
      BY <2>2, <3>0, <3>3, RestoredMessage DEF Restore
    <3> QED
      BY <3>0, <3>1, <3>2, <3>3 DEF MailMoves, AckSyscall, StoreTool, Conflicts
  <2> QED
    BY <2>1, <2>2
<1>2. IInv /\ [Next]_vars =>
        [\A m \in Messages : msg[m].status = "superseded" => Out(m)]_vars
  BY <1>1
<1> QED
  BY <1>2, Invariance, PTL DEF Spec, SupersededStaysOut

===============================================================================
