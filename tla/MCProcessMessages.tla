-------------------------- MODULE MCProcessMessages --------------------------
EXTENDS ProcessMessages, TLC

Read(want, path, block, all, ack) ==
    [want |-> want, path |-> path, block |-> block, all |-> all, ack |-> ack]

\* A process and the Host send in turn.
Alternating ==
    [m \in Messages |-> IF m % 2 = 1 THEN CHOOSE a \in Labelled : TRUE
                        ELSE CHOOSE a \in Senders \ Labelled : TRUE]

\* A blocking read of either path, the one with the tool selective, and a
\* non-blocking read that includes acknowledged messages.
SomeCalls ==
    {Read(CHOOSE a \in Labelled : TRUE, "tool", TRUE, FALSE, TRUE),
     Read(AnySender, "syscall", TRUE, FALSE, TRUE),
     Read(AnySender, "tool", FALSE, TRUE, TRUE)}

\* One blocking read with the tool.
ToolCall == {Read(AnySender, "tool", TRUE, FALSE, TRUE)}

\* One blocking read inside a JIT program.
JitCall == {Read(AnySender, "syscall", TRUE, FALSE, TRUE)}
===============================================================================
