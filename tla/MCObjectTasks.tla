--------------------------- MODULE MCObjectTasks ---------------------------
EXTENDS ObjectTasks
=============================================================================
