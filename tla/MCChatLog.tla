----------------------------- MODULE MCChatLog -----------------------------
(***************************************************************************)
(* Three events, of which two fill the buffer: several uploads overlap,    *)
(* two of them may fail, and the process restarts once.                    *)
(***************************************************************************)
EXTENDS ChatLog

CONSTANTS e1, e2, e3, pod1, pod2

MCPods == <<pod1, pod2>>
MCSizeOf == [e \in Events |-> IF e = e3 THEN 3 ELSE 2]
=============================================================================
