------------------------------- MODULE MCPoll -------------------------------
(* Small instances of Poll for TLC.  A tick is half a minute.               *)
EXTENDS Poll

(* The shortest interval the settings surface offers, and one longer than   *)
(* the back-off: its half hour.                                             *)
MCBase == [t \in Targets |-> IF t = Inbox THEN 1 ELSE 4]
=============================================================================
