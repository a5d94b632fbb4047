---------------------------- MODULE MCChatTurns ----------------------------
(* ChatTurns for TLC: answers of the chat model that hold every intent, a   *)
(* change with and without a patch, a request for clarification, and one    *)
(* answer in the wrong language.                                            *)
EXTENDS ChatTurns

Says(intent, patch, arabic) ==
    [intent |-> intent, asks |-> FALSE, patch |-> patch, arabic |-> arabic]

MCDecisions ==
    {Says("explain_plan", {}, FALSE), Says("regenerate_trip", {}, TRUE)}
        \cup {Says("modify_trip", patch, TRUE) : patch \in SUBSET Patches}
=============================================================================
