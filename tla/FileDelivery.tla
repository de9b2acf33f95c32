---------------------------- MODULE FileDelivery ----------------------------
(***************************************************************************)
(* What a file transfer promises its two ends, however it goes: who is     *)
(* told that the file has arrived has the file that was offered, all of    *)
(* it.  There is one exception: a file whose size does not fit the number  *)
(* that announces it loses its end, and both ends are told of success all  *)
(* the same.  The uploader may be told of a failure although the file has  *)
(* arrived; nothing can prevent that when the last message of a connection *)
(* is lost.                                                                *)
(***************************************************************************)
EXTENDS Integers

VARIABLES
    offered,  \* the contents of the file, given by their length
    up,       \* what the uploader has been told
    down,     \* what the downloader has been told
    kept      \* what the downloader has received, a beginning of a file

CONSTANTS
    Nothing,
    Limit     \* no size from here on can be announced

vars == <<offered, up, down, kept>>

Init ==
    /\ up = "busy"
    /\ down = "busy"
    /\ kept = Nothing

Arrive ==
    /\ down = "busy"
    /\ down' = "success"
    /\ \/ kept' = offered
       \/ offered >= Limit /\ kept' \in 0 .. Limit - 1
    /\ UNCHANGED <<offered, up>>

Confirm ==
    /\ up = "busy"
    /\ down = "success"
    /\ up' = "success"
    /\ UNCHANGED <<offered, down, kept>>

UploadFails ==
    /\ up = "busy"
    /\ up' = "failure"
    /\ UNCHANGED <<offered, down, kept>>

DownloadFails ==
    /\ down = "busy"
    /\ down' = "failure"
    /\ UNCHANGED <<offered, up, kept>>

Next == Arrive \/ Confirm \/ UploadFails \/ DownloadFails

Spec == Init /\ [][Next]_vars

=============================================================================
