--------------------------- MODULE MCChatUploads ---------------------------
(* Instances of ChatUploads for TLC. *)
EXTENDS ChatUploads, TLC

CONSTANTS f1, f2, w1

\* The second uploader for pictures is like the second one for attachments.
MCUploaders == {<<"image", 1>>, <<"attachment", 1>>, <<"attachment", 2>>}

============================================================================
