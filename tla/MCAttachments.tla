--------------------------- MODULE MCAttachments ---------------------------
(* Two messages to send, one of them with a file, and one download.        *)
EXTENDS Attachments
=============================================================================
