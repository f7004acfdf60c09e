--------------------------- MODULE MCOtaDownload ---------------------------
(* TLC instance of OtaDownload. *)
EXTENDS OtaDownload
============================================================================
