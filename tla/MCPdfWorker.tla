------------------------------ MODULE MCPdfWorker ------------------------------
(* PdfWorker on small sets for TLC. *)
EXTENDS PdfWorker, TLC
=============================================================================
