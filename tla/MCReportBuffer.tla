--------------------------- MODULE MCReportBuffer ---------------------------
(* Small instances of the report buffer for TLC.                           *)
EXTENDS ReportBuffer
=============================================================================
