---------------------------- MODULE MCReportWalk ----------------------------
(* Two kinds and reports that saturate at 3: every sum below, at and above  *)
(* the limit is met at every depth.                                         *)
EXTENDS ReportWalk

MCEnabled == {"email", "api_key"}
=============================================================================
