--------------------------- MODULE MCProxyMetrics ---------------------------
(* Two handlers and a scraper; a report of one kind and one of two kinds,   *)
(* so that a lock is taken after another handler's later addition.          *)
EXTENDS ProxyMetrics

OneEmail == Record(EmptyReport, "email")
TwoKinds == Record(OneEmail, "ip")

MCReports == {OneEmail, TwoKinds}
MCCounted == {"requests"}
MCAmount == {1}
=============================================================================
