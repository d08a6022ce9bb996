------------------------------ MODULE MCPortScan ------------------------------
(* A band of five ports between two foreign ports, small enough for TLC to *)
(* walk every way the host can change under the scan.                      *)
EXTENDS PortScan

SmallHost == 19..25
=============================================================================
