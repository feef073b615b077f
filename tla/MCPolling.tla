------------------------------ MODULE MCPolling ------------------------------
(* Polling on a small instance. *)
EXTENDS Polling

CONSTANTS snmp, jmx

(* A service is added to the configuration, then another one removed.      *)
MCContent == <<{snmp}, {snmp, jmx}, {jmx}>>
=============================================================================
