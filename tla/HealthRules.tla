---------------------------- MODULE HealthRules ----------------------------
(***************************************************************************)
(* The rules of an audit over statistics: dead tuples, scans and           *)
(* configuration.  They share no state and no statement, so a behaviour    *)
(* moves what one of them reads: the one under review.                     *)
(***************************************************************************)
EXTENDS TableScans, ConfigRules

VARIABLE section

vars == <<tableVars, scans, configVars, section>>

TypeOK == TypeOKTable /\ TypeOKScans /\ TypeOKConfig

(* Any configuration will do for a behaviour that moves the tables. *)
Resting ==
    /\ running = CHOOSE s \in InitialSettings : TRUE
    /\ reserved = CHOOSE r \in RoleReserved : TRUE

Init ==
    /\ section \in {"tuples", "scans", "config"}
    /\ InitTable
    /\ InitScans
    /\ InitConfig
    /\ section # "config" => Resting

CheckTable ==
    section = "tuples" /\ NextTable /\ UNCHANGED <<scans, configVars, section>>

CheckScans ==
    section = "scans" /\ NextScans /\ UNCHANGED <<tableVars, configVars, section>>

CheckConfig ==
    section = "config" /\ NextConfig /\ UNCHANGED <<tableVars, scans, section>>

Next == CheckTable \/ CheckScans \/ CheckConfig

Spec == Init /\ [][Next]_vars
=============================================================================
