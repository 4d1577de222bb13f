---------------------------- MODULE ConfigRules ----------------------------
(***************************************************************************)
(* The check_config tool (src/pgtriage/server.py): collect_config_settings *)
(* and collect_connection_stats (src/pgtriage/collectors/config.py), one   *)
(* statement each, and analyze_config (src/pgtriage/analyzers/             *)
(* config_rules.py), over a server whose operator follows the advice.      *)
(* The rules are operators over what the two statements return; the tool   *)
(* may be called in any state.                                             *)
(***************************************************************************)
EXTENDS Integers

CONSTANTS
    InitialSettings,  \* configurations the server may start with
    MaxConnections,   \* max_connections
    Superuser,        \* superuser_reserved_connections
    RoleReserved      \* reserved_connections: the values it may have

Names == {"shared_buffers", "work_mem", "autovacuum_vacuum_scale_factor",
          "random_page_cost", "log_min_duration_statement"}

ASSUME ConfigAssumption ==
    /\ InitialSettings \subseteq [Names -> Int]
    /\ MaxConnections \in Nat /\ Superuser \in Nat
    /\ RoleReserved \subseteq Nat
    /\ \A r \in RoleReserved : Superuser + r < MaxConnections

VARIABLES
    running,     \* pg_settings.setting of each name
    configured,  \* what the configuration files say
    reloaded,    \* whether they were read since they last changed
    followed,    \* how far the advice on each name has been followed
    reserved,    \* reserved_connections of the server
    clients      \* client backends, reserved slots in use included

configVars == <<running, configured, reloaded, followed, reserved, clients>>

TypeOKConfig ==
    /\ running \in [Names -> Int]
    /\ configured \in [Names -> Int]
    /\ reloaded \in BOOLEAN
    /\ followed \in [Names -> {"no", "altered", "done"}]
    /\ reserved \in RoleReserved
    /\ clients \in 0..MaxConnections

-----------------------------------------------------------------------------
(* analyze_config.  A setting is the number pg_settings shows, and the     *)
(* fractions among them in hundredths.                                     *)

(* _parse_memory_kb for a server of 8 kB blocks.                           *)
Kilobytes(s, name) == IF name = "shared_buffers" THEN 8 * s[name] ELSE s[name]

(* The settings a finding is made of. *)
Reported(s) ==
    {n \in Names :
        \/ n = "shared_buffers" /\ Kilobytes(s, n) < 128 * 1024
        \/ n = "work_mem" /\ Kilobytes(s, n) <= 4 * 1024
        \/ n = "autovacuum_vacuum_scale_factor" /\ s[n] > 10
        \/ n = "random_page_cost" /\ s[n] > 150
        \/ n = "log_min_duration_statement" /\ s[n] < 0}

(* The value each suggested_fix gives the setting in an ALTER SYSTEM.      *)
Fix(n) ==
    CASE n = "shared_buffers" -> (256 * 1024) \div 8
      [] n = "work_mem" -> 16 * 1024
      [] n = "random_page_cost" -> 110
      [] OTHER -> 1000

(* The fix of the scale factor is another: an ALTER TABLE for each table   *)
(* that needs it, which leaves the setting the rule reads as it is.        *)
PerTable == {"autovacuum_vacuum_scale_factor"}

(* Mutant of After: shared_buffers takes effect at a reload. *)
AfterReload(n) ==
    CASE n \in {"shared_buffers", "work_mem", "random_page_cost"} -> "reload"
      [] OTHER -> "nothing"

(* What each suggested_fix tells to do after its ALTER: of                 *)
(* log_min_duration_statement it names nothing, though it needs a reload.  *)
After(n) ==
    CASE n = "shared_buffers" -> "restart"
      [] n \in {"work_mem", "random_page_cost"} -> "reload"
      [] OTHER -> "nothing"

(* Mutant of RequiresDowntime: the field is left at its default. *)
NeverDowntime == {}

(* requires_downtime of a finding. *)
RequiresDowntime == {"shared_buffers"}

OrdinaryCapacity ==
    IF MaxConnections - (Superuser + reserved) > 1
    THEN MaxConnections - (Superuser + reserved) ELSE 1

(* Mutant of ConnectionPressure: all slots are taken for ordinary ones.    *)
PressureOfAllSlots ==
    IF clients * 100 < 80 * MaxConnections THEN "none"
    ELSE IF clients * 100 >= 95 * MaxConnections THEN "critical" ELSE "high"

ConnectionPressure ==
    IF clients * 100 < 80 * OrdinaryCapacity THEN "none"
    ELSE IF clients * 100 >= 95 * OrdinaryCapacity THEN "critical" ELSE "high"

-----------------------------------------------------------------------------
(* PostgreSQL, its clients and its operator.                               *)

(* The server context of shared_buffers: read when the server starts. *)
AtStart == {"shared_buffers"}

(* The advice is followed once the step it names after the ALTER is taken. *)
Taken(steps) ==
    [n \in Names |->
        IF followed[n] = "altered" /\ After(n) \in steps THEN "done" ELSE followed[n]]

(* The operator runs the ALTER of a finding the tool now makes. *)
ApplyFix(n) ==
    /\ n \in Reported(running) /\ followed[n] = "no"
    /\ followed' = [followed EXCEPT ![n] =
                       IF After(n) = "nothing" THEN "done" ELSE "altered"]
    /\ \/ n \in PerTable /\ UNCHANGED <<configured, reloaded>>
       \/ /\ n \notin PerTable
          /\ configured' = [configured EXCEPT ![n] = Fix(n)]
          /\ reloaded' = FALSE
    /\ UNCHANGED <<running, reserved, clients>>

Reload ==
    /\ ~ reloaded
    /\ running' = [n \in Names |-> IF n \in AtStart THEN running[n] ELSE configured[n]]
    /\ reloaded' = TRUE
    /\ followed' = Taken({"reload"})
    /\ UNCHANGED <<configured, reserved, clients>>

(* A restart ends every connection; the tool then makes one. *)
Restart ==
    /\ running' = configured
    /\ reloaded' = TRUE
    /\ followed' = Taken({"reload", "restart"})
    /\ clients' = 0
    /\ UNCHANGED <<configured, reserved>>

(* An ordinary client is accepted only while more slots are free than are  *)
(* reserved; a privileged one may take a reserved slot.                    *)
Refused == MaxConnections - clients <= Superuser + reserved

Connect ==
    /\ clients < MaxConnections
    /\ clients' = clients + 1
    /\ UNCHANGED <<running, configured, reloaded, followed, reserved>>

Disconnect ==
    /\ clients > 0
    /\ clients' = clients - 1
    /\ UNCHANGED <<running, configured, reloaded, followed, reserved>>

InitConfig ==
    /\ running \in InitialSettings
    /\ configured = running
    /\ reloaded = TRUE
    /\ followed = [n \in Names |-> "no"]
    /\ reserved \in RoleReserved
    /\ clients = 0

NextConfig ==
    \/ \E n \in Names : ApplyFix(n)
    \/ Reload \/ Restart \/ Connect \/ Disconnect

-----------------------------------------------------------------------------
(* Correctness.                                                            *)

(* What advice followed to the letter does to its finding.  An altered     *)
(* setting is reported just as long as the server runs the old value,      *)
(* which after a reload is only so if the finding said that it requires    *)
(* downtime; and once the step the fix names is taken it is so of none but *)
(* log_min_duration_statement, whose fix names no step.  The finding on    *)
(* the scale factor stays, whatever is done: its fix is per table.         *)
(* analyze_config: suggested_fix, requires_downtime.                       *)
FollowedAdvice ==
    \A n \in {m \in Names : followed[m] # "no"} :
        /\ n \in Reported(running) <=> n \in PerTable \/ running[n] # configured[n]
        /\ reloaded /\ running[n] # configured[n] => n \in RequiresDowntime
        /\ followed[n] = "done" /\ running[n] # configured[n]
               => n = "log_min_duration_statement"

(* A server that refuses ordinary clients is reported as critical, though  *)
(* slots be left for superusers and reserved roles, and in time: when it   *)
(* has reached four fifths of what ordinary clients may use it is at least *)
(* reported.  CONNECTION_STATS_QUERY, analyze_config.                      *)
ExhaustionIsReported ==
    /\ Refused => ConnectionPressure = "critical"
    /\ 5 * clients >= 4 * (MaxConnections - (Superuser + reserved))
            => ConnectionPressure # "none"
=============================================================================
