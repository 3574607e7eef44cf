---------------------------- MODULE MCZoneCache ----------------------------
(* Two threads ask tzstr for two rules, or gettz for a file, a rule, a name of the
   local zone and one there is nothing for, and tzstr for that rule.  The strong
   caches are of one, gettz's also of none. *)
EXTENDS ZoneCache
CONSTANTS t1, t2, file, rule1, rule2, local, nothing
MCThreads == {t1, t2}
MCFiles   == {file}
MCRules   == {rule1, rule2}
MCLocals  == {local}
MCUnknown == {nothing}
MCSizes   == {0}
MCUses    == {[gettz |-> {}, tzstr |-> MCRules],
              [gettz |-> {file, rule1, local, nothing}, tzstr |-> {rule1}]}
=============================================================================
