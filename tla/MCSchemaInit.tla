---------------------------- MODULE MCSchemaInit ----------------------------
(***************************************************************************)
(* Two threads of a process with the newest code, and one each of another  *)
(* with the same code and of one whose code is a version older.            *)
(***************************************************************************)
EXTENDS SchemaInit

CONSTANTS t1, t2, t3, t4, new, tool, old, runs, briefs

MCThreads == {t1, t2, t3, t4}
MCProcesses == {new, tool, old}
MCProcessOf ==
    [t \in MCThreads |-> IF t = t3 THEN tool ELSE IF t = t4 THEN old ELSE new]
MCKnown == [p \in MCProcesses |-> IF p = old THEN 2 ELSE 3]
MCTables == {runs, briefs}
MCSince == [n \in MCTables |-> IF n = runs THEN 1 ELSE 3]
MCFound ==
    {[version |-> v, tables |-> ts] :
        v \in 0..3, ts \in {{}, {runs}, {runs, briefs}}}
=============================================================================
