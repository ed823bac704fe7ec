---------------------------- MODULE MCCommandRun ----------------------------
(***************************************************************************)
(* Small instances of CommandRun for TLC.                                  *)
(***************************************************************************)
EXTENDS CommandRun

CONSTANTS v1, v2, bad, k1, k2

MCVals == {v1, v2}
MCBadVals == {bad}
MCKeys == {k1, k2}
OneKey == {k1}
TwoWids == {1, 2}

Config(root, clients) == [p \in Parts |-> IF p = "root" THEN root ELSE clients]

\* A full workspace, a directory without server.yaml, one that is invalid, and one that does not parse.
MCLocalCfgs == {Config(v1, v1), Config(NoPart, NoPart), Config(v1, bad), Config(Unreadable, NoPart)}
SomeLocalCfgs == {Config(v1, v1), Config(NoPart, NoPart)}
MCRemoteCfgs == {Config(v2, v2), Config(v2, NoPart), Absent}
NoRemoteCfgs == {Absent}
SomeRemoteCfgs == {Config(v2, v2), Absent}

\* Push and pull, of workspace 1 and of the tenant.
MCFilters == {{}, {"key_rotation"}, {"clients"}, {"clients", "key_rotation"}, {"servers", "key_rotation"}}
Lines == {f \in [cmd : {"push", "pull"}, sub : BOOLEAN, tenant : BOOLEAN, wid : {1},
                 enabled : BOOLEAN, filters : MCFilters, dry : BOOLEAN,
                 out : {"stdout", "file", "dir"}, method : {"patch", "import"}, validate : BOOLEAN] :
            CommandLine(f)}
\* Flags that do not matter for a command have one value.
Plain(f) == f.out = "stdout" /\ f.method = "patch" /\ f.validate

\* Every command line that sends something or stores it.
EffectLines ==
    {f \in Lines : f.out = (IF f.dry THEN "dir" ELSE "stdout")
                   /\ (f.cmd = "pull" \/ f.dry => f.method = "patch" /\ f.validate)}
\* Dry runs, with the feature on.
DryLines == {f \in Lines : f.dry /\ f.method = "patch" /\ f.validate /\ (f.enabled \/ f.sub)}
PullLines == {f \in Lines : f.cmd = "pull" /\ Plain(f)}
=============================================================================
