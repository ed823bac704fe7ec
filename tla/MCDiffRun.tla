----------------------------- MODULE MCDiffRun -----------------------------
(***************************************************************************)
(* Small instances of DiffRun for TLC.                                     *)
(***************************************************************************)
EXTENDS DiffRun

CONSTANTS dev, prod, other, default, s1, s2, d1, d2, good1, good2, a, b

MCProfiles == {dev, prod}
MCOtherNames == {other}
MCServers == {s1, s2}
MCStores == {d1, d2}
MCWids == {1, 2}
MCGoodCrons == {good1, good2}
NoSet == {}
MCFields == {"x", "y"}
MCValues == {a, b}
MCIds == {1, 2}
MCKinds == {"clients", "idps"}

\* Configuration files.
Conn(s, scope) == [server |-> s, manage_servers |-> scope]
Sect(name, client, storage, features) ==
    [name |-> name, client |-> client, storage |-> storage, features |-> features]
Inherit(name) == Sect(name, Unset, Unset, Unset)
Make(top, devSection, prodSection) ==
    [p \in {default, dev, prod} |-> CASE p = default -> top [] p = dev -> devSection [] p = prod -> prodSection]

On == Sect(Unset, Conn(s1, TRUE), d1, TRUE)
Off == Sect(Unset, Conn(s1, FALSE), d1, FALSE)
\* The feature at the top level or in a profile, that inherits it, has the scope for it or not, or turns it off.
Full == Sect(Unset, Conn(s2, TRUE), d2, TRUE)
NoScope == Sect(Unset, Conn(s2, FALSE), d2, TRUE)
OwnClient == Sect(Unset, Conn(s2, TRUE), d2, Unset)
PlainConfigs ==
    {Make(On, d, p) : d \in {Inherit(Unset), Full, NoScope}, p \in {OwnClient, Off}}
        \cup {Make(Off, Full, p) : p \in {Inherit(Unset), NoScope}}
\* Sections that set a name: of another profile, of the default one, of none.
NamedConfigs ==
    {Make(On, [Full EXCEPT !.name = n], NoScope) : n \in {prod, default, other}}
    \cup {Make([On EXCEPT !.name = dev], NoScope, Inherit(default))}
    \cup {[p \in {default, dev} |-> IF p = default THEN On ELSE Inherit(Unset)]}
AllConfigs == PlainConfigs \cup NamedConfigs

\* Files and servers.
Use(enabled, cron) == [enabled |-> enabled, cron |-> cron, starting_from |-> NoTime]
Both(sig, enc) == [u \in UseSet |-> IF u = "sig" THEN sig ELSE enc]
BothFile == Both(Use(TRUE, good1), Use(FALSE, good1))
SigFile == Both(Use(TRUE, good2), NoRotation)
OnServer == Both(Use(TRUE, good1), NeverConfigured)
Fresh == Both(NeverConfigured, NeverConfigured)

\* Two of the items are parts: merged with the whole one they are equal to it, or differ from it.
Fielded(x, y) == [f \in Fields |-> IF f = "x" THEN x ELSE y]
Whole == Fielded(a, b)
Part == Fielded(a, NoValue)
OtherPart == Fielded(NoValue, a)
Nested(first, second) == [i \in Ids |-> IF i = 1 THEN first ELSE second]
Keyed(clients, idps) == [k \in Kinds |-> IF k = "clients" THEN clients ELSE idps]
Richer == Keyed(Nested(Whole, Part), Nested(Whole, NoItem))
Poorer == Keyed(Nested(Part, NoItem), NoKind)
Swapped == Keyed(Nested(NoItem, Whole), Nested(OtherPart, Part))

OneDir(f1, f2) == [d \in Dirs |-> [w \in Wids |-> IF w = 1 THEN f1 ELSE f2]]
World(files1, files2, local1, local2, remote1, remote2, server1, server2, present1, present2) ==
    [files |-> [s \in Stores |-> IF s = d1 THEN files1 ELSE files2],
     local |-> [s \in Stores |-> IF s = d1 THEN local1 ELSE local2],
     remote |-> [s \in Servers |-> IF s = s1 THEN remote1 ELSE remote2],
     server |-> [s \in Servers |-> [w \in Wids |->
                   IF s = s1 THEN IF w \in present1 THEN server1 ELSE Unconfigured
                   ELSE IF w \in present2 THEN server2 ELSE Unconfigured]],
     present |-> [s \in Servers |-> IF s = s1 THEN present1 ELSE present2]]
MCWorlds ==
    {World(OneDir(BothFile, NoFile), OneDir(SigFile, BothFile), Richer, Poorer, Swapped, Richer,
           OnServer, Both(Use(TRUE, good2), Use(FALSE, good1)), {1, 2}, {1, 2}),
     World(OneDir(NoFile, SigFile), OneDir(NoFile, NoFile), Poorer, Swapped, Richer, Poorer,
           OnServer, Fresh, {1, 2}, {2}),
     World(OneDir(EmptyConfig, BadFile), OneDir(BothFile, NoFile), Swapped, Poorer, Richer, Poorer,
           Fresh, OnServer, {2}, {1})}
MCPayloads == {Use(FALSE, good2)}
MCFiles == {SigFile}

\* Command lines.
Specs == [profile : {Unset, dev, prod}, source : SourceTypes]
Lines(profiles, filters, present) ==
    [sub : BOOLEAN, profile : profiles, source : Specs, target : Specs, wid : {1}, tenant : BOOLEAN,
     filters : filters, onlyPresent : present]
MCFlags ==
    Lines({Unset}, {{"key_rotation"}}, {FALSE}) \cup Lines({Unset, dev}, {{}}, {FALSE})
        \cup {f \in Lines({dev, other}, {{}, {"clients"}, {"clients", "key_rotation"}}, BOOLEAN) :
                 ~f.tenant /\ f.source.profile = Unset}
=============================================================================
