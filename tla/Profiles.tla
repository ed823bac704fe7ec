------------------------------ MODULE Profiles ------------------------------
(***************************************************************************)
(* The configuration file of cac and the sources a diff names              *)
(* (internal/cac/config/config.go, internal/cac/app.go): profiles that     *)
(* take the sections they leave out from the default profile, and          *)
(* "[profile@]source-type" values resolved to one of them.                 *)
(*                                                                         *)
(* A file is a function from the profiles it declares, Default among them, *)
(* to their sections.  Any section may also set `name`; of the default one *)
(* the NAME variable of the environment does (viper's AutomaticEnv).       *)
(***************************************************************************)
EXTENDS Naturals

CONSTANTS
    ProfileKeys,  \* keys under `profiles`
    OtherNames,   \* names a section may set that are no key
    Default,      \* the default profile, and its name
    Unset,        \* a name, section or profile that is not given
    Unknown,      \* ErrUnknownProfile
    Servers,      \* tenants a client connects to
    Stores        \* storage sections: lists of directories

Names == ProfileKeys \cup {Default} \cup OtherNames

Client == [server : Servers, manage_servers : BOOLEAN]
Section == [name : Names \cup {Unset}, client : Client \cup {Unset},
            storage : Stores \cup {Unset}, features : BOOLEAN \cup {Unset}]
Configuration == [name : Names, client : Client, storage : Stores, features : BOOLEAN]

\* The default section of the file lies over DefaultConfig, which sets everything but the name.
IsConfigFile(file) ==
    /\ Default \in DOMAIN file /\ DOMAIN file \subseteq {Default} \cup ProfileKeys
    /\ file \in [DOMAIN file -> Section]
    /\ Unset \notin {file[Default].client, file[Default].storage, file[Default].features}

ASSUME NamesAssumption ==
    /\ {Unset, Unknown} \cap Names = {} /\ Default \notin ProfileKeys
    /\ Unset \notin Client \cup Stores \cup BOOLEAN
    /\ Unknown \notin Configuration

-----------------------------------------------------------------------------
OrElse(value, default) == IF value = Unset THEN default ELSE value

\* Configuration.SetImplicitValues: a section is taken as a whole or not at all.
SetImplicitValues(section, key, default) ==
    [name |-> OrElse(section.name, key),
     client |-> OrElse(section.client, default.client),
     storage |-> OrElse(section.storage, default.storage),
     features |-> OrElse(section.features, default.features)]

InitConfig(file) ==
    [p \in DOMAIN file |-> SetImplicitValues(file[p], p, file[Default])]

ForProfile(root, profile) ==
    IF profile \in {Unset, Default} THEN root[Default]
    ELSE IF profile \in DOMAIN root THEN root[profile]
    ELSE Unknown

\* Configuration.Validate: key rotation needs the scope of its API.
ValidProfile(conf) == conf.features => conf.client.manage_servers

\* Values of --source and --target.
SourceTypes == {"local", "remote", "merged"}
SourceSpecs == [profile : Names \cup {Unset}, source : SourceTypes]

\* Application.ResolveSource: without a profile, the profile that has the selected one's name as key.
ResolveSource(root, selected, spec) ==
    ForProfile(root, IF spec.profile = Unset THEN selected.name ELSE spec.profile)
=============================================================================
