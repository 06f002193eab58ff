------------------------------ MODULE Startup ------------------------------
(***************************************************************************)
(* How the bridge starts: main of crates/bridge-server/src/main.rs, the    *)
(* validation of config.toml (config.rs), and the engines built from it    *)
(* (assemble.rs, CodexRuntime::new, ReplyShaper::new).                     *)
(*                                                                         *)
(* The file is checked once, far from where it is used: the constructors   *)
(* check some of it again, and unwrap or assert the rest.  The environment *)
(* and the database may refuse at every step.                              *)
(***************************************************************************)
EXTENDS ReplyShaper

CONSTANTS
    Files,           \* the configurations that may be found
    MaxChunkLimit,   \* the largest chunk_limit accepted, 900 in the code
    NoFile           \* nothing read yet, or dropped with main's configuration

Paths == {"none", "relative", "absolute"}
Roles == {"adult", "child", "other"}

\* AppConfig, the fields of config.toml that decide anything: profiles is the
\* role of every profile by name, a preset is the name of its provider.
Parses(f) ==
    /\ f.mode \in {"legacy", "household"}
    /\ f.socket \in Paths /\ f.cwdRoot \in Paths
    /\ f.chunkLimit \in Nat
    /\ f.prefix \in {"empty", "invalid", "valid"}
    /\ f.profiles \in [DOMAIN f.profiles -> Roles]

ASSUME FilesAssumption ==
    /\ NoFile \notin Files
    /\ MaxChunkLimit \in Nat
    /\ \A f \in Files : Parses(f)

VARIABLES
    phase,    \* how far main has come
    file,     \* config, while main needs it
    fault,    \* what ended main
    backend   \* AppState: the engine that serves, with its settings

startVars == <<phase, file, fault, backend>>

Phases == {"load", "environment", "database", "build", "listen", "serving", "ended"}

NoBackend == [mode |-> "none"]

Advance(to) == phase' = to /\ UNCHANGED fault
EndWith(reason) == phase' = "ended" /\ fault' = reason

----------------------------------------------------------------------------
\* What RuntimeConfig must say in household mode.
AcceptsHousehold(f) ==
    /\ f.socket = "absolute" /\ f.cwdRoot = "absolute"
    /\ f.chunkLimit > Len(Suffix) /\ f.chunkLimit <= MaxChunkLimit
    /\ f.prefix = "valid"

\* Mutant of Accepts: chunk_limit may be as long as the question.
AcceptsNoRoom(f) ==
    /\ f.mode = "household" =>
          /\ f.socket = "absolute" /\ f.cwdRoot = "absolute" /\ f.prefix = "valid"
          /\ f.chunkLimit >= Len(Suffix) /\ f.chunkLimit <= MaxChunkLimit
    /\ {f.fast, f.smart} \subseteq f.providers
    /\ f.default \in DOMAIN f.profiles
    /\ \A p \in DOMAIN f.profiles : f.profiles[p] \in {"adult", "child"}

\* AppConfig::validate.
Accepts(f) ==
    /\ f.mode = "household" => AcceptsHousehold(f)
    /\ {f.fast, f.smart} \subseteq f.providers
    /\ f.default \in DOMAIN f.profiles
    /\ \A p \in DOMAIN f.profiles : f.profiles[p] \in {"adult", "child"}

\* AppConfig::load; a file that cannot be read or parsed is refused too.
Load(f, readable) ==
    /\ phase = "load"
    /\ \/ readable /\ Accepts(f) /\ file' = f /\ Advance("environment")
       \/ ~(readable /\ Accepts(f)) /\ EndWith("refused") /\ UNCHANGED file
    /\ UNCHANGED backend

\* WEBHOOK_SECRET and DATABASE_URL, then the connection and the migrations.
Provision(from, to, ok) ==
    /\ phase = from
    /\ IF ok THEN Advance(to) ELSE EndWith("environment")
    /\ UNCHANGED <<file, backend>>

\* The paths main unwraps, what CodexRuntime::new refuses, and the assertion
\* of ReplyShaper::new.
Unwraps(f)      == "none" \notin {f.socket, f.cwdRoot}
CodexRefuses(f) == "relative" \in {f.socket, f.cwdRoot} \/ f.prefix # "valid"
LeavesRoom(f)   == f.chunkLimit > Len(Suffix)

\* What stops main on the way to the household engine, in that order, after
\* STATE_ENCRYPTION_KEY.
HouseholdFault(f, keyIsValid) ==
    CASE ~keyIsValid -> "environment"
      [] keyIsValid /\ ~Unwraps(f) -> "panic"
      [] keyIsValid /\ Unwraps(f) /\ CodexRefuses(f) -> "file"
      [] OTHER -> IF LeavesRoom(f) THEN "none" ELSE "panic"

\* What preset and FamilyRoster::new look up.
FindsPresets(f) == {f.fast, f.smart} \subseteq f.providers
FindsDefault(f) == f.default \in DOMAIN f.profiles

\* build_engine: a key for every provider, both presets, the default profile.
LegacyFault(f, keysAreSet) ==
    CASE ~keysAreSet -> "environment"
      [] keysAreSet /\ ~(FindsPresets(f) /\ FindsDefault(f)) -> "file"
      [] OTHER -> "none"

\* What the engines keep of the file.  A role that is not "child" makes an
\* adult.
HouseholdBackend(f) == [mode |-> "household", limit |-> f.chunkLimit]

LegacyBackend(f) ==
    [mode     |-> "legacy",
     allowed  |-> f.allowed,
     default  |-> f.default,
     children |-> {p \in DOMAIN f.profiles : f.profiles[p] = "child"}]

Build(ok) ==
    LET household == file.mode = "household"
        found     == IF household THEN HouseholdFault(file, ok) ELSE LegacyFault(file, ok)
        built     == IF household THEN HouseholdBackend(file) ELSE LegacyBackend(file)
    IN  /\ phase = "build"
        /\ IF found = "none" THEN Advance("listen") /\ backend' = built
                             ELSE EndWith(found) /\ UNCHANGED backend
        /\ UNCHANGED file

\* TcpListener::bind, then axum::serve.
Listen(ok) ==
    /\ phase = "listen"
    /\ IF ok THEN Advance("serving") ELSE EndWith("environment")
    /\ file' = NoFile
    /\ UNCHANGED backend

\* shutdown_signal, or the process is killed.
Stop ==
    /\ phase = "serving"
    /\ EndWith("stopped")
    /\ UNCHANGED <<file, backend>>

StartInit == phase = "load" /\ file = NoFile /\ fault = "none" /\ backend = NoBackend

StartNext ==
    \E ok \in BOOLEAN :
        \/ \E f \in Files : Load(f, ok)
        \/ Provision("environment", "database", ok)
        \/ Provision("database", "build", ok)
        \/ Build(ok)
        \/ Listen(ok)

----------------------------------------------------------------------------
\* A file that validate accepted builds: no constructor refuses it, no expect
\* and no assertion of theirs fails, at the boundary of chunk_limit either.
AcceptedFileBuilds == fault \notin {"file", "panic"}
=============================================================================
