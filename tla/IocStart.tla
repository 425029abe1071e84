------------------------------ MODULE IocStart ------------------------------
(***************************************************************************)
(* The life of the IOC: main (RackmonIocMain.cpp) works through the        *)
(* command line, initialises the IOC if an option loaded a database, runs  *)
(* the start-up script and a shell; iocInit.c keeps the IOC's state.  The  *)
(* record of the rack protection bit, and with it the heartbeat, is        *)
(* processed only while the IOC is running, and only if its record support *)
(* was registered before iocInit: main never registers it, scripts do.     *)
(*                                                                         *)
(* An argument is an option letter or a name.  Only main's thread, in the  *)
(* script and the shell too, changes and reads iocState, so iocInit and    *)
(* the other commands are one step each.  A walk of a scan list that is    *)
(* under way when the IOC pauses is in DbScan.                             *)
(***************************************************************************)
EXTENDS RackProt, FiniteSetsExt

CONSTANTS
  CommandLines,   \* what the program is called with
  NULL,           \* no macros
  Beyond          \* what is behind the end of argv

Words(line) == {line[i] : i \in DOMAIN line}

ASSUME IocAssumption ==
  /\ NULL # Beyond
  /\ \A line \in CommandLines :
       line \in Seq(Words(line)) /\ {NULL, Beyond} \cap Words(line) = {}

VARIABLES
  args,         \* the command line
  argv,         \* what is left of it
  mpc,          \* where main is
  macros, startIocsh, loadedDb,
  dbd,          \* the definitions that are loaded, as checkDatabase sees them
  acf,          \* the access security file, or NULL
  substitutions, \* the macros for it, or NULL
  registered,   \* record support has been registered
  records,      \* the bi record has been loaded
  iocState,
  served,       \* iocInit gave the bi record its record support
  loads,        \* history: the databases of -d options, each with its macros
  inits         \* history: how often the records have been initialised

mainVars == <<args, argv, mpc, macros, startIocsh, loadedDb, loads>>
iocVars  == <<dbd, acf, substitutions, registered, records, iocState, served, inits>>
startVars == <<mainVars, iocVars, protVars>>

-----------------------------------------------------------------------------
IsOption(a) == a \in {"-D", "-a", "-d", "-h", "-m", "-S", "-s", "-x"}

argc == Len(argv)

\* *++argv
Argument == IF argc > 1 THEN argv[2] ELSE Beyond

Drop(n) == argv' = SubSeq(argv, n + 1, argc)

exit == mpc' = "exited"

\* The definitions after dbLoadDatabase.  Of menuConvert and menuScan, the two
\* that iocInit checks, one may not be defined, or not as it should be; a menu
\* that is there already is not defined again.
Definitions == IF dbd \in {"wrong", "good"} THEN {dbd} ELSE {"lacking", "wrong", "good"}

StartInit ==
  /\ ProtInit
  /\ args \in CommandLines /\ argv = args /\ mpc = "start"
  /\ macros = NULL /\ startIocsh = TRUE /\ loadedDb = FALSE
  /\ dbd = "none" /\ acf = NULL /\ substitutions = NULL /\ registered = FALSE
  /\ records = FALSE /\ iocState = "virgin" /\ served = FALSE
  /\ loads = <<>> /\ inits = 0

\* -h and -D, which must come first; dbLoadDatabase may fail.
FirstOption ==
  /\ mpc = "start"
  /\ \/ argc > 0 /\ argv[1] = "-h" /\ exit /\ UNCHANGED <<argv, dbd>>
     \/ argc > 1 /\ argv[1] = "-D" /\ exit /\ UNCHANGED <<argv, dbd>>
     \/ argc > 1 /\ argv[1] = "-D" /\ mpc' = "options" /\ Drop(2)
        /\ dbd' \in Definitions
     \/ /\ ~(argc > 0 /\ argv[1] = "-h") /\ ~(argc > 1 /\ argv[1] = "-D")
        /\ mpc' = "options"
        /\ UNCHANGED <<argv, dbd>>
  /\ UNCHANGED <<args, macros, startIocsh, loadedDb, loads, acf, substitutions, registered,
                 records, iocState, served, inits, protVars>>

\* Variant: the loop takes the last argument for an option, too.
InLoopToEnd == mpc = "options" /\ argc > 0 /\ IsOption(argv[1])

\* while (argc>1 && **argv == '-')
InLoop == mpc = "options" /\ argc > 1 /\ IsOption(argv[1])

OptionA ==
  /\ InLoop /\ argv[1] = "-a"
  /\ substitutions' = IF macros # NULL THEN macros ELSE substitutions
  /\ acf' = Argument
  /\ Drop(2)
  /\ UNCHANGED <<args, mpc, macros, startIocsh, loadedDb, loads, dbd, registered, records,
                 iocState, served, inits, protVars>>

\* dbLoadRecords fails without definitions, and may fail with them.
OptionD ==
  /\ InLoop /\ argv[1] = "-d"
  /\ \/ exit /\ UNCHANGED <<argv, loads, loadedDb, records>>
     \/ /\ dbd # "none"
        /\ loads' = Append(loads, [db |-> Argument, macros |-> macros])
        /\ loadedDb' = TRUE /\ records' = TRUE
        /\ Drop(2)
        /\ UNCHANGED mpc
  /\ UNCHANGED <<args, macros, startIocsh, dbd, acf, substitutions, registered, iocState, served,
                 inits, protVars>>

\* Variant: the first macros stay.
OptionMFirst ==
  /\ InLoop /\ argv[1] = "-m"
  /\ macros' = IF macros = NULL THEN Argument ELSE macros
  /\ Drop(2)
  /\ UNCHANGED <<args, mpc, startIocsh, loadedDb, loads, iocVars, protVars>>

OptionM ==
  /\ InLoop /\ argv[1] = "-m"
  /\ macros' = Argument
  /\ Drop(2)
  /\ UNCHANGED <<args, mpc, startIocsh, loadedDb, loads, iocVars, protVars>>

\* -S and -s, in the loop or as the last argument.
OptionS ==
  /\ mpc = "options" /\ argc > 0 /\ argv[1] \in {"-S", "-s"}
  /\ startIocsh' = (startIocsh /\ argv[1] # "-S")
  /\ Drop(1)
  /\ mpc' = IF argc > 1 THEN "options" ELSE "init"
  /\ UNCHANGED <<args, macros, loadedDb, loads, iocVars, protVars>>

\* usage(): -h, an unknown option, or one that lacks its argument.
Usage ==
  /\ mpc = "options" /\ argc > 0
  /\ \/ argv[1] \in {"-h", "-D", "-x"}
     \/ argc = 1 /\ argv[1] \in {"-a", "-d", "-m"}
  /\ exit
  /\ UNCHANGED <<args, argv, macros, startIocsh, loadedDb, loads, iocVars, protVars>>

OptionsEnd ==
  /\ mpc = "options"
  /\ argc > 0 => ~IsOption(argv[1])
  /\ mpc' = "init"
  /\ UNCHANGED <<args, argv, macros, startIocsh, loadedDb, loads, iocVars, protVars>>

-----------------------------------------------------------------------------
\* Variant: a running IOC can be initialised again.
MayBuildAgain == iocState \in {"virgin", "running"}

\* iocBuild_1's first test; nothing here ever makes the state iocStopped.
MayBuild == iocState = "virgin"

\* Variant: any definitions will do.
DatabaseLoaded == dbd # "none"

\* checkDatabase finds nothing wrong with menuConvert and menuScan.
DatabaseOK == dbd = "good"

\* iocInit: iocBuild, and iocRun if that succeeds.  It does nothing in the
\* wrong state or with bad definitions; asInit may fail if there is a file,
\* and then the state remains iocBuilding.
iocInit ==
  \/ /\ ~MayBuild \/ ~DatabaseOK
     /\ UNCHANGED <<iocState, served, inits>>
  \/ /\ MayBuild /\ DatabaseOK
     /\ inits' = inits + 1
     /\ served' = (registered /\ records)
     /\ iocState' \in {"running"} \cup (IF acf # NULL THEN {"building"} ELSE {})

\* "if (loadedDb) iocInit();" whose result nobody looks at.
MainInit ==
  /\ mpc = "init"
  /\ mpc' = "run script"
  /\ IF loadedDb THEN iocInit ELSE UNCHANGED <<iocState, served, inits>>
  /\ UNCHANGED <<args, argv, macros, startIocsh, loadedDb, loads, dbd, acf, substitutions,
                 registered, records, protVars>>

\* iocsh(*argv) begins, if there is a script.
ScriptBegins ==
  /\ mpc = "run script"
  /\ mpc' = IF argc > 0 THEN "script" ELSE "after script"
  /\ UNCHANGED <<args, argv, macros, startIocsh, loadedDb, loads, iocVars, protVars>>

\* The script ends, or cannot be read.
ScriptEnds ==
  /\ mpc = "script"
  /\ \/ mpc' = "after script" /\ loadedDb' = TRUE
     \/ exit /\ UNCHANGED loadedDb
  /\ UNCHANGED <<args, argv, macros, startIocsh, loads, iocVars, protVars>>

\* A shell, or nothing but the IOC's threads (epicsThreadExitMain).
AfterScript ==
  /\ mpc = "after script"
  /\ mpc' = IF startIocsh THEN "shell" ELSE IF loadedDb THEN "thread exit" ELSE "exited"
  /\ UNCHANGED <<args, argv, macros, startIocsh, loadedDb, loads, iocVars, protVars>>

ShellEnds ==
  /\ mpc = "shell" /\ exit
  /\ UNCHANGED <<args, argv, macros, startIocsh, loadedDb, loads, iocVars, protVars>>

\* Commands of a script or a shell: dbLoadDatabase, RackmonIoc_registerRecord-
\* DeviceDriver (which needs definitions), dbLoadRecords, iocInit, iocRun and
\* iocPause.  The commands that load are given before iocInit.
Command ==
  /\ mpc \in {"script", "shell"}
  /\ \/ /\ iocState = "virgin"
        /\ \/ dbd' \in Definitions /\ UNCHANGED <<registered, records>>
           \/ dbd # "none" /\ registered' = TRUE /\ UNCHANGED <<dbd, records>>
           \/ dbd # "none" /\ records' = TRUE /\ UNCHANGED <<dbd, registered>>
        /\ UNCHANGED <<iocState, served, inits>>
     \/ iocInit /\ UNCHANGED <<dbd, registered, records>>
     \/ /\ iocState = "paused" /\ iocState' = "running"
        /\ UNCHANGED <<dbd, registered, records, served, inits>>
     \/ /\ iocState = "running" /\ iocState' = "paused"
        /\ UNCHANGED <<dbd, registered, records, served, inits>>
  /\ UNCHANGED <<acf, substitutions, mainVars, protVars>>

\* The bi record is scanned.
Scan ==
  /\ iocState = "running" /\ served /\ mpc # "exited"
  /\ ProcessBi
  /\ UNCHANGED <<mainVars, iocVars>>

StartNext ==
  \/ FirstOption \/ OptionA \/ OptionD \/ OptionM \/ OptionS \/ Usage \/ OptionsEnd
  \/ MainInit \/ ScriptBegins \/ ScriptEnds \/ AfterScript \/ ShellEnds \/ Command
  \/ Scan
  \/ BitChanges /\ UNCHANGED <<mainVars, iocVars>>

StartSpec == StartInit /\ [][StartNext]_startVars

-----------------------------------------------------------------------------
(***************************************************************************)
(* No option takes an argument from behind the end of argv, however the    *)
(* line ends: no macro text, file name or database (main, argc>1).         *)
(***************************************************************************)
ArgumentsExist ==
  macros # Beyond /\ acf # Beyond /\ \A i \in DOMAIN loads : loads[i].db # Beyond

\* The macros that a command line means for the database at place i.
MacrosBefore(line, i) ==
  LET ms == {j \in 1..(i - 1) : line[j] = "-m"}
  IN  IF ms = {} THEN NULL ELSE line[Max(ms) + 1]

(***************************************************************************)
(* "Any number of -m and -d arguments can be interspersed; the macros are  *)
(* applied to the following .db files.  Each later -m option causes        *)
(* earlier macros to be discarded": the databases loaded are those of the  *)
(* -d options so far, in order, each with the macros of the last -m; and   *)
(* the last -a takes the macros that "were set with -m before the -a       *)
(* option" for access security.                                            *)
(***************************************************************************)
MacrosApply ==
  LET ds == {i \in 1..(Len(args) - argc) : args[i] = "-d"}
      as == {i \in 1..(Len(args) - argc) : args[i] = "-a"}
  IN  mpc # "exited" =>
        /\ substitutions = IF as = {} THEN NULL ELSE MacrosBefore(args, Max(as))
        /\ Len(loads) = Cardinality(ds)
        /\ \A i \in ds :
             loads[Cardinality({j \in ds : j <= i})] =
               [db |-> args[i + 1], macros |-> MacrosBefore(args, i)]

(***************************************************************************)
(* "If any databases were loaded the st.cmd file will be run *after*       *)
(* iocInit", but not whatever was loaded: with definitions that            *)
(* checkDatabase refuses, iocInit initialises nothing, main does not look  *)
(* at its result, and the script runs as if no database had been loaded.   *)
(***************************************************************************)
ScriptAfterInit ==
  [][mpc # "script" /\ mpc' = "script" =>
       (inits > 0 <=> loads # <<>> /\ dbd = "good")]_startVars

(***************************************************************************)
(* The records are initialised at most once, whatever mix of options,      *)
(* script and shell asks for iocInit, and however it ended before: a       *)
(* second time would give records new locks under the running threads.     *)
(***************************************************************************)
InitialisedOnce == inits <= 1

=============================================================================
