------------------------------ MODULE MCSettings ------------------------------
(***************************************************************************)
(* What vzctl leaves on the disk, in one run: a private area that is       *)
(* converted, settings and their forms, the limits that vzsplit and        *)
(* vzcfgvalidate work out, and set with create, destroy and start, once    *)
(* for names and once for --setmode.  The parts share no state: `focus'    *)
(* chooses the one that runs, the others stay in an initial state.         *)
(***************************************************************************)
EXTENDS ConvertPloop, Sequences, TLC

CONSTANTS
  Vzctls, None,
  ConfVals,                                               \* of Settings
  FormRuns, Amounts, MaxWords, Page, Kilo, IntMax, LongMax,
  NumCpu, Percent, MinUnits, MaxUnits, NBits, PerLong,    \* of ParamForms
  UbHosts, MaxLong,                                       \* of Ubc
  NamedCts, CtNames, NameRequests, NameFaults,            \* of SetCommand, for names
  ModeCts, ModeNames, ModeVals, ModeFeatures, ModeRequests, ModeFaults  \* and for --setmode

\* Nothing is not a value, what is asked is meant, and only set and create
\* give names.
Meant(cts, names, vals, features, requests) ==
  /\ None \notin cts \union names \union vals /\ vals # {}
  /\ \A r \in requests :
       /\ r = [op |-> r.op, name |-> r.name, par |-> r.par, known |-> r.known, on |-> r.on,
               mode |-> r.mode, pw |-> r.pw, config |-> r.config]
       /\ r.op \in {"set", "create", "destroy", "start"}
       /\ r.name \in names \union {None} /\ r.par \in vals \union {None}
       /\ r.known \subseteq features /\ r.on \subseteq r.known
       /\ r.mode \in {"none", "ignore", "restart"} /\ r.pw \in BOOLEAN
       /\ r.config \in {"none", "default", "given"}
       /\ r.op \in {"destroy", "start"} => r.name = None

ASSUME VzctlsAssumption == None \notin Vzctls
ASSUME ConfAssumption == ConfVals # {}
ASSUME NamesAssumption == Meant(NamedCts, CtNames, {0}, {}, NameRequests)
ASSUME ModesAssumption == Meant(ModeCts, ModeNames, ModeVals, ModeFeatures, ModeRequests)

VARIABLES
  focus,
  confConf, confTmp, confLock, confPc, confCmd, confSeen, lines, confWant,
  confRuns,
  kind, line, step, formConf, formNew, text, told, formWant, formRuns,
  host, ub, edits, repairs,
  namesExists, namesName, namesPar, namesArea, namesDump, namesLive,
  namesLink, namesLock, namesPc, namesCmd, namesCt, namesSeen,
  namesSample, namesTorn, namesMatched,
  modesExists, modesName, modesPar, modesArea, modesDump, modesLive,
  modesLink, modesLock, modesPc, modesCmd, modesCt, modesSeen,
  modesSample, modesTorn, modesMatched

convertVars == <<private, new, tmp, mounted, pc, ret, runs>>
confVars == <<confConf, confTmp, confLock, confPc, confCmd, confSeen, lines,
              confWant, confRuns>>
formVars == <<kind, line, step, formConf, formNew, text, told, formWant,
              formRuns>>
ubcVars == <<host, ub, edits, repairs>>
namesVars == <<namesExists, namesName, namesPar, namesArea, namesDump,
               namesLive, namesLink, namesLock, namesPc, namesCmd,
               namesCt, namesSeen, namesSample, namesTorn, namesMatched>>
modesVars == <<modesExists, modesName, modesPar, modesArea, modesDump,
               modesLive, modesLink, modesLock, modesPc, modesCmd,
               modesCt, modesSeen, modesSample, modesTorn, modesMatched>>
allVars == <<focus, convertVars, confVars, formVars, ubcVars, namesVars, modesVars>>

\* Small and large hosts, with and without swap space and room for processes.
SomeHosts == [mem : {102400000, 204800000, 409600000}, swap : {0, 409600000},
              threads : {4000, 16000}, n : {1, 2, 60, 98}]


Conf == INSTANCE Settings
  WITH Vals <- ConfVals, MaxRuns <- 3, Faults <- {},
       conf <- confConf, tmp <- confTmp, lock <- confLock, pc <- confPc,
       cmd <- confCmd, seen <- confSeen, want <- confWant, runs <- confRuns

Forms == INSTANCE ParamForms
  WITH MaxRuns <- FormRuns, Odd <- {}, conf <- formConf, new <- formNew,
       want <- formWant, runs <- formRuns

Limits == INSTANCE Ubc
  WITH Hosts <- UbHosts, LongMax <- MaxLong, MaxEdits <- 1

ByName == INSTANCE SetCommand
  WITH Cts <- NamedCts, Names <- CtNames, Vals <- {0}, Features <- {},
       Requests <- NameRequests, Faults <- NameFaults,
       exists <- namesExists, name <- namesName, par <- namesPar,
       area <- namesArea, dump <- namesDump, live <- namesLive,
       link <- namesLink, lock <- namesLock, pc <- namesPc, cmd <- namesCmd,
       ct <- namesCt, seen <- namesSeen, sample <- namesSample,
       torn <- namesTorn, matched <- namesMatched

ByMode == INSTANCE SetCommand
  WITH Cts <- ModeCts, Names <- ModeNames, Vals <- ModeVals, Features <- ModeFeatures,
       Requests <- ModeRequests, Faults <- ModeFaults,
       exists <- modesExists, name <- modesName, par <- modesPar,
       area <- modesArea, dump <- modesDump, live <- modesLive,
       link <- modesLink, lock <- modesLock, pc <- modesPc, cmd <- modesCmd,
       ct <- modesCt, seen <- modesSeen, sample <- modesSample,
       torn <- modesTorn, matched <- modesMatched

\* Names are given, taken over and removed with their container; a create
\* without --config goes on over the file that is there.
Asked(op, n) ==
  [op |-> op, name |-> n, par |-> None, known |-> {}, on |-> {}, mode |-> "none",
   pw |-> FALSE, config |-> "none"]
NamesOnly ==
  {Asked("set", n) : n \in CtNames}
  \union {Asked("create", n) : n \in CtNames}
  \union {Asked("destroy", None)}

\* --setmode with a value, with features, with a password; create, which copies
\* a sample if there is no file, and start.
Static(v, mode) == [Asked("set", None) EXCEPT !.par = v, !.mode = mode]
Masks(known, on, mode) ==
  [Asked("set", None) EXCEPT !.known = known, !.on = on, !.mode = mode]
SetModes ==
  {Static(1, "restart"), Static(1, "ignore"), [Static(1, "restart") EXCEPT !.pw = TRUE]}
  \union {Masks(ModeFeatures, on, "restart") : on \in SUBSET ModeFeatures}
  \union {[Asked("create", None) EXCEPT !.config = "default"], Asked("start", None)}

Symmetry == Permutations(Vzctls) \union Permutations(NamedCts)
            \union Permutations(CtNames)

(* What ParamForms keeps of a parameter: lines and their values.           *)
Titles == Forms!Caps \union Forms!ToSet(Forms!Features)
Labels == DOMAIN Forms!Needs \union {"eth0", "eth1"}
Slots == {<<0, 1>>, <<1, 1>>, <<0, 2>>}
Tokens == Nat \union Titles \union Labels \union Seq(Nat)
          \union [n : Nat, sfx : {"", "unlimited"}]
          \union [name : Titles, state : {"on", "off"}]
          \union [major : Nat, minor : {"1", "all"}, mode : SUBSET {"r", "w"}]
Kept == {"yes", "no"} \union Nat \union Titles \union Seq(Tokens)
        \union [Forms!Bits -> BOOLEAN]
        \union [mode : {"none", "pages", "privvmpages"}, val : Nat \union {None}]
        \union [on : SUBSET Titles, off : SUBSET Titles]
        \union [known : SUBSET Titles, mask : SUBSET Titles]
        \union [op : {"add", "del"}, devs : (SUBSET Tokens) \union Seq(Tokens)]

\* The sizes are in proportion, and each number fits in an unsigned long.
ASSUME FormsAssumption ==
  /\ {MaxWords, Page, Kilo, NumCpu, NBits, PerLong} \subseteq Nat \ {0}
  /\ {FormRuns, Percent, MinUnits, MaxUnits, IntMax, LongMax} \subseteq Nat
  /\ IntMax <= LongMax /\ NumCpu * Percent <= IntMax
  /\ 2 <= Page /\ Page <= LongMax + 1
  /\ Amounts \subseteq 0..(2 * LongMax + 1)
  /\ None \notin Kept
  /\ \A S \in SUBSET Labels : S # None
  /\ \A S \in SUBSET Slots : S # None
  /\ \A S \in SUBSET Forms!Switches(Titles) : S # None

(* What vzsplit works out is far from LONG_MAX: each number by a factor    *)
(* that leaves room for what the rules of vzcfgvalidate make of it.  And   *)
(* where memory is short, ten halvings of the processes are enough.        *)
Counts == {"numproc", "numtcpsock", "numothersock", "numpty"}
Buffers == {"tcpsndbuf", "tcprcvbuf", "othersockbuf", "dgramrcvbuf"}
AtMost(u, r, part) == Limits!Larger(u[r][1], u[r][2]) * part <= MaxLong
Roomy(u) ==
  /\ \A r \in Counts : AtMost(u, r, 32768)
  /\ Limits!Avnumproc(u) * 131072 <= MaxLong
  /\ AtMost(u, "numfile", 4096) /\ AtMost(u, "dcachesize", 6)
  /\ \A r \in Buffers : Limits!Larger(u[r][1], 132096) * 4 <= MaxLong
  /\ \A r \in DOMAIN u : u[r][1] * 2 <= MaxLong

ASSUME HostsAssumption ==
  /\ MaxLong \in Nat /\ UbHosts \subseteq [mem : Nat, swap : Nat, threads : Nat, n : Nat \ {0}]
  /\ \A h \in UbHosts : Limits!Accepted(h) =>
       /\ Roomy(Limits!Split(h))
       /\ Limits!Shortage(h) =>
            \E i \in 1..10 : Limits!Rest(h, i) >= 0 \/ Limits!Halved(h, i) = 30

-----------------------------------------------------------------------------

ConvertNext == /\ focus = "convert" /\ Next
               /\ UNCHANGED <<focus, confVars, formVars, ubcVars, namesVars,
                              modesVars>>

ConfNext == /\ focus = "conf" /\ Conf!Next
            /\ UNCHANGED <<focus, convertVars, formVars, ubcVars, namesVars,
                           modesVars>>

FormsNext == /\ focus = "form" /\ Forms!Next
             /\ UNCHANGED <<focus, convertVars, confVars, ubcVars, namesVars,
                            modesVars>>

LimitsNext == /\ focus = "ubc" /\ Limits!Next
              /\ UNCHANGED <<focus, convertVars, confVars, formVars,
                             namesVars, modesVars>>

ByNameNext == /\ focus = "names" /\ ByName!Next
              /\ UNCHANGED <<focus, convertVars, confVars, formVars, ubcVars,
                            modesVars>>

ByModeNext == /\ focus = "modes" /\ ByMode!Next
              /\ UNCHANGED <<focus, convertVars, confVars, formVars, ubcVars,
                            namesVars>>

SettingsNext == ConvertNext \/ ConfNext \/ FormsNext \/ LimitsNext \/ ByNameNext \/ ByModeNext

\* The host of the parts that have nothing to do with it.
AnyHost == CHOOSE h \in UbHosts : Limits!Accepted(h)

SettingsInit ==
  /\ focus \in {"convert", "conf", "form", "ubc", "names", "modes"}
  /\ Init /\ Conf!Init /\ Forms!Init /\ Limits!Init /\ ByName!Init /\ ByMode!Init
  /\ focus # "conf" => confConf = <<>>
  /\ focus # "form" => kind = "NUMPROC"
  /\ focus # "ubc" => host = AnyHost

SettingsSpec == SettingsInit /\ [][SettingsNext]_allVars

-----------------------------------------------------------------------------
(* The properties of ConvertPloop go without a prefix.                     *)

SettingsTypes ==
  /\ TypeOK
  /\ focus = "conf" => Conf!TypeOK
  /\ focus = "form" => Forms!TypeOK
  /\ focus = "ubc" => Limits!TypeOK
  /\ focus = "names" => ByName!TypeOK
  /\ focus = "modes" => ByMode!TypeOK

SettingsKept == focus = "conf" => Conf!SettingsKept
SavedIsReadBack == focus = "form" => Forms!SavedIsReadBack
LimitsAccepted == focus = "ubc" => Limits!LimitsAccepted
NameKept == focus = "names" => ByName!NameKept
SetModeHonoured == focus = "modes" => ByMode!SetModeHonoured
=============================================================================
