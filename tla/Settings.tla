------------------------------ MODULE Settings -------------------------------
(***************************************************************************)
(* The configuration file of a container and `vzctl set --save': main() of *)
(* vzctl.c, vps_set() of vzctl-actions.c and the parsing, merging and      *)
(* saving of src/lib/config.c.                                             *)
(*                                                                         *)
(* The file is a list of lines NAME="value".  vzctl parses it before it    *)
(* takes the lock of the container; under the lock it reads the lines once *)
(* more, replaces or appends those of its command and renames a new file   *)
(* over the old one.                                                       *)
(***************************************************************************)
EXTENDS SequencesExt

CONSTANTS
  Vzctls,   \* the processes
  Vals,     \* values, addresses and features
  None,
  MaxRuns,  \* bound on the number of commands
  Faults    \* "full": what stdio buffers may not reach the disk at fclose()

VARIABLES
  conf,     \* the lines of CTID.conf
  tmp,      \* those of CTID.conf.tmp, or None
  lock,     \* who has the lock of the container
  pc,       \* where each vzctl is
  cmd,      \* what it is asked to set
  seen,     \* vps_p: what it has parsed before it had the lock
  lines,    \* what it is to write
  want,     \* ghost: the settings that all saved commands together ask for
  runs      \* how many commands there were

file == <<conf, tmp>>
vars == <<file, lock, pc, cmd, seen, lines, want, runs>>

Fault(f) == f \in Faults

-----------------------------------------------------------------------------
(* The parameters, one for each way in which lines are read and written.   *)

Params == {"NAME", "NAMESERVER", "DCACHESIZE", "IP_ADDRESS", "FEATURES"}
Names == Params \union {"DCACHE"}

\* conf_get_by_name()
Param(name) == IF name = "DCACHE" THEN "DCACHESIZE" ELSE name

Switches == Vals \X {"on", "off"}
Values(q) == SUBSET (IF q = "FEATURES" THEN Switches ELSE Vals)
Line == [name : Names, vals : SUBSET (Vals \union Switches)]

\* The lines of a parameter.
LinesOf(f, q) == {i \in DOMAIN f : Param(f[i].name) = q}

\* A string is kept if there is none yet (ERR_DUP otherwise).
ReadFirst(f, at) == IF at = {} THEN {} ELSE f[Min(at)].vals

\* The limits of a resource overwrite those of the lines before.
ReadLast(f, at) == IF at = {} THEN {} ELSE f[Max(at)].vals

\* The words of all lines, each of them once.
ReadWords(f, at) == UNION {f[i].vals : i \in at}

\* features_known and features_mask
ReadSwitches(f, at) ==
  LET words == ReadWords(f, at)
      on == {v \in Vals : <<v, "on">> \in words}
      known == {s[1] : s \in words}
  IN  (on \X {"on"}) \union ((known \ on) \X {"off"})

\* vps_parse_config(): the settings in a file.
Parse(f) ==
  [q \in Params |->
    LET at == LinesOf(f, q)
    IN  CASE q = "NAME" -> ReadFirst(f, at)
          [] q = "DCACHESIZE" -> ReadLast(f, at)
          [] q = "FEATURES" -> ReadSwitches(f, at)
          [] OTHER -> ReadWords(f, at)]

(* Commands: `add' and `del' are res and del_res, `all' is delall.         *)
Command(q, add, del, all) == [param |-> q, add |-> add, del |-> del, all |-> all]

\* The value that the first file has; commands prefer another one.
First == CHOOSE v \in Vals : TRUE
Others == Vals \ {First}

Commands ==
  {Command(q, {v}, {}, FALSE) : q \in {"NAME", "NAMESERVER", "DCACHESIZE"}, v \in Others}
  \union {Command("NAME", {First}, {}, FALSE)}
  \union {Command("FEATURES", {s}, {}, FALSE) :
            s \in {<<First, "off">>} \union (Others \X {"on"})}
  \union {Command("IP_ADDRESS", {v}, {}, FALSE) : v \in Vals}
  \union {Command("IP_ADDRESS", {}, {First}, FALSE)}
  \union {Command("IP_ADDRESS", {v}, {}, TRUE) : v \in Others}

\* merge_ip_list()
MergedWords(old, c) == (IF c.all THEN {} ELSE old \ c.del) \union c.add

\* Switches that are not named keep their old state.
MergedSwitches(old, c) ==
  c.add \union {s \in old : \A t \in c.add : s[1] # t[1]}

\* What a parameter is after a command, from what it was before.
Result(old, c) == CASE c.param = "IP_ADDRESS" -> MergedWords(old, c)
                    [] c.param = "FEATURES" -> MergedSwitches(old, c)
                    [] OTHER -> c.add

\* store(): the line of a command.
Store(old, c) == [name |-> c.param, vals |-> Result(old[c.param], c)]

\* find_conf_line(): the name goes up to the `='.
IsLineOf(l, name) == l.name = name

\* Mutant: every line is appended.
MutMergeConf(f, line) == Append(f, line)

\* vps_merge_conf(): replace the first line of that name, or append it.
MergeConf(f, line) ==
  LET at == SelectInSeq(f, LAMBDA l : IsLineOf(l, line.name))
  IN  IF at = 0 THEN Append(f, line) ELSE [f EXCEPT ![at] = line]

\* A file in which no name has two lines.
Distinct(f) == \A i, j \in DOMAIN f : f[i].name = f[j].name => i = j

-----------------------------------------------------------------------------

Files ==
  LET L(n) == [name |-> n,
               vals |-> IF n = "FEATURES" THEN {<<First, "on">>} ELSE {First}]
  IN  {<<>>, <<L("NAMESERVER"), L("DCACHE")>>,
       <<L("IP_ADDRESS"), L("NAME")>>, <<L("FEATURES")>>}

Nothing == [q \in Params |-> {}]

Init ==
  /\ conf \in Files /\ tmp = None /\ lock = None
  /\ pc = [p \in Vzctls |-> "idle"] /\ cmd = [p \in Vzctls |-> None]
  /\ seen = [p \in Vzctls |-> Nothing] /\ lines = [p \in Vzctls |-> <<>>]
  /\ want = Parse(conf) /\ runs = 0

To(p, from, to) == pc[p] = from /\ pc' = [pc EXCEPT ![p] = to]

\* The end of a vzctl, whether it has the lock or not.
Ends(p) ==
  /\ pc' = [pc EXCEPT ![p] = "idle"]
  /\ lock' = IF lock = p THEN None ELSE lock
  /\ cmd' = [cmd EXCEPT ![p] = None]
  /\ seen' = [seen EXCEPT ![p] = Nothing]
  /\ lines' = [lines EXCEPT ![p] = <<>>]

\* main(): the options and the configuration are parsed first.
Invoke(p) ==
  /\ runs < MaxRuns /\ runs' = runs + 1
  /\ To(p, "idle", "parsed")
  /\ \E c \in Commands : cmd' = [cmd EXCEPT ![p] = c]
  /\ seen' = [seen EXCEPT ![p] = Parse(conf)]
  /\ UNCHANGED <<file, lock, lines, want>>

\* Mutant: vzctl set takes no lock.
MutLock(p) ==
  /\ To(p, "parsed", "set") /\ lock' = p
  /\ UNCHANGED <<file, cmd, seen, lines, want, runs>>

\* run_action(): the lock, or "Container already locked".
Lock(p) ==
  \/ /\ lock = None /\ To(p, "parsed", "set") /\ lock' = p
     /\ UNCHANGED <<file, cmd, seen, lines, want, runs>>
  \/ lock # None /\ pc[p] = "parsed" /\ Ends(p) /\ UNCHANGED <<file, want, runs>>

\* set(): "failed to apply some parameters, not saving configuration file".
Apply(p) ==
  \/ To(p, "set", "save") /\ UNCHANGED <<file, lock, cmd, seen, lines, want, runs>>
  \/ pc[p] = "set" /\ Ends(p) /\ UNCHANGED <<file, want, runs>>

\* vps_save_config(): read_conf(), store() and vps_merge_conf()
ReadConf(p) ==
  /\ To(p, "save", "open")
  /\ lines' = [lines EXCEPT ![p] = MergeConf(conf, Store(seen[p], cmd[p]))]
  /\ UNCHANGED <<file, lock, cmd, seen, want, runs>>

\* write_conf(): what an earlier vzctl has left there goes.
OpenTmp(p) ==
  /\ To(p, "open", "write")
  /\ tmp' = <<>>
  /\ UNCHANGED <<conf, lock, cmd, seen, lines, want, runs>>

Unwritten(p) == SubSeq(lines[p], Len(tmp) + 1, Len(lines[p]))

WriteLine(p) ==
  /\ pc[p] = "write" /\ tmp # None /\ Unwritten(p) # <<>>
  /\ \/ tmp' = Append(tmp, Head(Unwritten(p)))
        /\ UNCHANGED <<conf, lock, pc, cmd, seen, lines, want, runs>>
     \/ tmp' = None /\ Ends(p) /\ UNCHANGED <<conf, want, runs>>

\* "CT configuration saved"; the result of fclose() is not looked at.
Rename(p) ==
  /\ pc[p] = "write" /\ tmp # None
  /\ Unwritten(p) = <<>> \/ Fault("full")
  /\ conf' = tmp /\ tmp' = None
  /\ LET q == cmd[p].param
     IN  want' = [want EXCEPT ![q] = Result(want[q], cmd[p])]
  /\ Ends(p) /\ UNCHANGED runs

\* A vzctl is killed anywhere; the stale lock is broken later.
Die(p) == pc[p] # "idle" /\ Ends(p) /\ UNCHANGED <<file, want, runs>>

Next == \E p \in Vzctls : \/ Invoke(p) \/ Lock(p) \/ Apply(p) \/ ReadConf(p)
                          \/ OpenTmp(p) \/ WriteLine(p) \/ Rename(p) \/ Die(p)

Spec == Init /\ [][Next]_vars

-----------------------------------------------------------------------------

(* Types, and no name gets a second line.                                  *)
TypeOK ==
  /\ conf \in Seq(Line) /\ tmp \in Seq(Line) \union {None}
  /\ lock \in Vzctls \union {None} /\ runs \in 0..MaxRuns
  /\ pc \in [Vzctls -> {"idle", "parsed", "set", "save", "open", "write"}]
  /\ cmd \in [Vzctls -> Commands \union {None}]
  /\ \A q \in Params : want[q] \in Values(q)
  /\ \A p \in Vzctls : DOMAIN seen[p] = Params /\ lines[p] \in Seq(Line)
  /\ Distinct(conf)

(* Whenever the file changes, at any kill and with any other vzctl about,  *)
(* it changes as a whole, into one that reads back as one command asks: its *)
(* parameter has what was set, and every other one what it had before.     *)
SavesOnlyWhatIsAsked ==
  [][conf' # conf =>
       \E p \in Vzctls :
         /\ cmd[p] # None
         /\ LET q == cmd[p].param
            IN  Parse(conf') =
                  [Parse(conf) EXCEPT ![q] = Result(seen[p][q], cmd[p])]]_vars

(* No saved setting undoes another one: what is not built from an old      *)
(* value is what the last command for it has set.                          *)
SettingsKept ==
  \A q \in {"NAME", "NAMESERVER", "DCACHESIZE"} : Parse(conf)[q] = want[q]

(* "Note that this option is incremental, so addr are added to already     *)
(* existing ones": every address that was set and not removed is there.    *)
AddressesKept == Parse(conf)["IP_ADDRESS"] = want["IP_ADDRESS"]
=============================================================================
