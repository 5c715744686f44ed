------------------------------ MODULE MCHelpers -------------------------------
(***************************************************************************)
(* The programs and parts of vzctl that work beside the life cycle,        *)
(* checked in one run.  They share no state: `focus' chooses the one that  *)
(* runs, the others stay in an initial state.                              *)
(***************************************************************************)
EXTENDS DestroyDir, Naturals, TLC

CONSTANTS
  MaxOut, Cap,                  \* of ExecLoop and EnterRelay
  Input,                        \* of ExecLoop
  Typed,                        \* of EnterRelay
  Inits, Entrants, EnvFaults,   \* of CtEnv
  Addrs, ArpFaults              \* of ArpSend

ASSUME BoundsAssumption == {MaxOut, Cap, Input, Typed} \subseteq Nat

\* None is no address, and no packet.
ASSUME PacketAssumption ==
  None \notin Addrs \cup [sndr : Addrs \cup {None}, rcpt : Addrs \cup {None}]

\* Processes are not each other, and no process is one of the words that stand
\* where a process is not there or is not named.
ASSUME ProcessesAssumption ==
  /\ Inits \cap Entrants = {}
  /\ {"creator", "none", "empty", "absent"} \cap (Inits \cup Entrants) = {}

VARIABLES
  focus,
  script, execTimeout, execPc, execCmd, execCode, execSt, holds, pipe,
  execWritten, execShown, execDue, cut, togo, inp, execFl, child_exited,
  alarm_flag, termed, result,
  enterPc, ready, enterFl, child_term, enterSt, enterRet, raw, user, ends,
  in, tin, tout, out, closed, shell, heir, enterWritten, enterShown,
  enterDue, early,
  envPc, envRet, userns, creator, init, cur, cgroup, tasks, statefile, link,
  status, waitp, mapped, err, ent,
  arpCmd, trg_ipaddr, count, arpTimeout, at_once, arpPc, alarm, socket,
  packet, recv_response, arpCode, asked, owners, taken

destroyVars == <<live, temp, rmlck, holder, fd, parent, child, list, del,
                 left>>
execVars == <<script, execTimeout, execPc, execCmd, execCode, execSt, holds,
              pipe, execWritten, execShown, execDue, cut, togo, inp, execFl,
              child_exited, alarm_flag, termed, result>>
enterVars == <<enterPc, ready, enterFl, child_term, enterSt, enterRet, raw,
               user, ends, in, tin, tout, out, closed, shell, heir,
               enterWritten, enterShown, enterDue, early>>
envVars == <<envPc, envRet, userns, creator, init, cur, cgroup, tasks,
             statefile, link, status, waitp, mapped, err, ent>>
arpVars == <<arpCmd, trg_ipaddr, count, arpTimeout, at_once, arpPc, alarm,
             socket, packet, recv_response, arpCode, asked, owners, taken>>
allVars == <<focus, destroyVars, execVars, enterVars, envVars, arpVars>>

Exec == INSTANCE ExecLoop
  WITH timeout <- execTimeout, pc <- execPc, cmd <- execCmd,
       code <- execCode, st <- execSt, written <- execWritten, shown <- execShown,
       due <- execDue, fl <- execFl

Enter == INSTANCE EnterRelay
  WITH pc <- enterPc, fl <- enterFl, st <- enterSt, ret <- enterRet,
       written <- enterWritten, shown <- enterShown, due <- enterDue

Env == INSTANCE CtEnv
  WITH Faults <- EnvFaults, pc <- envPc, ret <- envRet

Arp == INSTANCE ArpSend
  WITH Faults <- ArpFaults,
       cmd <- arpCmd, timeout <- arpTimeout, pc <- arpPc, code <- arpCode

-----------------------------------------------------------------------------

DestroyNext == /\ focus = "destroy" /\ Next
               /\ UNCHANGED <<focus, execVars, enterVars, envVars, arpVars>>

ExecNext == /\ focus = "exec" /\ Exec!Next
            /\ UNCHANGED <<focus, destroyVars, enterVars, envVars, arpVars>>

EnterNext == /\ focus = "enter" /\ Enter!Next
             /\ UNCHANGED <<focus, destroyVars, execVars, envVars, arpVars>>

EnvNext == /\ focus = "env" /\ Env!Next
           /\ UNCHANGED <<focus, destroyVars, execVars, enterVars, arpVars>>

ArpNext == /\ focus = "arp" /\ Arp!Next
           /\ UNCHANGED <<focus, destroyVars, execVars, enterVars, envVars>>

HelpersNext == DestroyNext \/ ExecNext \/ EnterNext \/ EnvNext \/ ArpNext

\* What the environment chooses is chosen for the part that runs; bounds: no
\* script with a timeout, no other hosts where none is asked for.
HelpersInit ==
  /\ focus \in {"destroy", "exec", "enter", "env", "arp"}
  /\ Init /\ Exec!Init /\ Enter!Init /\ Env!Init /\ Arp!Init
  /\ focus = "exec" => ~(script /\ execTimeout)
  /\ focus = "arp" /\ arpCmd \in {"update", "reply"} => owners = {}
  /\ focus # "exec" => ~script /\ ~execTimeout
  /\ focus # "enter" => ~ends
  /\ focus # "env" => ~userns
  /\ focus # "arp" => /\ arpCmd = "detect" /\ trg_ipaddr = {} /\ count = Arp!Forever
                      /\ arpTimeout = 1 /\ ~at_once /\ owners = {}

HelpersSpec == HelpersInit /\ [][HelpersNext]_allVars

\* The fairness of the part that runs.
HelpersFairness ==
  /\ WF_execVars(focus = "exec" /\ Exec!VzctlStep)
  /\ WF_envVars(focus = "env" /\ Env!VzctlStep)
  /\ WF_envVars(focus = "env" /\ Env!CreatorStep)
  /\ \A i \in Inits : WF_envVars(focus = "env" /\ Env!InitStep(i))
  /\ \A e \in Entrants :
       WF_envVars(focus = "env" /\ (Env!JoinCgroup(e) \/ Env!SetNs(e) \/ Env!EntrantExits(e)))
  /\ WF_arpVars(focus = "arp" /\ Arp!MainStep)
  /\ WF_arpVars(focus = "arp" /\ Arp!Alarm)
  /\ WF_arpVars(focus = "arp" /\ Arp!Expire)

FairHelpers == HelpersSpec /\ HelpersFairness

-----------------------------------------------------------------------------
(* The properties of DestroyDir go without a prefix.                       *)

HelpersTypes == TypeOK /\ Exec!TypeOK /\ Enter!TypeOK /\ Env!TypeOK /\ Arp!TypeOK

OutputDelivered == Exec!OutputDelivered
SessionEndsWell == Enter!SessionEndsWell
RunningInitIsKnown == Env!RunningInitIsKnown
DownMeansDown == Env!DownMeansDown
FailedStartEnds == Env!FailedStartEnds
DetectsTaken == Arp!DetectsTaken
Ends == Arp!Ends
=============================================================================
