------------------------------ MODULE ExecLoop -------------------------------
(***************************************************************************)
(* vzctl exec: vps_real_exec() of src/lib/exec.c starts a command in the   *)
(* container and carries its input and output until it ends.               *)
(*                                                                         *)
(* The end of the command is a signal that sets a flag, tested before      *)
(* select(): a signal in between wakes nobody.  The pipes stay open as     *)
(* long as the command or a process that it left behind has them.  Data is *)
(* counted in chunks, what one read() returns.                             *)
(***************************************************************************)
EXTENDS Naturals

CONSTANTS
  MaxOut,   \* bound: chunks written to each stream
  Cap,      \* chunks that a pipe holds
  Input     \* chunks of std_in, or typed on the terminal

Streams == {"out", "err"}

VARIABLES
  script,   \* std_in is given; otherwise the standard input is carried
  timeout,  \* a timeout is given
  pc,       \* where vzctl is
  cmd,      \* the command: none, enter, run, exit, reaped
  code,     \* its exit code
  st,       \* the status pipe: "open", "error" was written, "closed"
  holds,    \* the processes that have the writing end of each stream
  pipe,     \* chunks in each pipe
  written, shown,  \* chunks written to each stream, and shown to the user
  due,      \* ghost: chunks written when the command ended
  cut,      \* ghost: streams whose output the user's terminal refused
  togo,     \* chunks of the input not yet in the pipe `in'
  inp,      \* chunks in the pipe `in'
  fl,       \* the streams closed, and "in"
  child_exited, alarm_flag, termed, result

run == <<cmd, code, st>>
data == <<holds, pipe, written, shown, due, cut>>
input == <<togo, inp>>
signals == <<child_exited, alarm_flag, termed>>
given == <<script, timeout>>
vars == <<given, pc, run, data, input, fl, signals, result>>

Init ==
  /\ script \in BOOLEAN /\ timeout \in BOOLEAN
  /\ pc = "fork" /\ cmd = "none" /\ code = "none" /\ st = "open"
  /\ holds = [s \in Streams |-> {"vzctl"}]
  /\ pipe = [s \in Streams |-> 0] /\ written = pipe /\ shown = pipe
  /\ due = pipe /\ cut = {}
  /\ togo = Input /\ inp = 0 /\ fl = {}
  /\ child_exited = FALSE /\ alarm_flag = FALSE /\ termed = FALSE
  /\ result = "none"

To(next) == pc' = next
Done(r) == pc' = "done" /\ result' = r
Ended == cmd \in {"exit", "reaped"}

\* Somebody can read `in'.
Reader == \E s \in Streams : holds[s] \ {"vzctl"} # {}

-----------------------------------------------------------------------------
(* vzctl *)

\* setcontext() or fork() fails, or the child starts.
Fork ==
  /\ pc = "fork"
  /\ \/ /\ To("close") /\ cmd' = "enter"
        /\ holds' = [s \in Streams |-> {"vzctl", "cmd"}]
        /\ UNCHANGED result
     \/ Done("failed") /\ UNCHANGED <<cmd, holds>>
  /\ UNCHANGED <<given, code, st, pipe, written, shown, due, cut, input, fl, signals>>


CloseWriters ==
  /\ pc = "close" /\ To("status")
  /\ holds' = [s \in Streams |-> holds[s] \ {"vzctl"}]
  /\ UNCHANGED <<given, run, pipe, written, shown, due, cut, input, fl, signals, result>>

(* read() of the status pipe returns 0 when the command runs.  The count   *)
(* read overwrites the error that was sent: it is 4 whatever the error is. *)
ReadStatus ==
  /\ pc = "status"
  /\ \/ st = "closed" /\ To(IF script THEN "script" ELSE "test") /\ UNCHANGED result
     \/ st = "error" /\ Done("failed")
  /\ UNCHANGED <<given, run, data, input, fl, signals>>

\* The blocking write() of std_in, then close(in[1]).
WriteScript ==
  /\ pc = "script"
  /\ \/ /\ togo > 0 /\ Reader /\ inp < Cap
        /\ togo' = togo - 1 /\ inp' = inp + 1
        /\ UNCHANGED <<pc, fl>>
     \/ togo = 0 /\ To("test") /\ fl' = fl \union {"in"} /\ UNCHANGED input
     \/ togo > 0 /\ ~Reader /\ To("abort") /\ UNCHANGED <<input, fl>>
  /\ UNCHANGED <<given, run, data, signals, result>>

\* What the pipes hold is shown; the read does not block.
Flushed == \E c \in SUBSET Streams :
  /\ cut' = cut \union c
  /\ shown' = [s \in Streams |-> shown[s] + IF s \in fl \union c THEN 0 ELSE pipe[s]]
  /\ pipe' = [s \in Streams |-> IF s \in fl THEN pipe[s] ELSE 0]

Abort ==
  /\ pc = "abort" /\ Flushed /\ Done("failed")
  /\ UNCHANGED <<given, run, holds, written, due, input, fl, signals>>

\* while (!child_exited), the timeout, and all streams closed
Test ==
  /\ pc = "test"
  /\ IF child_exited \/ Streams \subseteq fl
     THEN To("flush") /\ UNCHANGED termed
     ELSE IF alarm_flag
          THEN To("flush") /\ termed' = TRUE
          ELSE To("select") /\ UNCHANGED termed
  /\ UNCHANGED <<given, run, data, input, fl, child_exited, alarm_flag, result>>

Readable == {s \in Streams \ fl : pipe[s] > 0 \/ holds[s] = {}}
InReady == "in" \notin fl /\ togo > 0

(* select() returns: one chunk of each readable stream is carried, then    *)
(* one of the input.  A stream at its end, or refused, is closed.          *)
Select ==
  /\ pc \in {"select", "blocked"}
  /\ \/ /\ Readable # {} \/ InReady
        /\ \E c \in SUBSET {s \in Readable : pipe[s] > 0} :
             /\ cut' = cut \union c
             /\ fl' = fl \union c \union {s \in Readable : pipe[s] = 0}
             /\ shown' = [s \in Streams |-> shown[s] +
                            IF s \in Readable \ c /\ pipe[s] > 0 THEN 1 ELSE 0]
             /\ pipe' = [s \in Streams |->
                            IF s \in Readable /\ pipe[s] > 0 THEN pipe[s] - 1 ELSE pipe[s]]
        /\ To(IF InReady THEN "feed" ELSE "test")
     \/ /\ pc = "select" /\ Readable = {} /\ ~InReady
        /\ To("blocked")
        /\ UNCHANGED <<cut, fl, shown, pipe>>
  /\ UNCHANGED <<given, run, holds, written, due, input, signals, result>>

\* write() to `in' of what the user typed
Feed ==
  /\ pc = "feed" /\ To("test")
  /\ IF Reader
     THEN inp < Cap /\ inp' = inp + 1 /\ togo' = togo - 1 /\ UNCHANGED fl
     ELSE fl' = fl \union {"in"} /\ UNCHANGED input
  /\ UNCHANGED <<given, run, data, signals, result>>

\* Mutant: only the standard output is flushed.
MutFlush ==
  /\ pc = "flush" /\ To("wait")
  /\ shown' = [shown EXCEPT !["out"] = @ + IF "out" \in fl THEN 0 ELSE pipe["out"]]
  /\ pipe' = [pipe EXCEPT !["out"] = 0]
  /\ UNCHANGED <<given, run, holds, written, due, cut, input, fl, signals, result>>

Flush ==
  /\ pc = "flush" /\ Flushed /\ To("wait")
  /\ UNCHANGED <<given, run, holds, written, due, input, fl, signals, result>>

\* env_wait()
EnvWait ==
  /\ pc = "wait" /\ cmd = "exit"
  /\ cmd' = "reaped"
  /\ Done(IF code # "zero" /\ timeout /\ alarm_flag THEN "timeout" ELSE code)
  /\ UNCHANGED <<given, code, st, data, input, fl, signals>>

-----------------------------------------------------------------------------
(* The signals: they set flags, and end a select() or write() that blocks. *)

\* A script of which a part was written counts as written.
Interrupts ==
  pc' = CASE pc = "blocked" -> "test"
          [] pc = "script" /\ togo = Input -> "abort"
          [] pc = "script" -> "test"
          [] OTHER -> pc

Alarm ==
  /\ timeout /\ ~alarm_flag /\ pc \notin {"fork", "done"}
  /\ alarm_flag' = TRUE /\ Interrupts
  /\ fl' = IF pc = "script" /\ togo # Input THEN fl \union {"in"} ELSE fl
  /\ UNCHANGED <<given, run, data, input, child_exited, termed, result>>

ChildHandler ==
  /\ cmd = "exit" /\ ~child_exited /\ pc # "done"
  /\ child_exited' = TRUE /\ Interrupts
  /\ fl' = IF pc = "script" /\ togo # Input THEN fl \union {"in"} ELSE fl
  /\ UNCHANGED <<given, run, data, input, alarm_flag, termed, result>>

-----------------------------------------------------------------------------
(* The command, and a process that it leaves behind *)

\* h->enter() and execve(), or the error is sent and the child exits.
Enter ==
  /\ cmd = "enter"
  /\ \/ cmd' = "run" /\ st' = "closed" /\ UNCHANGED <<code, holds>>
     \/ /\ cmd' = "exit" /\ st' = "error" /\ code' = "nonzero"
        /\ holds' = [s \in Streams |-> holds[s] \ {"cmd"}]
  /\ UNCHANGED <<given, pc, pipe, written, shown, due, cut, input, fl, signals, result>>

WriteOut(s) ==
  /\ cmd # "enter" /\ holds[s] \ {"vzctl"} # {} /\ s \notin fl
  /\ pipe[s] < Cap /\ written[s] < MaxOut
  /\ pipe' = [pipe EXCEPT ![s] = @ + 1]
  /\ written' = [written EXCEPT ![s] = @ + 1]
  /\ UNCHANGED <<given, pc, run, holds, shown, due, cut, input, fl, signals, result>>

ReadIn ==
  /\ cmd = "run" /\ inp > 0
  /\ inp' = inp - 1
  /\ UNCHANGED <<given, pc, run, data, togo, fl, signals, result>>

\* The command closes a stream, or leaves a process that has both.
CloseOut(s) ==
  /\ cmd = "run" /\ "cmd" \in holds[s]
  /\ holds' = [holds EXCEPT ![s] = @ \ {"cmd"}]
  /\ UNCHANGED <<given, pc, run, pipe, written, shown, due, cut, input, fl, signals, result>>

Spawn ==
  /\ cmd = "run" /\ \A s \in Streams : "cmd" \in holds[s]
  /\ holds' = [s \in Streams |-> holds[s] \union {"heir"}]
  /\ UNCHANGED <<given, pc, run, pipe, written, shown, due, cut, input, fl, signals, result>>

HeirExits ==
  /\ \E s \in Streams : "heir" \in holds[s]
  /\ holds' = [s \in Streams |-> holds[s] \ {"heir"}]
  /\ UNCHANGED <<given, pc, run, pipe, written, shown, due, cut, input, fl, signals, result>>

Exit ==
  /\ cmd = "run" /\ cmd' = "exit"
  /\ code' \in {"zero", "nonzero"} \union IF termed THEN {"signal"} ELSE {}
  /\ due' = written
  /\ holds' = [s \in Streams |-> holds[s] \ {"cmd"}]
  /\ UNCHANGED <<given, pc, st, pipe, written, shown, cut, input, fl, signals, result>>

VzctlStep == Fork \/ CloseWriters \/ ReadStatus \/ WriteScript \/ Abort \/ Test
             \/ Select \/ Feed \/ Flush \/ EnvWait \/ ChildHandler

CommandStep == Enter \/ ReadIn \/ Spawn \/ HeirExits \/ Exit
               \/ \E s \in Streams : WriteOut(s) \/ CloseOut(s)

\* Bound: what happens after vzctl exec has returned is not followed.
Next == VzctlStep \/ Alarm \/ (pc # "done" /\ CommandStep)

Spec == Init /\ [][Next]_vars

\* vzctl is scheduled; the command may do nothing for ever.
Fairness == WF_vars(VzctlStep)

FairSpec == Spec /\ Fairness

-----------------------------------------------------------------------------

(* Types; a chunk is in the pipe, shown, or lost with a closed stream.     *)
TypeOK ==
  /\ pc \in {"fork", "close", "status", "script", "abort", "test", "select",
             "blocked", "feed", "flush", "wait", "done"}
  /\ cmd \in {"none", "enter", "run", "exit", "reaped"}
  /\ fl \subseteq Streams \union {"in"}
  /\ togo \in 0..Input /\ inp \in 0..Cap
  /\ \A s \in Streams : /\ pipe[s] \in 0..Cap /\ written[s] \in 0..MaxOut
                        /\ shown[s] + pipe[s] <= written[s]
                        /\ s \notin cut => shown[s] + pipe[s] = written[s]

(* When vzctl exec returns the result of the command, all that the command *)
(* wrote has been shown, also what it wrote last: unless the command timed *)
(* out or the user's terminal refused the stream.                          *)
OutputDelivered ==
  pc = "done" /\ result \in {"zero", "nonzero"} /\ ~termed
    => \A s \in Streams \ cut : shown[s] >= due[s]

=============================================================================
