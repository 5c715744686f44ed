----------------------------- MODULE EnterRelay ------------------------------
(***************************************************************************)
(* vzctl enter: do_enter() and e_loop() of src/enter.c.  Two processes run *)
(* the same loop: the outer one carries the user's terminal to the pipe    *)
(* `in' and the pipe `out' back, the inner one, in the container, carries  *)
(* `in' to the master of a pseudo terminal and the master back to `out'.   *)
(* For the inner one the master is both what it writes to and what it      *)
(* reads from.                                                             *)
(***************************************************************************)
EXTENDS Naturals

CONSTANTS
  MaxOut,  \* bound: chunks that the shell writes
  Typed,   \* bound: chunks that the user types
  Cap      \* chunks that a pipe or the pseudo terminal holds

Procs == {"outer", "inner"}

VARIABLES
  pc,        \* where each process is
  ready,     \* what select() has found readable
  fl,        \* what each process does not read any more
  child_term,
  st,        \* the status pipe: "open", "error", "closed"
  ret,       \* of the outer process: "none", "ok", "failed"
  raw,       \* the terminal of the user is in raw mode
  user,      \* chunks to be typed; `ends' when a pipe is the standard input
  ends,
  in, tin, tout, out,  \* chunks on their way
  closed,    \* the ends that were closed: "in", "master"
  shell,     \* "none", "run", "exit"
  heir,      \* a process of the session keeps the terminal open
  written, shown,
  due,       \* ghost: chunks written when the shell ended
  early      \* ghost: a signal came while the status was awaited

loop == <<pc, ready, fl, child_term>>
term == <<ret, raw>>
pipes == <<in, tin, tout, out>>
typing == <<user, ends>>
session == <<shell, heir, written, due>>
vars == <<loop, st, term, typing, pipes, closed, session, shown, early>>

Init ==
  /\ pc = [outer |-> "status", inner |-> "enter"]
  /\ ready = [p \in Procs |-> {}] /\ fl = [p \in Procs |-> {}]
  /\ child_term = [p \in Procs |-> FALSE]
  /\ st = "open" /\ ret = "none" /\ raw = FALSE
  /\ user = Typed /\ ends \in BOOLEAN
  /\ in = 0 /\ tin = 0 /\ tout = 0 /\ out = 0 /\ closed = {}
  /\ shell = "none" /\ heir = FALSE /\ written = 0 /\ shown = 0 /\ due = 0
  /\ early = FALSE

Goes(p, from, to) == pc[p] = from /\ pc' = [pc EXCEPT ![p] = to]
SlaveClosed == shell = "exit" /\ ~heir

-----------------------------------------------------------------------------
(* Before the loops *)

\* enter(), openpty() and fork(), or the error is written to the status pipe.
EnterCt ==
  /\ \/ Goes("inner", "enter", "test") /\ st' = "closed" /\ shell' = "run"
     \/ Goes("inner", "enter", "done") /\ st' = "error" /\ UNCHANGED shell
  /\ UNCHANGED <<ready, fl, child_term, term, typing, pipes, closed, heir, written,
                 due, shown, early>>

(* A signal, SIGWINCH say, ends the read() with an error that is taken for *)
(* a failure: the outer process then only waits for the inner one.         *)
ReadStatus ==
  /\ \/ /\ st = "closed" /\ Goes("outer", "status", "test")
        /\ ret' = "ok" /\ raw' = TRUE /\ UNCHANGED early
     \/ /\ st # "closed" /\ Goes("outer", "status", "wait")
        /\ ret' = "failed" /\ early' = (st = "open") /\ UNCHANGED raw
  /\ UNCHANGED <<ready, fl, child_term, st, typing, pipes, closed, session, shown>>

-----------------------------------------------------------------------------
(* e_loop() *)

Test(p) ==
  /\ Goes(p, "test", IF child_term[p] THEN "flush" ELSE "select")
  /\ UNCHANGED <<ready, fl, child_term, st, term, typing, pipes, closed, session,
                 shown, early>>

InReadable(p) == IF p = "outer" THEN user > 0 \/ ends ELSE in > 0 \/ "in" \in closed
OutReadable(p) == IF p = "outer" THEN out > 0 \/ pc["inner"] = "done"
                                 ELSE tout > 0 \/ SlaveClosed

\* select() fails when the inner process has closed the master.
Select(p) ==
  /\ pc[p] \in {"select", "blocked"}
  /\ LET found == {f \in {"in", "out"} \ fl[p] : IF f = "in" THEN InReadable(p)
                                                          ELSE OutReadable(p)}
         bad == p = "inner" /\ "master" \in closed
     IN /\ pc[p] = "blocked" => found # {}
        /\ pc' = [pc EXCEPT ![p] = CASE bad -> "flush"
                                     [] ~bad /\ found # {} -> "move"
                                     [] OTHER -> "blocked"]
        /\ ready' = [ready EXCEPT ![p] = IF bad THEN {} ELSE found]
  /\ UNCHANGED <<fl, child_term, st, term, typing, pipes, closed, session, shown, early>>

\* stdredir(r_in, w_in); at the end of r_in, w_in is closed.
InEnds(p) ==
  /\ fl' = [fl EXCEPT ![p] = @ \union {"in"}]
  /\ closed' = closed \union {IF p = "outer" THEN "in" ELSE "master"}

TypedMoves ==
  \/ user > 0 /\ in < Cap /\ pc["inner"] # "done"
     /\ user' = user - 1 /\ in' = in + 1 /\ UNCHANGED <<tin, fl, closed>>
  \/ (user = 0 \/ pc["inner"] = "done") /\ InEnds("outer") /\ UNCHANGED <<user, in, tin>>

InMoves ==
  \/ in > 0 /\ (tin < Cap \/ SlaveClosed) /\ in' = in - 1
     /\ tin' = (IF SlaveClosed THEN tin ELSE tin + 1) /\ UNCHANGED <<user, fl, closed>>
  \/ in = 0 /\ InEnds("inner") /\ UNCHANGED <<user, in, tin>>

MoveIn(p) ==
  /\ pc[p] = "move" /\ "in" \in ready[p]
  /\ IF p = "outer" THEN TypedMoves ELSE InMoves
  /\ ready' = [ready EXCEPT ![p] = @ \ {"in"}]
  /\ UNCHANGED <<pc, child_term, st, term, ends, tout, out, session, shown, early>>

\* Mutant: what does not fit is dropped.
MutShellMoves == tout > 0 /\ "master" \notin closed /\ tout' = tout - 1
                 /\ out' = (IF out < Cap THEN out + 1 ELSE out) /\ UNCHANGED shown

\* stdredir(r_out, w_out) of the inner process; nobody reads `out' any more
\* when the outer one is gone.
ShellMoves == tout > 0 /\ "master" \notin closed /\ out < Cap
              /\ tout' = tout - 1 /\ out' = out + 1 /\ UNCHANGED shown
OutShown == out > 0 /\ out' = out - 1 /\ shown' = shown + 1 /\ UNCHANGED tout
OutMoves(p) == IF p = "outer" THEN OutShown ELSE ShellMoves
OutIsOver(p) == IF p = "outer" THEN out = 0 ELSE tout = 0 \/ "master" \in closed

\* At the end of r_out the loop ends.
MoveOut(p) ==
  /\ pc[p] = "move" /\ "in" \notin ready[p]
  /\ ready' = [ready EXCEPT ![p] = {}]
  /\ \/ "out" \notin ready[p] /\ Goes(p, "move", "test") /\ UNCHANGED <<fl, pipes, shown>>
     \/ /\ "out" \in ready[p] /\ Goes(p, "move", "test")
        /\ OutMoves(p) /\ UNCHANGED <<in, tin, fl>>
     \/ /\ "out" \in ready[p] /\ OutIsOver(p) /\ Goes(p, "move", "wait")
        /\ fl' = [fl EXCEPT ![p] = @ \union {"out"}] /\ UNCHANGED <<pipes, shown>>
  /\ UNCHANGED <<child_term, st, term, typing, closed, session, early>>

\* while (stdredir(r_out, w_out) == 0)
Flush(p) ==
  /\ \/ pc[p] = "flush" /\ OutMoves(p) /\ UNCHANGED <<pc, in, tin>>
     \/ OutIsOver(p) /\ Goes(p, "flush", "wait") /\ UNCHANGED <<pipes, shown>>
  /\ UNCHANGED <<ready, fl, child_term, st, term, typing, closed, session, early>>

\* The inner process waits for the shell; its ends are closed when it exits.
InnerEnds ==
  /\ shell = "exit" /\ Goes("inner", "wait", "done")
  /\ closed' = closed \union {"master"}
  /\ UNCHANGED <<ready, fl, child_term, st, term, typing, pipes, session, shown, early>>

\* Mutant: the terminal is restored only after a signal.
MutOuterEnds ==
  /\ pc["inner"] = "done" /\ Goes("outer", "wait", "done")
  /\ raw' = (raw /\ ~child_term["outer"])
  /\ UNCHANGED <<ready, fl, child_term, st, ret, typing, pipes, closed, session, shown, early>>

\* waitpid(), raw_off()
OuterEnds ==
  /\ pc["inner"] = "done" /\ Goes("outer", "wait", "done")
  /\ raw' = (raw /\ ret # "ok")
  /\ UNCHANGED <<ready, fl, child_term, st, ret, typing, pipes, closed, session, shown, early>>

\* SIGCHLD sets a flag, and ends a select() that blocks.
ChildHandler(p) ==
  /\ ~child_term[p] /\ pc[p] # "done"
  /\ IF p = "inner" THEN shell = "exit" ELSE pc["inner"] = "done" /\ pc[p] # "status"
  /\ child_term' = [child_term EXCEPT ![p] = TRUE]
  /\ pc' = [pc EXCEPT ![p] = IF @ = "blocked" THEN "test" ELSE @]
  /\ UNCHANGED <<ready, fl, st, term, typing, pipes, closed, session, shown, early>>

-----------------------------------------------------------------------------
(* The shell *)

ShellReads ==
  /\ shell = "run" /\ tin > 0 /\ tin' = tin - 1
  /\ UNCHANGED <<loop, st, term, typing, in, tout, out, closed, session, shown, early>>

ShellWrites ==
  /\ shell = "run" \/ heir
  /\ "master" \notin closed /\ tout < Cap /\ written < MaxOut
  /\ tout' = tout + 1 /\ written' = written + 1
  /\ UNCHANGED <<loop, st, term, typing, in, tin, out, closed, shell, heir, due, shown, early>>

\* It exits, or is hung up; a process of the session may stay.
ShellEnds ==
  /\ shell = "run" /\ shell' = "exit"
  /\ heir' \in BOOLEAN /\ due' = written
  /\ UNCHANGED <<loop, st, term, typing, pipes, closed, written, shown, early>>

HeirEnds ==
  /\ heir /\ heir' = FALSE
  /\ UNCHANGED <<loop, st, term, typing, pipes, closed, shell, written, due, shown, early>>

LoopStep(p) == Test(p) \/ Select(p) \/ MoveIn(p) \/ MoveOut(p) \/ Flush(p) \/ ChildHandler(p)
VzctlStep == EnterCt \/ ReadStatus \/ InnerEnds \/ OuterEnds \/ \E p \in Procs : LoopStep(p)
ShellStep == ShellReads \/ ShellWrites \/ ShellEnds \/ HeirEnds

\* Bound: what happens after vzctl enter has returned is not followed.
Next == VzctlStep \/ (pc["outer"] # "done" /\ ShellStep)

Spec == Init /\ [][Next]_vars

\* The shell may wait for its user for ever, but not once it is hung up.
Fairness ==
  /\ WF_vars(EnterCt) /\ WF_vars(ReadStatus) /\ WF_vars(InnerEnds) /\ WF_vars(OuterEnds)
  /\ \A p \in Procs : WF_vars(LoopStep(p))
  /\ WF_vars("master" \in closed /\ ShellEnds)

FairSpec == Spec /\ Fairness

-----------------------------------------------------------------------------

(* Types; a chunk of the shell is on its way, shown, or in a master that   *)
(* was closed.                                                             *)
TypeOK ==
  /\ pc \in [Procs -> {"status", "enter", "test", "select", "blocked", "move",
                       "flush", "wait", "done"}]
  /\ fl \in [Procs -> SUBSET {"in", "out"}] /\ ready \in [Procs -> SUBSET {"in", "out"}]
  /\ {in, tin, tout, out} \subseteq 0..Cap /\ user \in 0..Typed
  /\ written = tout + out + shown

(* When vzctl enter returns, the user has seen all that the shell wrote:   *)
(* unless the user's input has ended, which closes the master at once, or  *)
(* the entry counts as failed.                                             *)
AllShown == pc["outer"] = "done" /\ ret = "ok" /\ "in" \notin fl["outer"]
              => shown >= due

(* However the session ends, the user's terminal is not left in raw mode.  *)
TerminalRestored == pc["outer"] = "done" => ~raw

(* The user has seen all and has the terminal back.                        *)
SessionEndsWell == AllShown /\ TerminalRestored

(* The two ways to block for ever once the shell has ended, when `out' is  *)
(* full: the outer process waits for room in `in', or it does not carry at *)
(* all since the entry counts as failed.                                   *)
Jammed ==
  /\ out = Cap /\ (pc["inner"] = "flush" \/ (pc["inner"] = "move" /\ ready["inner"] = {"out"}))
  /\ \/ pc["outer"] = "move" /\ "in" \in ready["outer"] /\ in = Cap
     \/ pc["outer"] = "wait" /\ early

(* vzctl enter returns when the shell has ended and nobody has its         *)
(* terminal, even if the signals came when they wake nobody.               *)
ReturnsWhenLeft == SlaveClosed ~> (pc["outer"] = "done" \/ Jammed)
=============================================================================
