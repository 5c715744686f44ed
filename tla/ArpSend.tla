------------------------------ MODULE ArpSend ---------------------------------
(***************************************************************************)
(* arpsend (src/arpsend.c), with which the network scripts find out whether *)
(* an address is in use (-D) and tell the neighbours of a new one (-U).    *)
(*                                                                         *)
(* The requests are sent by the handler of SIGALRM, which also ends the    *)
(* program.  It may run whenever the signal is not blocked: while main()   *)
(* waits for a packet, and after recvfrom() has returned one.              *)
(***************************************************************************)
EXTENDS Integers, FiniteSets, Sequences

CONSTANTS
  Addrs,    \* the addresses asked for, and of other hosts
  None,
  Faults    \* "options", "device", "send"

VARIABLES
  cmd, trg_ipaddr, count, timeout, at_once,   \* the options
  pc,       \* where main() is
  alarm,    \* SIGALRM: "off", "armed", "pending"
  socket,   \* the packets that have arrived
  packet,   \* the one that main() has read, or None
  recv_response,
  code,     \* the exit code
  asked,    \* the addresses that have been asked for
  owners,   \* those that another host has
  taken     \* ghost: the owners whose answers recvfrom() has returned

options == <<cmd, trg_ipaddr, timeout, at_once>>
wire == <<socket, asked, owners>>
vars == <<options, count, pc, alarm, wire, packet, recv_response, code, taken>>

Fault(f) == f \in Faults
Forever == -1
Room == 2      \* bound: packets in the socket
Packet(sndr, rcpt) == [sndr |-> sndr, rcpt |-> rcpt]
Own == None    \* the sender of packets that no target has sent

Init ==
  /\ cmd \in {"detect", "update", "request", "reply"}
  /\ trg_ipaddr \in SUBSET Addrs
  /\ count \in {Forever, 1, 2} /\ timeout \in {0, 1} /\ at_once \in BOOLEAN
  /\ pc = "options" /\ alarm = "off" /\ recv_response = 0 /\ code = "none"
  /\ socket = <<>> /\ packet = None /\ asked = {} /\ taken = {}
  /\ owners \in SUBSET Addrs

Exit(c) == pc' = "exit" /\ code' = c

\* finish()
FinishCode(n) ==
  CASE cmd \in {"detect", "update"} -> IF n > 0 THEN "recv" ELSE "ok"
    [] cmd = "request" -> IF n > 0 THEN "ok" ELSE "norecv"
    [] cmd = "reply" -> "ok"
Finish(n) == Exit(FinishCode(n))

\* parse_options(): -D wants an address; one is found with the first answer.
ParseOptions ==
  /\ pc = "options"
  /\ \/ ((cmd = "detect" /\ trg_ipaddr = {}) \/ Fault("options")) /\ Exit("usage")
     \/ (cmd = "detect" => trg_ipaddr # {}) /\ pc' = "device" /\ UNCHANGED code
  /\ at_once' = (at_once \/ (cmd = "detect" /\ Cardinality(trg_ipaddr) <= 1))
  /\ UNCHANGED <<cmd, trg_ipaddr, timeout, count, alarm, wire, packet, recv_response, taken>>

\* main() with an IPv6 address: ndsend tells the neighbours, the rest is
\* skipped with success.
Ipv6 ==
  /\ pc = "options" /\ trg_ipaddr = {}
  /\ Exit(IF cmd = "update" THEN "ndsend" ELSE "ok")
  /\ UNCHANGED <<options, count, alarm, wire, packet, recv_response, taken>>

\* init_device_addresses(): the interface is there, up and does ARP.
InitDevice ==
  /\ pc = "device"
  /\ \/ pc' = "create" /\ UNCHANGED code
     \/ Fault("device") /\ Exit("sys")
  /\ UNCHANGED <<options, count, alarm, wire, packet, recv_response, taken>>

\* create_arp_packet(): without a target, the address of the interface.
CreatePacket ==
  /\ pc = "create"
  /\ pc' = "first"
  /\ UNCHANGED <<options, count, alarm, wire, packet, recv_response, code, taken>>

\* sender(), at the end of which main() is at `next': a request for each
\* target, and the timer again.  A timer of zero seconds never ends.
Sender(next) ==
  IF count = 0 THEN /\ Finish(recv_response)
                    /\ alarm' = "off"
                    /\ UNCHANGED <<count, asked>>
  ELSE \/ /\ count' = IF count = Forever THEN Forever ELSE count - 1
          /\ asked' = asked \union trg_ipaddr
          /\ IF count' = 0 /\ cmd \notin {"detect", "request"}
             THEN Finish(recv_response) /\ alarm' = "off"
             ELSE /\ pc' = next
                  /\ alarm' = IF timeout = 0 THEN "off" ELSE "armed"
                  /\ UNCHANGED code
       \/ Fault("send") /\ Exit("sys") /\ alarm' = "off" /\ UNCHANGED <<count, asked>>

\* The first requests, before the loop of main().
FirstSend ==
  /\ pc = "first"
  /\ Sender("recv")
  /\ UNCHANGED <<options, socket, owners, packet, recv_response, taken>>

\* The handler runs in recvfrom(), or between it and sigprocmask().
Alarm ==
  /\ pc \in {"recv", "got"}
  /\ alarm = "pending"
  /\ Sender(pc)
  /\ UNCHANGED <<options, socket, owners, packet, recv_response, taken>>

Expire ==
  /\ alarm = "armed"
  /\ alarm' = "pending"
  /\ UNCHANGED <<options, count, pc, wire, packet, recv_response, code, taken>>

\* recvfrom()
Recv ==
  /\ pc = "recv" /\ alarm # "pending" /\ socket # <<>>
  /\ packet' = Head(socket)
  /\ socket' = Tail(socket)
  /\ taken' = IF packet'.sndr = Own THEN taken ELSE taken \union {packet'.sndr}
  /\ pc' = "got"
  /\ UNCHANGED <<options, count, alarm, asked, owners, recv_response, code>>

\* sigprocmask(SIG_BLOCK)
Block ==
  /\ pc = "got" /\ alarm # "pending"
  /\ pc' = "handle"
  /\ UNCHANGED <<options, count, alarm, wire, packet, recv_response, code, taken>>

\* Mutant: the address that is asked for is compared.
MutMatching(p) == {x \in trg_ipaddr : x = p.rcpt}

\* The targets from which a packet comes.
Matching(p) == {x \in trg_ipaddr : x = p.sndr}

\* recv_pack(), which may be the end of it; the signal stays blocked.
RecvPack ==
  /\ pc = "handle"
  /\ recv_response' = recv_response + Cardinality(Matching(packet))
  /\ IF Matching(packet) # {} /\ at_once THEN Finish(recv_response')
     ELSE pc' = "handled" /\ UNCHANGED code
  /\ UNCHANGED <<options, count, alarm, wire, packet, taken>>

\* Mutant: the signal stays blocked.
MutUnblock ==
  /\ pc = "handled"
  /\ alarm' = "off"
  /\ pc' = "recv"
  /\ packet' = None
  /\ UNCHANGED <<options, count, wire, recv_response, code, taken>>

\* sigprocmask(SIG_UNBLOCK) delivers a signal that is pending.
Unblock ==
  /\ pc = "handled"
  /\ IF alarm = "pending" THEN Sender("recv")
     ELSE pc' = "recv" /\ UNCHANGED <<count, alarm, asked, code>>
  /\ packet' = None
  /\ UNCHANGED <<options, socket, owners, recv_response, taken>>

-----------------------------------------------------------------------------
(* The network; a host may keep silent, and its answer may be lost.        *)

Arrive(p) ==
  /\ pc \notin {"options", "exit"} /\ Len(socket) < Room
  /\ Cardinality(taken) + recv_response <= 2 * Cardinality(Addrs)
  /\ socket' = Append(socket, p)
  /\ UNCHANGED <<options, count, pc, alarm, asked, owners, packet, recv_response, code, taken>>

Answer(x) == x \in asked \intersect owners /\ Arrive(Packet(x, Own))

\* A third host asks for an address.
Question(x) == Arrive(Packet(Own, x))

MainStep == ParseOptions \/ Ipv6 \/ InitDevice \/ CreatePacket \/ FirstSend \/ Recv \/ Block
            \/ RecvPack \/ Unblock

Next == MainStep \/ Alarm \/ Expire \/ \E x \in Addrs : Answer(x) \/ Question(x)

Spec == Init /\ [][Next]_vars

\* main() and the handler are scheduled, and time passes.
Fairness == WF_vars(MainStep) /\ WF_vars(Alarm) /\ WF_vars(Expire)

FairSpec == Spec /\ Fairness

-----------------------------------------------------------------------------
TypeOK ==
  /\ pc \in {"options", "device", "create", "first", "recv", "got", "handle",
             "handled", "exit"}
  /\ alarm \in {"off", "armed", "pending"}
  /\ code \in {"none", "ok", "recv", "norecv", "usage", "sys", "ndsend"}
  /\ pc = "exit" <=> code # "none"
  /\ taken \subseteq owners

(* Detection: arpsend succeeds only if no answer has reached it but one,   *)
(* which it was just about to look at when its time ran out; and it fails  *)
(* only for an address that another host has.                              *)
DetectsTaken ==
  cmd = "detect" /\ pc = "exit" =>
    /\ code = "ok" => taken \intersect trg_ipaddr \subseteq
                        (IF packet = None THEN {} ELSE {packet.sndr})
    /\ code = "recv" => trg_ipaddr \intersect owners # {}

(* With a number of requests and a time to wait, arpsend ends, whatever    *)
(* arrives while it waits.                                                 *)
Ends == (count > 0 /\ timeout > 0) ~> pc = "exit"
=============================================================================
