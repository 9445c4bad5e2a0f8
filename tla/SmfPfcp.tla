------------------------------- MODULE SmfPfcp ------------------------------
(***************************************************************************)
(* The deployed SMF (smf/main.go): each POST to /gtpc/v1/create-session is  *)
(* served by a goroutine of its own, and all of them share one connected    *)
(* UDP socket to the UPF. A goroutine writes its request, reads the clock,  *)
(* arms the read deadline, which belongs to the socket and not to the       *)
(* goroutine, and then takes the next datagram that arrives, whoever it     *)
(* answers.                                                                 *)
(*                                                                          *)
(* A call is named by the identifier of the PFCP request it would send.     *)
(* There may be more calls than those told apart here: what they do to a    *)
(* call, beyond taking an answer that it waits for (LoseAnswer), is that    *)
(* they arm the deadline too. Time is counted in ticks, the clock both      *)
(* time-outs run on.                                                        *)
(***************************************************************************)
EXTENDS PfcpLink, Naturals

CONSTANTS SmfSeid,     \* the SEID the handler passes: 1, for every UE
          ReadTicks,   \* ticks in the 5 seconds of SetReadDeadline
          GraceTicks   \* ticks in the 5 seconds of the shutdown context

ASSUME SmfAssumption ==
  /\ SmfSeid \in Seids
  /\ ReadTicks \in Nat \ {0}
  /\ GraceTicks \in Nat \ {0}

VARIABLES pc,         \* where the handler of each call is
          deadline,   \* ticks until the socket's read deadline
          owed,       \* per call: ticks until the time it computed, now + 5 s
          overtaken,  \* history: reads whose deadline was moved before their own
          got,        \* history: the answer a call has read, as a set
          events,     \* messages published on pfcp.session.created
          server,     \* the HTTP server: "serving", "draining", "exited"
          grace       \* ticks left of the shutdown context

smfVars == <<pc, deadline, owed, overtaken, got, events, server, grace>>

Calls == Ids

InHandler == {"write", "clock", "arm", "read", "respond", "publish"}
Answered == {"rejected", "failed", "timedout", "done"}

Active(c) == pc[c] \in InHandler

(* The handler has written status 200; net/http flushes it on return. *)
Accepted(c) == pc[c] \in {"publish", "done"}

(* Mutant: the request is built without its SEID.                           *)
EstablishmentWithoutSeid(c) == [kind |-> "establish", id |-> c]

(* CreateSession(1, ueIP, teid): identifier c stands for the other two. *)
Establishment(c) == [kind |-> "establish", seid |-> SmfSeid, id |-> c]

TeidOf(c) == <<"teid", c>>
UeIPOf(c) == <<"ueIP", c>>

(* PublishPFCPCreated(sessionID, teid, ueIP) as the handler calls it: the   *)
(* TEID in the place of the session, the address in the place of the TEID.  *)
PFCPCreated(c) == [session_id |-> TeidOf(c), teid |-> UeIPOf(c), ue_ip |-> ""]

SmfTypeOK ==
  /\ pc \in [Calls -> InHandler \cup Answered \cup {"new", "cut"}]
  /\ deadline \in 0 .. ReadTicks
  /\ owed \in [Calls -> 0 .. ReadTicks]
  /\ overtaken \in SUBSET Calls
  /\ got \in [Calls -> SUBSET Request]
  /\ events \in SUBSET {PFCPCreated(c) : c \in Calls}
  /\ server \in {"serving", "draining", "exited"}
  /\ grace \in 0 .. GraceTicks

(* main has dialled the UPF and NATS and started ListenAndServe. *)
SmfInit ==
  /\ pc = [c \in Calls |-> "new"]
  /\ deadline = 0
  /\ owed = [c \in Calls |-> 0]
  /\ overtaken = {}
  /\ got = [c \in Calls |-> {}]
  /\ events = {}
  /\ server = "serving"
  /\ grace = GraceTicks

Goto(c, l) == pc' = [pc EXCEPT ![c] = l]

(* A call is taken: 400 if the body is not a create-session request with an *)
(* address and an F-TEID, otherwise the handler goes on to CreateSession.   *)
Arrive(c) ==
  /\ server = "serving"
  /\ pc[c] = "new"
  /\ Goto(c, "write") \/ Goto(c, "rejected")
  /\ UNCHANGED <<linkVars, deadline, owed, overtaken, got, events, server, grace>>

Write(c) ==
  /\ pc[c] = "write"
  /\ Send(Establishment(c))
  /\ Goto(c, "clock")
  /\ UNCHANGED <<deadline, owed, overtaken, got, events, server, grace>>

(* CreateSession returns, and with it what it computed is gone.             *)
Return(c, l) ==
  /\ Goto(c, l)
  /\ owed' = [owed EXCEPT ![c] = 0]
  /\ overtaken' = overtaken \ {c}

(* A write or a read fails at once (the kernel reports an ICMP error of an  *)
(* earlier datagram on the connected socket): 500.                          *)
SocketError(c) ==
  /\ pc[c] \in {"write", "read"}
  /\ Return(c, "failed")
  /\ UNCHANGED <<linkVars, deadline, got, events, server, grace>>

(* time.Now().Add(5 * time.Second), before the deadline is set to it.       *)
ReadClock(c) ==
  /\ pc[c] = "clock"
  /\ owed' = [owed EXCEPT ![c] = ReadTicks]
  /\ Goto(c, "arm")
  /\ UNCHANGED <<linkVars, deadline, overtaken, got, events, server, grace>>

(* The one deadline of the socket, also for the reads that are under way.   *)
Arm(n) ==
  /\ deadline' = n
  /\ overtaken' = overtaken \cup {d \in Calls : pc[d] = "read" /\ n < owed[d]}

(* Mutant: a deadline that is running is left alone.                        *)
ArmUnlessArmed(c) ==
  /\ pc[c] = "arm"
  /\ IF deadline = 0 THEN Arm(owed[c]) ELSE UNCHANGED <<deadline, overtaken>>
  /\ Goto(c, "read")
  /\ UNCHANGED <<linkVars, owed, got, events, server, grace>>

(* SetReadDeadline with the time computed before, of which some may have    *)
(* passed: a goroutine that was held up moves the deadline back.            *)
SetReadDeadline(c) ==
  /\ pc[c] = "arm"
  /\ Arm(owed[c])
  /\ Goto(c, "read")
  /\ UNCHANGED <<linkVars, owed, got, events, server, grace>>

(* A call that is not told apart sets the deadline, soon or late after it   *)
(* read the clock. It matters while some call waits on it: the next one     *)
(* sets the deadline again before it reads.                                 *)
OtherCallArms ==
  /\ server # "exited"
  /\ \E c \in Calls : pc[c] = "read"
  /\ \E n \in 0 .. ReadTicks : Arm(n)
  /\ UNCHANGED <<linkVars, pc, owed, got, events, server, grace>>

(* Any datagram will do, and an establishment response of any call is taken *)
(* for success. A read under way may still win against the timer.           *)
Read(c) ==
  /\ pc[c] = "read"
  /\ \E a \in toSmf :
       /\ toSmf' = toSmf \ {a}
       /\ got' = [got EXCEPT ![c] = {a}]
       /\ Return(c, IF a.kind = "establish" THEN "respond" ELSE "failed")
  /\ UNCHANGED <<toUpf, sent, deadline, events, server, grace>>

(* Mutant: a call that times out tries again, without a limit.              *)
RetryOnTimeout(c) ==
  /\ pc[c] = "read"
  /\ deadline = 0
  /\ Return(c, "write")
  /\ UNCHANGED <<linkVars, deadline, got, events, server, grace>>

(* The socket's deadline has passed: 500. *)
ReadTimeout(c) ==
  /\ pc[c] = "read"
  /\ deadline = 0
  /\ Return(c, "timedout")
  /\ UNCHANGED <<linkVars, deadline, got, events, server, grace>>

Respond200(c) ==
  /\ pc[c] = "respond"
  /\ Goto(c, "publish")
  /\ UNCHANGED <<linkVars, deadline, owed, overtaken, got, events, server, grace>>

(* Fire and forget: the error of nc.Publish is dropped. *)
PublishPFCPCreated(c) ==
  /\ pc[c] = "publish"
  /\ \E out \in SUBSET {PFCPCreated(c)} : events' = events \cup out
  /\ Goto(c, "done")
  /\ UNCHANGED <<linkVars, deadline, owed, overtaken, got, server, grace>>

(* What the handler of a call does when nothing goes wrong below it. *)
HandlerStep(c) ==
  \/ Write(c)
  \/ ReadClock(c)
  \/ SetReadDeadline(c)
  \/ Read(c)
  \/ ReadTimeout(c)
  \/ Respond200(c)
  \/ PublishPFCPCreated(c)

(* SIGINT or SIGTERM: no new call is taken, and the grace period starts. *)
Shutdown ==
  /\ server = "serving"
  /\ server' = "draining"
  /\ UNCHANGED <<linkVars, pc, deadline, owed, overtaken, got, events, grace>>

(* server.Shutdown returns, and with main every handler still running ends. *)
Exit ==
  /\ server = "draining"
  /\ grace = 0 \/ \A c \in Calls : ~Active(c)
  /\ server' = "exited"
  /\ pc' = [c \in Calls |-> IF Active(c) THEN "cut" ELSE pc[c]]
  /\ UNCHANGED <<linkVars, deadline, owed, overtaken, got, events, grace>>

Dec(n) == IF n > 0 THEN n - 1 ELSE 0

(* A tick of the clock, while some timer is running. *)
Tick ==
  /\ server # "exited"
  /\ \/ deadline > 0
     \/ \E c \in Calls : owed[c] > 0
     \/ server = "draining" /\ grace > 0
  /\ deadline' = Dec(deadline)
  /\ owed' = [c \in Calls |-> Dec(owed[c])]
  /\ grace' = IF server = "draining" THEN Dec(grace) ELSE grace
  /\ UNCHANGED <<linkVars, pc, overtaken, got, events, server>>

SmfStep ==
  \/ \E c \in Calls : Arrive(c) \/ HandlerStep(c) \/ SocketError(c)
  \/ OtherCallArms
  \/ Shutdown \/ Exit \/ Tick
=============================================================================
