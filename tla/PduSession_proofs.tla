-------------------------- MODULE PduSession_proofs -------------------------
(***************************************************************************)
(* Theorems about session set-up, for any number of concurrent calls, any   *)
(* length of the time-outs and any number of UPF restarts.                  *)
(***************************************************************************)
EXTENDS PduSession, TLAPS

(* The steps of the whole system, named one by one: every proof that a      *)
(* formula is preserved goes through this list.                             *)
LEMMA PduSteps ==
  ASSUME [PduNext]_pduVars
  PROVE  \/ \E c \in Calls : Arrive(c) /\ UNCHANGED serverVars
         \/ \E c \in Calls : Write(c) /\ UNCHANGED serverVars
         \/ \E c \in Calls : SocketError(c) /\ UNCHANGED serverVars
         \/ \E c \in Calls : ReadClock(c) /\ UNCHANGED serverVars
         \/ \E c \in Calls : SetReadDeadline(c) /\ UNCHANGED serverVars
         \/ OtherCallArms /\ UNCHANGED serverVars
         \/ \E c \in Calls : Read(c) /\ UNCHANGED serverVars
         \/ \E c \in Calls : ReadTimeout(c) /\ UNCHANGED serverVars
         \/ \E c \in Calls : Respond200(c) /\ UNCHANGED serverVars
         \/ \E c \in Calls : PublishPFCPCreated(c) /\ UNCHANGED serverVars
         \/ Shutdown /\ UNCHANGED serverVars
         \/ Exit /\ UNCHANGED serverVars
         \/ Tick /\ UNCHANGED serverVars
         \/ \E q \in toUpf : ReadFromUDP(q) /\ UNCHANGED smfVars
         \/ \E q \in spawned : HandlePFCP(q) /\ UNCHANGED smfVars
         \/ \E q \in replying : SendPFCP(q) /\ UNCHANGED smfVars
         \/ Close /\ UNCHANGED smfVars
         \/ Restart /\ UNCHANGED smfVars
         \/ LoseRequest /\ UNCHANGED <<smfVars, serverVars>>
         \/ LoseAnswer /\ UNCHANGED <<smfVars, serverVars>>
         \/ UNCHANGED pduVars
BY DEF PduNext, SmfStep, HandlerStep, UpfStep, ServePFCP, Goroutine
-----------------------------------------------------------------------------
(* Every step keeps the type of what is on the wire.                        *)
LEMMA LinkTypeStep == PduTypeOK /\ [PduNext]_pduVars => LinkTypeOK'
<1> SUFFICES ASSUME PduTypeOK, [PduNext]_pduVars PROVE LinkTypeOK'
    OBVIOUS
<1> USE DEF PduTypeOK, LinkTypeOK, ServerTypeOK, linkVars
<1>1. ASSUME NEW c \in Calls, Write(c) PROVE LinkTypeOK'
  BY <1>1, SmfAssumption DEF Write, Send, Establishment, Request, Kinds, Calls
<1>2. ASSUME UNCHANGED linkVars PROVE LinkTypeOK'
  BY <1>2
<1>3. ASSUME NEW c \in Calls, Read(c) PROVE LinkTypeOK'
  BY <1>3 DEF Read
<1>4. ASSUME NEW q \in toUpf, ReadFromUDP(q) PROVE LinkTypeOK'
  BY <1>4 DEF ReadFromUDP
<1>5. ASSUME NEW q \in spawned, HandlePFCP(q) PROVE LinkTypeOK'
  BY <1>5 DEF HandlePFCP, HandleEstablishment, HandleModification,
              ModificationNotFound, HandleDeletion, HandleNodeMessage, Answers
<1>6. ASSUME NEW q \in replying, SendPFCP(q) PROVE LinkTypeOK'
  BY <1>6 DEF SendPFCP
<1>7. ASSUME LoseRequest \/ LoseAnswer PROVE LinkTypeOK'
  BY <1>7 DEF LoseRequest, LoseAnswer
<1> QED
  BY PduSteps, <1>1, <1>2, <1>3, <1>4, <1>5, <1>6, <1>7
     DEF Arrive, SocketError, ReadClock, SetReadDeadline, OtherCallArms, ReadTimeout, Respond200,
         PublishPFCPCreated, Shutdown, Exit, Tick, Close, Restart, pduVars

(* Every step keeps the type of the SMF's variables.                        *)
LEMMA SmfTypeStep == PduTypeOK /\ [PduNext]_pduVars => SmfTypeOK'
<1> SUFFICES ASSUME PduTypeOK, [PduNext]_pduVars PROVE SmfTypeOK'
    OBVIOUS
<1> USE SmfAssumption DEF PduTypeOK, LinkTypeOK, SmfTypeOK, InHandler, Answered, Goto, Return, Arm
<1>1. ASSUME NEW c \in Calls, Arrive(c) PROVE SmfTypeOK'
  BY <1>1 DEF Arrive
<1>2. ASSUME NEW c \in Calls, Write(c) PROVE SmfTypeOK'
  BY <1>2 DEF Write
<1>3. ASSUME NEW c \in Calls, SocketError(c) PROVE SmfTypeOK'
  BY <1>3 DEF SocketError
<1>4. ASSUME NEW c \in Calls, ReadClock(c) \/ SetReadDeadline(c) PROVE SmfTypeOK'
  BY <1>4 DEF ReadClock, SetReadDeadline
<1>13. ASSUME OtherCallArms PROVE SmfTypeOK'
  BY <1>13 DEF OtherCallArms
<1>5. ASSUME NEW c \in Calls, Read(c) PROVE SmfTypeOK'
  BY <1>5 DEF Read
<1>6. ASSUME NEW c \in Calls, ReadTimeout(c) PROVE SmfTypeOK'
  BY <1>6 DEF ReadTimeout
<1>7. ASSUME NEW c \in Calls, Respond200(c) PROVE SmfTypeOK'
  BY <1>7 DEF Respond200
<1>8. ASSUME NEW c \in Calls, PublishPFCPCreated(c) PROVE SmfTypeOK'
  BY <1>8 DEF PublishPFCPCreated
<1>9. ASSUME Shutdown PROVE SmfTypeOK'
  BY <1>9 DEF Shutdown
<1>10. ASSUME Exit PROVE SmfTypeOK'
  BY <1>10 DEF Exit, Active
<1>11. ASSUME Tick PROVE SmfTypeOK'
  BY <1>11 DEF Tick, Dec
<1>12. ASSUME UNCHANGED smfVars PROVE SmfTypeOK'
  BY <1>12 DEF smfVars
<1> QED
  BY PduSteps, <1>1, <1>2, <1>3, <1>4, <1>5, <1>6, <1>7, <1>8, <1>9, <1>10,
     <1>11, <1>12, <1>13
     DEF pduVars

(* Every step keeps the type of the UPF's variables.                        *)
LEMMA ServerTypeStep == PduTypeOK /\ [PduNext]_pduVars => ServerTypeOK'
<1> SUFFICES ASSUME PduTypeOK, [PduNext]_pduVars PROVE ServerTypeOK'
    OBVIOUS
<1> USE UpfAssumption DEF PduTypeOK, LinkTypeOK, ServerTypeOK
<1>1. ASSUME NEW q \in toUpf, ReadFromUDP(q) PROVE ServerTypeOK'
  BY <1>1 DEF ReadFromUDP
<1>2. ASSUME NEW q \in spawned, HandlePFCP(q) PROVE ServerTypeOK'
  <2> USE DEF Answers, Request, Session
  <2>1. CASE HandleEstablishment(q)  BY <2>1 DEF HandleEstablishment
  <2>2. CASE HandleModification(q)   BY <2>2 DEF HandleModification
  <2>3. CASE ModificationNotFound(q) BY <2>3 DEF ModificationNotFound
  <2>4. CASE HandleDeletion(q)       BY <2>4 DEF HandleDeletion
  <2>5. CASE HandleNodeMessage(q)    BY <2>5 DEF HandleNodeMessage
  <2> QED BY <1>2, <2>1, <2>2, <2>3, <2>4, <2>5 DEF HandlePFCP
<1>3. ASSUME NEW q \in replying, SendPFCP(q) PROVE ServerTypeOK'
  BY <1>3 DEF SendPFCP
<1>4. ASSUME Close PROVE ServerTypeOK'
  BY <1>4 DEF Close
<1>5. ASSUME Restart PROVE ServerTypeOK'
  BY <1>5 DEF Restart
<1>6. ASSUME UNCHANGED serverVars PROVE ServerTypeOK'
  BY <1>6 DEF serverVars
<1> QED
  BY PduSteps, <1>1, <1>2, <1>3, <1>4, <1>5, <1>6 DEF pduVars

(* Every variable keeps its type. *)
THEOREM PduTypeCorrect == PduSpec => []PduTypeOK
<1>1. PduInit => PduTypeOK
  BY SmfAssumption, UpfAssumption
     DEF PduInit, LinkInit, SmfInit, ServerInit, PduTypeOK, LinkTypeOK, SmfTypeOK,
         ServerTypeOK
<1>2. PduTypeOK /\ [PduNext]_pduVars => PduTypeOK'
  BY LinkTypeStep, SmfTypeStep, ServerTypeStep DEF PduTypeOK
<1> QED
  BY <1>1, <1>2, PTL DEF PduSpec
-----------------------------------------------------------------------------
(* The socket's deadline does not pass before the time that a call which    *)
(* waits computed, unless it was moved back since the call set it.          *)
TimerInv == \A c \in Calls : pc[c] = "read" => owed[c] <= deadline \/ c \in overtaken

(* What one setting of the deadline does to the calls that wait.            *)
LEMMA ArmStep ==
  ASSUME PduTypeOK, TimerInv, NEW n \in 0 .. ReadTicks, Arm(n), UNCHANGED owed
  PROVE  \A c \in Calls : pc[c] = "read" => owed'[c] <= deadline' \/ c \in overtaken'
BY DEF PduTypeOK, SmfTypeOK, Arm, TimerInv

LEMMA TimerStep == PduTypeOK /\ TimerInv /\ [PduNext]_pduVars => TimerInv'
<1> SUFFICES ASSUME PduTypeOK, TimerInv, [PduNext]_pduVars PROVE TimerInv'
    OBVIOUS
<1> USE SmfAssumption DEF PduTypeOK, SmfTypeOK, TimerInv, Goto, Return
<1>1. ASSUME NEW c \in Calls, Arrive(c) PROVE TimerInv'
  BY <1>1 DEF Arrive
<1>2. ASSUME NEW c \in Calls, Write(c) PROVE TimerInv'
  BY <1>2 DEF Write
<1>3. ASSUME NEW c \in Calls, SocketError(c) PROVE TimerInv'
  BY <1>3 DEF SocketError
<1>4. ASSUME NEW c \in Calls, ReadClock(c) PROVE TimerInv'
  BY <1>4 DEF ReadClock
<1>5. ASSUME NEW c \in Calls, SetReadDeadline(c) PROVE TimerInv'
  <2>1. PICK n \in 0 .. ReadTicks : n = owed[c]
    OBVIOUS
  <2>2. Arm(n) /\ UNCHANGED owed /\ deadline' = n /\ owed[c] <= n
    BY <1>5, <2>1 DEF SetReadDeadline, Arm
  <2>3. \A d \in Calls : pc'[d] = "read" => d = c \/ pc[d] = "read"
    BY <1>5 DEF SetReadDeadline
  <2> QED BY <2>2, <2>3, ArmStep
<1>6. ASSUME NEW c \in Calls, Read(c) PROVE TimerInv'
  BY <1>6 DEF Read
<1>7. ASSUME NEW c \in Calls, ReadTimeout(c) PROVE TimerInv'
  BY <1>7 DEF ReadTimeout
<1>8. ASSUME NEW c \in Calls, Respond200(c) PROVE TimerInv'
  BY <1>8 DEF Respond200
<1>9. ASSUME NEW c \in Calls, PublishPFCPCreated(c) PROVE TimerInv'
  BY <1>9 DEF PublishPFCPCreated
<1>10. ASSUME Exit PROVE TimerInv'
  BY <1>10 DEF Exit, Active, InHandler
<1>11. ASSUME Tick PROVE TimerInv'
  BY <1>11 DEF Tick, Dec
<1>12. ASSUME OtherCallArms PROVE TimerInv'
  BY <1>12, ArmStep DEF OtherCallArms
<1>13. ASSUME UNCHANGED <<pc, deadline, owed, overtaken>> PROVE TimerInv'
  BY <1>13
<1> QED
  BY PduSteps, <1>1, <1>2, <1>3, <1>4, <1>5, <1>6, <1>7, <1>8, <1>9, <1>10, <1>11,
     <1>12, <1>13
     DEF Shutdown, smfVars, pduVars

(* NoEarlyTimeout: no call reports a time-out before the 5 seconds it asked *)
(* for are over, unless a call that read the clock before it set the        *)
(* deadline after it (smf/main.go:101).                                     *)
THEOREM EarlyIfOvertaken == PduSpec => NoEarlyTimeout
<1> DEFINE Early(c) == pc[c] = "read" /\ pc'[c] = "timedout"
<1>1. PduInit => TimerInv
  BY DEF PduInit, SmfInit, TimerInv
<1>2. PduTypeOK /\ TimerInv /\ [PduNext]_pduVars
        => [\A c \in Calls : Early(c) => owed[c] = 0 \/ c \in overtaken]_pduVars
  <2> SUFFICES ASSUME PduTypeOK, TimerInv, [PduNext]_pduVars, NEW c \in Calls, Early(c)
               PROVE  owed[c] = 0 \/ c \in overtaken
      OBVIOUS
  <2>1. deadline = 0
    BY PduSteps
       DEF PduTypeOK, SmfTypeOK, Arrive, Write, SocketError, ReadClock, SetReadDeadline,
           OtherCallArms, Read, ReadTimeout, Respond200, PublishPFCPCreated, Shutdown, Exit,
           Tick, Goto, Return, smfVars, pduVars
  <2> QED BY <2>1 DEF PduTypeOK, SmfTypeOK, TimerInv
<1> QED
  BY <1>1, <1>2, TimerStep, PduTypeCorrect, PTL DEF PduSpec, NoEarlyTimeout
-----------------------------------------------------------------------------
(* Where the answers to establishments are: about to be sent, on the wire,  *)
(* or read by a call.                                                       *)
AnswerExists ==
  \/ replying # {} \/ toSmf # {}
  \/ \E c \in Calls : got[c] # {}

OnlyEstablishments ==
  \A q \in toUpf \cup spawned : q.kind = "establish" /\ q.seid = SmfSeid

(* As long as the UPF has not been restarted, an answer anywhere means that *)
(* the session is there: it was written before the answer was sent, and no  *)
(* request of the SMF removes it.                                           *)
BackedInv ==
  /\ OnlyEstablishments
  /\ restarts = 0 /\ AnswerExists => sessions[SmfSeid] # NoSession
  /\ \A c \in Calls : Accepted(c) \/ pc[c] = "respond" => got[c] # {}

(* A step of the SMF keeps BackedInv: it installs and removes nothing.      *)
LEMMA BackedSmfStep ==
  ASSUME PduTypeOK, BackedInv, SmfStep, UNCHANGED serverVars
  PROVE  BackedInv'
<1> USE DEF PduTypeOK, LinkTypeOK, SmfTypeOK, BackedInv, OnlyEstablishments,
            AnswerExists, Accepted, Goto, Return, linkVars, serverVars
<1>1. ASSUME NEW c \in Calls, Arrive(c) PROVE BackedInv'
  BY <1>1 DEF Arrive
<1>2. ASSUME NEW c \in Calls, Write(c) PROVE BackedInv'
  BY <1>2 DEF Write, Send, Establishment
<1>3. ASSUME NEW c \in Calls, SocketError(c) PROVE BackedInv'
  BY <1>3 DEF SocketError
<1>4. ASSUME NEW c \in Calls, ReadClock(c) \/ SetReadDeadline(c) PROVE BackedInv'
  BY <1>4 DEF ReadClock, SetReadDeadline, Arm
<1>13. ASSUME OtherCallArms PROVE BackedInv'
  BY <1>13 DEF OtherCallArms, Arm
<1>5. ASSUME NEW c \in Calls, Read(c) PROVE BackedInv'
  BY <1>5 DEF Read
<1>6. ASSUME NEW c \in Calls, ReadTimeout(c) PROVE BackedInv'
  BY <1>6 DEF ReadTimeout
<1>7. ASSUME NEW c \in Calls, Respond200(c) PROVE BackedInv'
  BY <1>7 DEF Respond200
<1>8. ASSUME NEW c \in Calls, PublishPFCPCreated(c) PROVE BackedInv'
  BY <1>8 DEF PublishPFCPCreated
<1>9. ASSUME Exit PROVE BackedInv'
  BY <1>9 DEF Exit
<1>10. ASSUME Shutdown \/ Tick PROVE BackedInv'
  BY <1>10 DEF Shutdown, Tick
<1> QED
  BY <1>1, <1>2, <1>3, <1>4, <1>5, <1>6, <1>7, <1>8, <1>9, <1>10, <1>13
     DEF SmfStep, HandlerStep

(* A step of the UPF keeps BackedInv: it answers what it has installed.     *)
LEMMA BackedUpfStep ==
  ASSUME PduTypeOK, BackedInv, UpfStep, UNCHANGED smfVars
  PROVE  BackedInv'
<1> USE UpfAssumption DEF PduTypeOK, LinkTypeOK, ServerTypeOK, BackedInv,
        OnlyEstablishments, AnswerExists, Accepted, linkVars, smfVars
<1>1. ASSUME NEW q \in toUpf, ReadFromUDP(q) PROVE BackedInv'
  BY <1>1 DEF ReadFromUDP
<1>2. ASSUME NEW q \in spawned, HandlePFCP(q) PROVE BackedInv'
  <2>1. HandleEstablishment(q) /\ q.seid = SmfSeid
    BY <1>2 DEF HandlePFCP, HandleModification, ModificationNotFound,
                HandleDeletion, HandleNodeMessage
  <2>2. sessions'[SmfSeid] # NoSession
    BY <2>1, SmfAssumption DEF HandleEstablishment, Request, Session
  <2> QED BY <2>1, <2>2 DEF HandleEstablishment, Answers
<1>3. ASSUME NEW q \in replying, SendPFCP(q) PROVE BackedInv'
  BY <1>3 DEF SendPFCP
<1>4. ASSUME Close PROVE BackedInv'
  BY <1>4 DEF Close
<1>5. ASSUME Restart PROVE BackedInv'
  BY <1>5 DEF Restart
<1> QED
  BY <1>1, <1>2, <1>3, <1>4, <1>5 DEF UpfStep, ServePFCP, Goroutine

(* BackedInv holds throughout; what the network loses does not matter.      *)
LEMMA BackedInvariant == PduSpec => []BackedInv
<1>1. PduInit => BackedInv
  BY DEF PduInit, LinkInit, SmfInit, ServerInit, BackedInv, OnlyEstablishments,
         AnswerExists, Accepted
<1>2. PduTypeOK /\ BackedInv /\ [PduNext]_pduVars => BackedInv'
  <2> SUFFICES ASSUME PduTypeOK, BackedInv, [PduNext]_pduVars PROVE BackedInv'
      OBVIOUS
  <2>1. ASSUME LoseRequest \/ LoseAnswer, UNCHANGED <<smfVars, serverVars>>
        PROVE BackedInv'
    BY <2>1 DEF LoseRequest, LoseAnswer, smfVars, serverVars, BackedInv,
                OnlyEstablishments, AnswerExists, Accepted
  <2>2. ASSUME UNCHANGED pduVars PROVE BackedInv'
    BY <2>2 DEF pduVars, linkVars, smfVars, serverVars, BackedInv,
                OnlyEstablishments, AnswerExists, Accepted
  <2> QED BY BackedSmfStep, BackedUpfStep, <2>1, <2>2 DEF PduNext
<1> QED
  BY <1>1, <1>2, PduTypeCorrect, PTL DEF PduSpec

(* A call answered 200 has a session in the UPF, unless it was restarted    *)
(* (smf/main.go:110-115, upf.go:255-262).                                   *)
THEOREM AcceptedHasSession == PduSpec => []AcceptedIsBacked
<1>1. BackedInv => AcceptedIsBacked
  BY DEF BackedInv, AcceptedIsBacked, AnswerExists
<1> QED
  BY <1>1, BackedInvariant, PTL
-----------------------------------------------------------------------------
(* A request is in one place at a time: on its way to the UPF, in the hands *)
(* of its goroutine before or after the critical section, answered and on   *)
(* the way back, or read by a call. It enters at the first place when it is *)
(* written, only once, and never goes back to an earlier one.               *)
InTransit == toUpf \cup spawned \cup replying \cup toSmf

OnePlace ==
  /\ toUpf \cap (spawned \cup replying \cup toSmf) = {}
  /\ spawned \cap (replying \cup toSmf) = {}
  /\ replying \cap toSmf = {}
  /\ \A c \in Calls : got[c] \cap InTransit = {}

LifeInv ==
  /\ \A c \in Calls : pc[c] \in {"new", "write"} => Establishment(c) \notin sent
  /\ InTransit \subseteq sent
  /\ \A c \in Calls : got[c] \subseteq sent
  /\ OnePlace
  /\ OneAnswerPerCall

(* A step of the SMF keeps LifeInv: it reads an answer only once.           *)
LEMMA LifeSmfStep ==
  ASSUME PduTypeOK, LifeInv, SmfStep, UNCHANGED serverVars
  PROVE  LifeInv'
<1> USE DEF PduTypeOK, LinkTypeOK, SmfTypeOK, LifeInv, InTransit, OnePlace,
            OneAnswerPerCall, Goto, Return, linkVars, serverVars
<1>1. ASSUME NEW c \in Calls, Arrive(c) PROVE LifeInv'
  BY <1>1 DEF Arrive
<1>2. ASSUME NEW c \in Calls, Write(c) PROVE LifeInv'
  <2> DEFINE q == Establishment(c)
  <2>1. q \notin sent /\ toUpf' = toUpf \cup {q} /\ sent' = sent \cup {q}
    BY <1>2 DEF Write, Send
  <2>2. UNCHANGED <<toSmf, got, spawned, replying>>
    BY <1>2 DEF Write, Send
  <2>3. \A d \in Calls \ {c} : Establishment(d) # q
    BY DEF Establishment
  <2>4. \A d \in Calls : pc'[d] \in {"new", "write"} => d # c /\ pc[d] = pc'[d]
    BY <1>2 DEF Write
  <2>5. \A d \in Calls : pc'[d] \in {"new", "write"} => Establishment(d) \notin sent'
    BY <2>1, <2>3, <2>4
  <2>6. OnePlace'
    BY <2>1, <2>2
  <2> QED BY <2>1, <2>2, <2>5, <2>6
<1>3. ASSUME NEW c \in Calls, SocketError(c) PROVE LifeInv'
  BY <1>3 DEF SocketError
<1>4. ASSUME NEW c \in Calls, ReadClock(c) \/ SetReadDeadline(c) PROVE LifeInv'
  BY <1>4 DEF ReadClock, SetReadDeadline, Arm
<1>13. ASSUME OtherCallArms PROVE LifeInv'
  BY <1>13 DEF OtherCallArms, Arm
<1>5. ASSUME NEW c \in Calls, Read(c) PROVE LifeInv'
  <2>1. PICK a \in toSmf : toSmf' = toSmf \ {a} /\ got' = [got EXCEPT ![c] = {a}]
    BY <1>5 DEF Read
  <2>2. UNCHANGED <<toUpf, spawned, replying, sent>>
    BY <1>5 DEF Read
  <2>3. \A d \in Calls : pc'[d] \in {"new", "write"} => pc[d] = pc'[d]
    BY <1>5 DEF Read
  <2>4. \A d \in Calls : IF d = c THEN got'[d] = {a} ELSE got'[d] = got[d]
    BY <2>1
  <2>5. OnePlace'
    BY <2>1, <2>2, <2>4
  <2>6. OneAnswerPerCall'
    BY <2>4
  <2> QED BY <2>1, <2>2, <2>3, <2>4, <2>5, <2>6
<1>6. ASSUME NEW c \in Calls, ReadTimeout(c) PROVE LifeInv'
  BY <1>6 DEF ReadTimeout
<1>7. ASSUME NEW c \in Calls, Respond200(c) PROVE LifeInv'
  BY <1>7 DEF Respond200
<1>8. ASSUME NEW c \in Calls, PublishPFCPCreated(c) PROVE LifeInv'
  BY <1>8 DEF PublishPFCPCreated
<1>9. ASSUME Exit PROVE LifeInv'
  BY <1>9 DEF Exit
<1>10. ASSUME Shutdown \/ Tick PROVE LifeInv'
  BY <1>10 DEF Shutdown, Tick
<1> QED
  BY <1>1, <1>2, <1>3, <1>4, <1>5, <1>6, <1>7, <1>8, <1>9, <1>10, <1>13
     DEF SmfStep, HandlerStep

(* A step of the UPF keeps LifeInv: a request is in one place only.         *)
LEMMA LifeUpfStep ==
  ASSUME PduTypeOK, LifeInv, UpfStep, UNCHANGED smfVars
  PROVE  LifeInv'
<1> USE DEF LifeInv, InTransit, OnePlace, OneAnswerPerCall, linkVars, smfVars
<1>1. ASSUME NEW q \in toUpf, ReadFromUDP(q) PROVE LifeInv'
  BY <1>1 DEF ReadFromUDP
<1>2. ASSUME NEW q \in spawned, HandlePFCP(q) PROVE LifeInv'
  <2>1. /\ spawned' = spawned \ {q}
        /\ replying' = replying \cup {q} \/ replying' = replying
        /\ UNCHANGED linkVars
    BY <1>2 DEF HandlePFCP, HandleEstablishment, HandleModification,
                ModificationNotFound, HandleDeletion, HandleNodeMessage, Answers
  <2> QED BY <2>1
<1>3. ASSUME NEW q \in replying, SendPFCP(q) PROVE LifeInv'
  BY <1>3 DEF SendPFCP
<1>4. ASSUME Close \/ Restart PROVE LifeInv'
  BY <1>4 DEF Close, Restart
<1> QED
  BY <1>1, <1>2, <1>3, <1>4 DEF UpfStep, ServePFCP, Goroutine

(* LifeInv holds throughout: a lost datagram is in no place at all.         *)
LEMMA LifeInvariant == PduSpec => []LifeInv
<1>1. PduInit => LifeInv
  BY DEF PduInit, LinkInit, SmfInit, ServerInit, LifeInv, InTransit, OnePlace,
         OneAnswerPerCall
<1>2. PduTypeOK /\ LifeInv /\ [PduNext]_pduVars => LifeInv'
  <2> SUFFICES ASSUME PduTypeOK, LifeInv, [PduNext]_pduVars PROVE LifeInv'
      OBVIOUS
  <2> USE DEF LifeInv, InTransit, OnePlace, OneAnswerPerCall, smfVars, serverVars
  <2>1. ASSUME LoseRequest \/ LoseAnswer, UNCHANGED <<smfVars, serverVars>>
        PROVE LifeInv'
    BY <2>1 DEF LoseRequest, LoseAnswer
  <2>2. ASSUME UNCHANGED pduVars PROVE LifeInv'
    BY <2>2 DEF pduVars, linkVars
  <2> QED BY LifeSmfStep, LifeUpfStep, <2>1, <2>2 DEF PduNext
<1> QED
  BY <1>1, <1>2, PduTypeCorrect, PTL DEF PduSpec

(* No answer of the UPF makes two calls succeed, however many of them read  *)
(* the one socket (smf/main.go:103-115).                                    *)
THEOREM AnswersAreNotShared == PduSpec => []OneAnswerPerCall
<1>1. LifeInv => OneAnswerPerCall
  BY DEF LifeInv
<1> QED
  BY <1>1, LifeInvariant, PTL
-----------------------------------------------------------------------------
(* SMF, UPF and network together implement the abstract session table: of   *)
(* the SMF's steps only the write to the socket and the read from it show,  *)
(* as a submission and as an answer taken; of the UPF's, the critical       *)
(* section is the step of the table (smf/main.go:81-115, upf.go:237-263).   *)
THEOREM PduImplementsTable == PduSpec => ImplementsTable
<1>1. PduInit => Table!TableInit
  BY DEF PduInit, LinkInit, ServerInit, Table!TableInit
<1>2. PduTypeOK /\ LifeInv /\ BackedInv /\ [PduNext]_pduVars
        => [Table!TableNext]_Table!tableVars
  <2> SUFFICES ASSUME PduTypeOK, LifeInv, BackedInv, [PduNext]_pduVars
               PROVE  Table!TableNext \/ UNCHANGED Table!tableVars
      OBVIOUS
  <2> USE DEF PduTypeOK, LinkTypeOK, ServerTypeOK, LifeInv, OnePlace, InTransit, linkVars,
              serverVars, Table!tableVars
  <2>1. ASSUME NEW c \in Calls, Write(c), UNCHANGED serverVars PROVE Table!TableNext
    <3> DEFINE q == Establishment(c)
    <3>1. q \notin sent /\ q \in Request
      BY <2>1, SmfAssumption DEF Write, Establishment, Request, Kinds, Calls
    <3>2. Table!Submit(q)
      BY <2>1, <3>1 DEF Write, Send, Table!Submit
    <3> QED BY <3>1, <3>2 DEF Table!TableNext
  <2>2. ASSUME NEW c \in Calls, Read(c), UNCHANGED serverVars PROVE Table!Vanish
    BY <2>2 DEF Read, Table!Vanish
  <2>3. ASSUME UNCHANGED linkVars, UNCHANGED serverVars PROVE UNCHANGED Table!tableVars
    BY <2>3
  <2>4. ASSUME NEW q \in toUpf, ReadFromUDP(q) PROVE UNCHANGED Table!tableVars
    BY <2>4 DEF ReadFromUDP
  <2>5. ASSUME NEW q \in spawned, HandlePFCP(q) PROVE Table!TableNext
    <3>1. q.kind = "establish" /\ q \in Request
      BY DEF BackedInv, OnlyEstablishments
    <3>2. HandleEstablishment(q)
      BY <2>5, <3>1 DEF HandlePFCP, HandleModification, ModificationNotFound,
                        HandleDeletion, HandleNodeMessage
    <3>3. Table!Apply(q)
      BY <3>1, <3>2 DEF HandleEstablishment, Answers, Table!Apply, Table!Applicable,
                        Table!Effect
    <3> QED BY <3>3 DEF Table!TableNext
  <2>6. ASSUME NEW q \in replying, SendPFCP(q)
        PROVE Table!Vanish \/ UNCHANGED Table!tableVars
    <3>1. CASE conn = "open"
      BY <2>6, <3>1 DEF SendPFCP
    <3>2. CASE conn # "open"
      BY <2>6, <3>2 DEF SendPFCP, Table!Vanish
    <3> QED BY <3>1, <3>2
  <2>7. ASSUME Close PROVE UNCHANGED Table!tableVars
    BY <2>7 DEF Close
  <2>8. ASSUME Restart PROVE Table!Reset
    BY <2>8 DEF Restart, Table!Reset
  <2>9. ASSUME LoseRequest \/ LoseAnswer, UNCHANGED serverVars PROVE Table!Vanish
    BY <2>9 DEF LoseRequest, LoseAnswer, Table!Vanish
  <2> QED
    BY PduSteps, <2>1, <2>2, <2>3, <2>4, <2>5, <2>6, <2>7, <2>8, <2>9
       DEF Arrive, SocketError, ReadClock, SetReadDeadline, OtherCallArms, ReadTimeout, Respond200,
           PublishPFCPCreated, Shutdown, Exit, Tick, pduVars, Table!TableNext
<1> QED
  BY <1>1, <1>2, PduTypeCorrect, LifeInvariant, BackedInvariant, PTL
     DEF PduSpec, ImplementsTable, Table!TableSpec
=============================================================================
