--------------------------- MODULE ControlProofs ---------------------------
(***************************************************************************)
(* Theorems about Control, for any clients and any room on the socket.     *)
(***************************************************************************)
EXTENDS Control, FiniteSetTheorems, TLAPS

-----------------------------------------------------------------------------
(* What a client has seen of the daemon.                                   *)

\* Everybody at work has seen the daemon as it is now.
SeesNow(c) == Conditions \subseteq seen[c]

\* A client in a session talks to a process that is there, and that has been healthy while
\* it listened, since the command began, if its health says so.
SessionInv(c) == daemon # "dead" /\ (healthy => "ok" \in seen[c])

\* The answer of reconfigure waits for the event, unless no loop ran.
EventInv(c) == c \in queued \/ "away" \in seen[c]

\* What an answer rests on, by the command.
AnswerInv(c) ==
  /\ cmd[c] = "check" /\ resp[c] = "healthy" => "ok" \in seen[c]
  /\ cmd[c] = "reconfigure" => resp[c] \in {"unreachable", "closed"} \/ EventInv(c)

ControlInv ==
  /\ seen \in [Clients -> SUBSET {"ok", "bad", "away"}]
  /\ \A c \in Clients : st[c] # "idle" => SeesNow(c)
  /\ \A c \in InSession : SessionInv(c)
  /\ \A c \in Clients : st[c] = "queued" => EventInv(c)
  /\ \A c \in Clients : st[c] = "done" => AnswerInv(c)

-----------------------------------------------------------------------------
(* Types.                                                                  *)

\* Every step of a client, the server, the loop or the daemon keeps the types.
LEMMA StepKeepsType == TypeOK /\ [Next]_vars => TypeOK'
<1> SUFFICES ASSUME TypeOK, [Next]_vars PROVE TypeOK'
  OBVIOUS
<1> USE ControlAssumption
<1>1. ASSUME NEW c \in Clients, NEW k \in CmdNames, Run(c, k) PROVE TypeOK'
  BY <1>1 DEF TypeOK, Run, Moves, daemonVars, Places, CmdNames, Responses
<1>2. ASSUME NEW c \in Clients, Connect(c) PROVE TypeOK'
  BY <1>2 DEF TypeOK, Connect, Moves, Ends, daemonVars, Places, Responses
<1>3. ASSUME NEW c \in Clients, Ask(c) PROVE TypeOK'
  BY <1>3 DEF TypeOK, Ask, Moves, daemonVars, Places
<1>4. ASSUME NEW c \in Clients, Enqueue(c) PROVE TypeOK'
  BY <1>4 DEF TypeOK, Enqueue, Moves, SendWorks, Places
<1>5. ASSUME NEW c \in Clients, Answer(c) PROVE TypeOK'
  <2>1. PICK r \in Replies(c) : Ends(c, r)
    BY <1>5 DEF Answer
  <2>2. r \in Responses
    BY <1>5 DEF Answer, Replies, Responses, TypeOK, CmdNames
  <2>3. UNCHANGED <<daemonVars, cmd>> /\ cmd[c] # None
    BY <1>5 DEF Answer, TypeOK
  <2> QED
    BY <2>1, <2>2, <2>3 DEF TypeOK, Ends, daemonVars, Places
<1>6. ASSUME NEW c \in Clients, HangUp(c) PROVE TypeOK'
  BY <1>6 DEF TypeOK, HangUp, Ends, daemonVars, Places, Responses
<1>7. ASSUME NEW c \in Clients, Exited(c) PROVE TypeOK'
  BY <1>7 DEF TypeOK, Exited, daemonVars, Places
<1>8. CASE Serve
  BY <1>8 DEF TypeOK, Serve
<1>9. CASE Stops \/ RemovesSocket \/ RunReturns
  BY <1>9 DEF TypeOK, Stops, RemovesSocket, RunReturns
<1>10. CASE Dies
  BY <1>10 DEF TypeOK, Dies, InSession, Places, Responses
<1>11. CASE HealthFlips
  BY <1>11 DEF TypeOK, HealthFlips
<1>12. CASE TakeEvent
  BY <1>12 DEF TypeOK, TakeEvent, clientVars
<1>13. CASE UNCHANGED vars
  BY <1>13 DEF TypeOK, vars, daemonVars, clientVars
<1> QED
  BY <1>1, <1>2, <1>3, <1>4, <1>5, <1>6, <1>7, <1>8, <1>9, <1>10, <1>11, <1>12, <1>13 DEF Next

\* The control socket keeps the types of its state.
THEOREM TypeCorrect == Spec => []TypeOK
<1>1. Init => TypeOK
  BY ControlAssumption DEF Init, TypeOK, Places
<1> QED
  BY <1>1, StepKeepsType, PTL DEF Spec

-----------------------------------------------------------------------------
(* What the exit codes rest on.                                            *)

\* Of the replies of the server: a health only as it is, and never a failure of the call.
LEMMA RepliesAreReplies ==
  ASSUME TypeOK, NEW c \in Clients, cmd[c] # None, NEW r \in Replies(c)
  PROVE  /\ cmd[c] = "check" /\ r = "healthy" => healthy
         /\ cmd[c] = "reconfigure" => r = "ok"
<1>1. CASE cmd[c] \in {"status", "check"}
  BY <1>1 DEF Replies
<1>2. CASE cmd[c] = "reconfigure"
  BY <1>2 DEF Replies
<1>3. CASE cmd[c] = "raw"
  BY <1>3
<1> QED
  BY <1>1, <1>2, <1>3 DEF TypeOK, CmdNames

\* A step that leaves daemon, health and histories alone, and brings one client to where
\* its answer, its event or its session is accounted for, keeps the invariant.
LEMMA ClientKeepsInv ==
  ASSUME ControlInv, TypeOK, NEW c \in Clients, st[c] # "idle",
         NEW p \in Places \ {"idle"}, NEW r,
         UNCHANGED <<daemon, healthy, cmd, seen>>,
         st' = [st EXCEPT ![c] = p],
         resp' = [resp EXCEPT ![c] = r],
         queued \subseteq queued',
         p \in {"session", "asked", "queued"} => SessionInv(c),
         p = "queued" => EventInv(c)',
         p = "done" => AnswerInv(c)'
  PROVE  ControlInv'
<1>1. \A d \in Clients : d # c => st'[d] = st[d] /\ resp'[d] = resp[d]
  BY DEF TypeOK
<1>2. st'[c] = p
  BY DEF TypeOK
<1>3. \A d \in Clients : EventInv(d) => EventInv(d)'
  BY DEF EventInv
<1>4. (\A d \in Clients : st[d] # "idle" => SeesNow(d))'
  BY <1>1 DEF ControlInv, SeesNow, Conditions, Listening
<1>5. (\A d \in InSession : SessionInv(d))'
  BY <1>1, <1>2 DEF ControlInv, SessionInv, InSession
<1>6. (\A d \in Clients : st[d] = "queued" => EventInv(d))'
  BY <1>1, <1>2, <1>3 DEF ControlInv
<1>7. (\A d \in Clients : st[d] = "done" => AnswerInv(d))'
  BY <1>1, <1>2, <1>3 DEF ControlInv, AnswerInv
<1> QED
  BY <1>4, <1>5, <1>6, <1>7 DEF ControlInv

\* A step of the daemon that everybody at work notices, and that starts no session and
\* gives no answer but closes some, keeps the invariant.
LEMMA DaemonKeepsInv ==
  ASSUME ControlInv, TypeOK, TypeOK', Noticed,
         UNCHANGED <<cmd, queued>>,
         \A c \in Clients : \/ st'[c] = st[c] /\ resp'[c] = resp[c]
                            \/ c \in InSession /\ st'[c] = "done" /\ resp'[c] = "closed",
         \A c \in InSession' : daemon' # "dead" /\ (healthy' => healthy \/ Listening')
  PROVE  ControlInv'
<1>1. \A c \in Clients : st'[c] # "idle" => st[c] # "idle"
  BY DEF InSession
<1>2. \A c \in Clients : st[c] # "idle" => seen'[c] = seen[c] \cup Conditions'
  BY DEF Noticed
<1>3. \A c \in Clients : EventInv(c) /\ st[c] # "idle" => EventInv(c)'
  BY <1>2 DEF EventInv
<1>4. (\A c \in Clients : st[c] # "idle" => SeesNow(c))'
  BY <1>1, <1>2 DEF SeesNow
<1>5. \A c \in InSession' : c \in InSession
  BY DEF InSession
<1>6. (\A c \in InSession : SessionInv(c))'
  <2> SUFFICES ASSUME NEW c \in InSession' PROVE SessionInv(c)'
    OBVIOUS
  <2>1. c \in Clients /\ st[c] # "idle" /\ SessionInv(c)
    BY <1>5 DEF InSession, ControlInv
  <2>2. seen'[c] = seen[c] \cup Conditions'
    BY <1>2, <2>1
  <2>3. healthy' /\ Listening' => "ok" \in Conditions'
    BY DEF Conditions
  <2> QED
    BY <2>1, <2>2, <2>3 DEF SessionInv
<1>7. (\A c \in Clients : st[c] = "queued" => EventInv(c))'
  BY <1>3 DEF ControlInv
<1>8. (\A c \in Clients : st[c] = "done" => AnswerInv(c))'
  <2> SUFFICES ASSUME NEW c \in Clients, st'[c] = "done" PROVE AnswerInv(c)'
    OBVIOUS
  <2>1. CASE resp'[c] = "closed"
    BY <2>1 DEF AnswerInv
  <2>2. CASE st'[c] = st[c] /\ resp'[c] = resp[c]
    BY <2>2, <1>2, <1>3 DEF ControlInv, AnswerInv
  <2> QED
    BY <2>1, <2>2
<1>9. (seen \in [Clients -> SUBSET {"ok", "bad", "away"}])'
  BY DEF Noticed, ControlInv, Conditions
<1> QED
  BY <1>4, <1>6, <1>7, <1>8, <1>9 DEF ControlInv

\* No step of a client, the server, the loop or the daemon breaks what an answer rests on.
LEMMA StepKeepsInv == ControlInv /\ TypeOK /\ [Next]_vars => ControlInv'
<1> SUFFICES ASSUME ControlInv, TypeOK, [Next]_vars PROVE ControlInv'
  OBVIOUS
<1>0. TypeOK'
  BY StepKeepsType
<1>1. ASSUME NEW c \in Clients, NEW k \in CmdNames, Run(c, k) PROVE ControlInv'
  <2>1. /\ st'[c] = "connect"
        /\ \A d \in Clients : d # c => st'[d] = st[d] /\ cmd'[d] = cmd[d] /\ seen'[d] = seen[d]
        /\ seen'[c] = Conditions
        /\ seen' \in [Clients -> SUBSET {"ok", "bad", "away"}]
        /\ UNCHANGED <<daemon, healthy, resp, queued>>
    BY <1>1 DEF Run, Moves, TypeOK, ControlInv, daemonVars, Conditions
  <2>2. (\A d \in Clients : st[d] # "idle" => SeesNow(d))'
    BY <2>1 DEF ControlInv, SeesNow, Conditions, Listening
  <2>3. (\A d \in InSession : SessionInv(d))'
    BY <2>1 DEF ControlInv, InSession, SessionInv
  <2>4. (\A d \in Clients : st[d] = "queued" => EventInv(d))'
    BY <2>1 DEF ControlInv, EventInv
  <2>5. (\A d \in Clients : st[d] = "done" => AnswerInv(d))'
    BY <2>1 DEF ControlInv, EventInv, AnswerInv
  <2> QED
    BY <2>1, <2>2, <2>3, <2>4, <2>5 DEF ControlInv
<1>2. ASSUME NEW c \in Clients, Connect(c) PROVE ControlInv'
  <2> USE <1>2 DEF Connect, daemonVars
  <2>1. CASE Listening /\ Moves(c, "session")
    <3>1. SessionInv(c)
      BY <2>1 DEF ControlInv, SeesNow, Conditions, Listening, SessionInv
    <3>2. resp' = [resp EXCEPT ![c] = resp[c]]
      BY <2>1 DEF Moves, TypeOK
    <3> QED
      BY <2>1, <3>1, <3>2, ClientKeepsInv DEF Moves, Places
  <2>2. CASE \E r \in {"unreachable", "closed"} : Ends(c, r)
    <3>1. PICK r \in {"unreachable", "closed"} : Ends(c, r)
      BY <2>2
    <3>2. AnswerInv(c)'
      BY <3>1 DEF AnswerInv, Ends, TypeOK
    <3> QED
      BY <3>1, <3>2, ClientKeepsInv DEF Ends, Places
  <2> QED
    BY <2>1, <2>2
<1>3. ASSUME NEW c \in Clients, Ask(c) PROVE ControlInv'
  <2>1. SessionInv(c)
    BY <1>3 DEF Ask, ControlInv, InSession
  <2>2. resp' = [resp EXCEPT ![c] = resp[c]]
    BY <1>3 DEF Ask, Moves, TypeOK
  <2> QED
    BY <1>3, <2>1, <2>2, ClientKeepsInv DEF Ask, Moves, Places, daemonVars
<1>4. ASSUME NEW c \in Clients, Enqueue(c) PROVE ControlInv'
  <2>1. SessionInv(c)
    BY <1>4 DEF Enqueue, ControlInv, InSession
  <2>2. resp' = [resp EXCEPT ![c] = resp[c]]
    BY <1>4 DEF Enqueue, Moves, TypeOK
  <2>3. EventInv(c)'
    BY <1>4 DEF Enqueue, EventInv, SendWorks, ControlInv, SeesNow, Conditions
  <2>4. queued \subseteq queued'
    BY <1>4 DEF Enqueue
  <2> QED
    BY <1>4, <2>1, <2>2, <2>3, <2>4, ClientKeepsInv DEF Enqueue, Moves, Places
<1>5. ASSUME NEW c \in Clients, Answer(c) PROVE ControlInv'
  <2>1. PICK r \in Replies(c) : Ends(c, r)
    BY <1>5 DEF Answer
  <2>2. /\ UNCHANGED <<daemon, healthy, cmd, seen, queued>>
        /\ st[c] \in {"asked", "queued"}
        /\ cmd[c] = "reconfigure" => st[c] = "queued"
    BY <1>5 DEF Answer, daemonVars
  <2>3. cmd[c] # None
    BY <2>2 DEF TypeOK
  <2>4. /\ cmd[c] = "check" /\ r = "healthy" => healthy
        /\ cmd[c] = "reconfigure" => r = "ok"
    BY <2>3, RepliesAreReplies
  <2>5. SessionInv(c)
    BY <2>2 DEF ControlInv, InSession
  <2>6. cmd[c] = "reconfigure" => EventInv(c)
    BY <2>2 DEF ControlInv
  <2>7. AnswerInv(c)'
    BY <2>1, <2>2, <2>4, <2>5, <2>6 DEF AnswerInv, SessionInv, EventInv, Ends, TypeOK
  <2> QED
    BY <2>1, <2>2, <2>7, ClientKeepsInv DEF Ends, Places
<1>6. ASSUME NEW c \in Clients, HangUp(c) PROVE ControlInv'
  <2>1. AnswerInv(c)'
    BY <1>6, ControlAssumption DEF HangUp, AnswerInv, Ends, TypeOK
  <2> QED
    BY <1>6, <2>1, ClientKeepsInv DEF HangUp, Ends, Places, daemonVars
<1>7. ASSUME NEW c \in Clients, Exited(c) PROVE ControlInv'
  <2>1. /\ st'[c] = "idle"
        /\ \A d \in Clients : d # c =>
             /\ st'[d] = st[d] /\ cmd'[d] = cmd[d] /\ resp'[d] = resp[d] /\ seen'[d] = seen[d]
             /\ d \in queued' <=> d \in queued
        /\ seen' \in [Clients -> SUBSET {"ok", "bad", "away"}]
        /\ UNCHANGED <<daemon, healthy>>
    BY <1>7 DEF Exited, TypeOK, ControlInv, daemonVars
  <2>2. (\A d \in Clients : st[d] # "idle" => SeesNow(d))'
    BY <2>1 DEF ControlInv, SeesNow, Conditions, Listening
  <2>3. (\A d \in InSession : SessionInv(d))'
    BY <2>1 DEF ControlInv, InSession, SessionInv
  <2>4. (\A d \in Clients : st[d] = "queued" => EventInv(d))'
    BY <2>1 DEF ControlInv, EventInv
  <2>5. (\A d \in Clients : st[d] = "done" => AnswerInv(d))'
    BY <2>1 DEF ControlInv, EventInv, AnswerInv
  <2> QED
    BY <2>1, <2>2, <2>3, <2>4, <2>5 DEF ControlInv
<1>8. CASE Serve
  <2>1. InSession = {}
    BY <1>8 DEF Serve, ControlInv, SessionInv
  <2>2. InSession' = {}
    BY <1>8, <2>1 DEF Serve, InSession
  <2> QED
    BY <1>0, <1>8, <2>2, DaemonKeepsInv DEF Serve
<1>9. CASE Stops \/ RemovesSocket \/ RunReturns
  <2>1. /\ UNCHANGED <<healthy, cmd, queued, st, resp>>
        /\ Noticed
        /\ daemon' # "dead"
    BY <1>9 DEF Stops, RemovesSocket, RunReturns
  <2> QED
    BY <1>0, <2>1, DaemonKeepsInv
<1>10. CASE Dies
  <2>1. InSession' = {}
    BY <1>10 DEF Dies, InSession
  <2>2. \A c \in Clients : \/ st'[c] = st[c] /\ resp'[c] = resp[c]
                           \/ c \in InSession /\ st'[c] = "done" /\ resp'[c] = "closed"
    BY <1>10 DEF Dies
  <2> QED
    BY <1>0, <1>10, <2>1, <2>2, DaemonKeepsInv DEF Dies
<1>11. CASE HealthFlips
  <2>1. daemon' # "dead" /\ Listening'
    BY <1>11 DEF HealthFlips, Listening
  <2> QED
    BY <1>0, <1>11, <2>1, DaemonKeepsInv DEF HealthFlips
<1>12. CASE TakeEvent
  BY <1>12 DEF TakeEvent, clientVars, ControlInv, SeesNow, SessionInv, EventInv, AnswerInv,
               InSession, Conditions, Listening
<1>13. CASE UNCHANGED vars
  BY <1>13 DEF vars, daemonVars, clientVars, ControlInv, SeesNow, SessionInv, EventInv,
               AnswerInv, InSession, Conditions, Listening
<1> QED
  BY <1>1, <1>2, <1>3, <1>4, <1>5, <1>6, <1>7, <1>8, <1>9, <1>10, <1>11, <1>12, <1>13 DEF Next

\* What every exit code rests on holds always.
THEOREM ControlInvariant == Spec => []ControlInv
<1>1. Init => ControlInv
  BY DEF Init, ControlInv, InSession
<1> QED
  BY <1>1, TypeCorrect, StepKeepsInv, PTL DEF Spec

\* `micronet check` is truthful, whatever the daemon does while it runs.
THEOREM ChecksAreTruthful == Spec => []CheckIsTruthful
<1>1. ControlInv => CheckIsTruthful
  <2> SUFFICES ASSUME ControlInv, NEW c \in Clients, Exits(c, "check"), Success(c)
               PROVE  "ok" \in seen[c]
    BY DEF CheckIsTruthful
  <2>1. resp[c] = "healthy"
    BY DEF Exits, Success, CheckLiveness
  <2> QED
    BY <2>1 DEF ControlInv, AnswerInv, Exits
<1> QED
  BY <1>1, ControlInvariant, PTL

\* A `micronet reconfigure` that succeeds has reached the loop, or met a daemon without one.
THEOREM ReconfiguresAreHonest == Spec => []ReconfigureIsHonest
<1>1. ControlInv => ReconfigureIsHonest
  <2> SUFFICES ASSUME ControlInv, NEW c \in Clients, Exits(c, "reconfigure"), Success(c)
               PROVE  EventInv(c)
    BY DEF ReconfigureIsHonest, EventInv
  <2>1. resp[c] \notin {"unreachable", "closed"}
    BY DEF Exits, Success
  <2> QED
    BY <2>1 DEF ControlInv, AnswerInv, Exits
<1> QED
  BY <1>1, ControlInvariant, PTL

-----------------------------------------------------------------------------
(* The room on the socket.                                                 *)

\* The server never has more than MAX_IPC_CLIENTS sessions at a time.
RoomInv == IsFiniteSet(InSession) /\ Cardinality(InSession) <= MaxClients

\* Only a connection that finds room adds to the sessions.
LEMMA StepKeepsRoom == RoomInv /\ TypeOK /\ [Next]_vars => RoomInv'
<1> SUFFICES ASSUME RoomInv, TypeOK, [Next]_vars PROVE RoomInv'
  OBVIOUS
<1>0. MaxClients \in Nat /\ Cardinality(InSession) \in Nat
  BY ControlAssumption, FS_CardinalityType DEF RoomInv
<1>1. ASSUME InSession' \subseteq InSession PROVE RoomInv'
  <2>1. IsFiniteSet(InSession') /\ Cardinality(InSession') <= Cardinality(InSession)
    BY <1>1, FS_Subset DEF RoomInv
  <2>2. Cardinality(InSession') \in Nat
    BY <2>1, FS_CardinalityType
  <2> QED
    BY <1>0, <2>1, <2>2 DEF RoomInv
<1>2. ASSUME NEW c \in Clients, Connect(c) PROVE RoomInv'
  <2>1. CASE Moves(c, "session") /\ Cardinality(InSession) < MaxClients
    <3>1. InSession' = InSession \cup {c} /\ c \notin InSession
      BY <1>2, <2>1 DEF Connect, Moves, InSession, TypeOK
    <3>2. IsFiniteSet(InSession') /\ Cardinality(InSession') = Cardinality(InSession) + 1
      BY <3>1, FS_AddElement DEF RoomInv
    <3> QED
      BY <1>0, <2>1, <3>2 DEF RoomInv
  <2>2. CASE \E r \in Responses : Ends(c, r)
    <3>1. InSession' \subseteq InSession
      BY <2>2 DEF Ends, InSession, TypeOK
    <3> QED
      BY <1>1, <3>1
  <2> QED
    BY <1>2, <2>1, <2>2 DEF Connect, Responses
<1>3. ASSUME NEW c \in Clients, Ask(c) \/ Enqueue(c) \/ Answer(c) \/ HangUp(c) \/ Exited(c)
             PROVE RoomInv'
  <2>1. InSession' \subseteq InSession
    BY <1>3 DEF Ask, Enqueue, Answer, HangUp, Exited, Moves, Ends, InSession, TypeOK
  <2> QED
    BY <1>1, <2>1
<1>4. ASSUME NEW c \in Clients, NEW k \in CmdNames, Run(c, k) PROVE RoomInv'
  <2>1. InSession' \subseteq InSession
    BY <1>4 DEF Run, Moves, InSession, TypeOK
  <2> QED
    BY <1>1, <2>1
<1>5. CASE Serve \/ Stops \/ RemovesSocket \/ RunReturns \/ HealthFlips \/ TakeEvent \/ UNCHANGED vars
  <2>1. InSession' \subseteq InSession
    BY <1>5 DEF Serve, Stops, RemovesSocket, RunReturns, HealthFlips, TakeEvent, vars,
                 clientVars, InSession
  <2> QED
    BY <1>1, <2>1
<1>6. CASE Dies
  <2>1. InSession' \subseteq InSession
    BY <1>6 DEF Dies, InSession, TypeOK
  <2> QED
    BY <1>1, <2>1
<1> QED
  BY <1>2, <1>3, <1>4, <1>5, <1>6 DEF Next

\* However many clients connect, stay, leave or are cut off, MAX_IPC_CLIENTS holds.
THEOREM RoomIsKept == Spec => []RoomInv
<1>1. Init => RoomInv
  <2> SUFFICES ASSUME Init PROVE RoomInv
    OBVIOUS
  <2>1. InSession = {}
    BY DEF Init, InSession
  <2> QED
    BY <2>1, FS_EmptySet, ControlAssumption DEF RoomInv
<1> QED
  BY <1>1, TypeCorrect, StepKeepsRoom, PTL DEF Spec
=============================================================================
