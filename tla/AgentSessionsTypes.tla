------------------------- MODULE AgentSessionsTypes -------------------------
(***************************************************************************)
(* AgentSessions is well typed: Spec => []TypeOK, for any connections,     *)
(* sessions and credentials.  A read loop closes the session its target    *)
(* names, so NamesTarget goes along as the strengthening.                  *)
(***************************************************************************)
EXTENDS AgentSessions, TLAPS

TypeInv == TypeOK /\ NamesTarget

(* Whatever the tables allow next is a state of the tables.                *)
LEMMA NextStateIsState ==
  /\ \A l, w, d, m : NextSession(l, w, d, m) \subseteq SessionStates
  /\ \A l, d, m : NextConnection(l, d, m) \subseteq ConnectionStates
BY DEF NextSession, NextConnection, Successors, SessionTable, SessionStates,
       ConnectionTable, ConnectionStates

(* The states that the actions write as literals are states of the tables. *)
LEMMA NamedStates ==
  /\ "NEW" \in ConnectionStates /\ "READY" \in ConnectionStates
  /\ "CLOSING" \in ConnectionStates
  /\ "NONE" \in SessionStates
BY DEF SessionTable, SessionStates, ConnectionTable, ConnectionStates

(* No frame leads back to NONE; it takes an open or a reopen to leave it.  *)
LEMMA NoneIsFirst ==
  /\ \A l, w, d, m : "NONE" \notin NextSession(l, w, d, m)
  /\ \A l, m : NextSession(l, "NONE", "agent", m) = {}
  /\ \A l : NextSession(l, "NONE", "client", "detach") = {}
  /\ \A l : NextSession(l, "NONE", "client", "close_session") = {}
BY DEF NextSession, Successors, SessionTable

(* What a sent frame leaves the wire session in is one of its states.      *)
LEMMA AfterSendIsState ==
  ASSUME NEW c \in Connections, NEW m, wire[c] \in SessionStates
  PROVE  AfterSend(c, m) \subseteq SessionStates
BY NextStateIsState DEF AfterSend

(* Sending a frame keeps the types of what it writes, to whichever         *)
(* connection: nil is never sent to, but its type does not say so.         *)
LEMMA SendTyped ==
  ASSUME NEW c, NEW m, LinkTypeOK, DownTypeOK, Written(c, m) \/ SendFails(c, m)
  PROVE  /\ LinkTypeOK'
         /\ shut' \in [Connections -> {"up", "lost", "failed", "sweeping", "down"}]
<1>1. ASSUME NEW w \in AfterSend(c, m), wire' = [wire EXCEPT ![c] = w]
      PROVE  wire' \in [Connections -> SessionStates]
  <2>1. CASE c \in Connections
    BY <1>1, <2>1, AfterSendIsState DEF LinkTypeOK
  <2>2. CASE c \notin Connections
    BY <1>1, <2>2 DEF LinkTypeOK
  <2> QED
    BY <2>1, <2>2
<1>2. CASE Written(c, m)
  BY <1>1, <1>2 DEF Written, LinkTypeOK, DownTypeOK
<1>3. CASE Refused(c, m)
  BY <1>3 DEF Refused, LinkTypeOK, DownTypeOK
<1>4. CASE Lost(c, m)
  BY <1>1, <1>4 DEF Lost, StartShutdown, LinkTypeOK, DownTypeOK
<1> QED
  BY <1>2, <1>3, <1>4 DEF SendFails

(* Nor does it change whether the session state is NONE.                   *)
LEMMA SendKeepsNone ==
  ASSUME NEW c, NEW m, LinkTypeOK, Written(c, m) \/ SendFails(c, m), NEW d \in Connections
  PROVE  wire'[d] = "NONE" <=> wire[d] = "NONE"
<1>1. \A w \in AfterSend(c, m) : w = "NONE" <=> wire[c] = "NONE"
  BY NoneIsFirst DEF AfterSend
<1> QED
  BY <1>1 DEF Written, SendFails, Refused, Lost, LinkTypeOK

(* So do fail() at the end of a read loop, and letting go of sessions.     *)
LEMMA ReaderFailsTyped ==
  ASSUME NEW c, NEW destructive \in BOOLEAN, ReaderTypeOK, DownTypeOK,
         ReaderFails(c, destructive)
  PROVE  /\ reader' \in [Connections -> ReaderStates]
         /\ failOnce' \in [Connections -> {"idle", "failing", "reported", "closing"}]
         /\ destroy' \in [Connections -> BOOLEAN]
BY DEF ReaderFails, StartFail, ReaderTypeOK, DownTypeOK, ReaderStates

(* Taking a session's attachment away keeps the attachments' types.        *)
LEMMA ReleaseTyped ==
  ASSUME NEW S, AttachTypeOK, Release(S)
  PROVE  AttachTypeOK'
BY DEF AttachTypeOK, Release

(* The agent starts with every variable of its type.                       *)
LEMMA InitTyped == Init => TypeInv
<1> SUFFICES ASSUME Init PROVE TypeInv
  OBVIOUS
<1>1. EndpointTypeOK
  BY NamedStates DEF Init, EndpointTypeOK
<1>2. RegistryTypeOK
  BY NamedStates DEF Init, RegistryTypeOK, Lives
<1>3. AttachTypeOK
  BY NamedStates DEF Init, AttachTypeOK
<1>4. TicketTypeOK
  BY NamedStates DEF Init, TicketTypeOK
<1>5. WaitTypeOK
  BY NamedStates DEF Init, WaitTypeOK
<1>6. LinkTypeOK
  BY NamedStates DEF Init, LinkTypeOK
<1>7. DownTypeOK
  BY NamedStates DEF Init, DownTypeOK
<1>8. ReaderTypeOK
  BY NamedStates DEF Init, ReaderTypeOK, ReaderStates
<1>9. SessionTypeOK
  BY NamedStates DEF Init, SessionTypeOK
<1>10. HostTypeOK
  BY NamedStates DEF Init, HostTypeOK
<1>11. NamesTarget
  BY DEF Init, NamesTarget
<1> QED
  BY <1>1, <1>2, <1>3, <1>4, <1>5, <1>6, <1>7, <1>8, <1>9, <1>10, <1>11
     DEF TypeOK, TypeInv

(* Every action keeps the types.                                           *)
LEMMA StepTyped == TypeInv /\ [Next]_vars => TypeOK'
<1> SUFFICES ASSUME TypeInv, [Next]_vars PROVE TypeOK'
  OBVIOUS
<1> USE DEF TypeInv, TypeOK, EndpointTypeOK, RegistryTypeOK, AttachTypeOK, TicketTypeOK,
            WaitTypeOK, LinkTypeOK, DownTypeOK, ReaderTypeOK, SessionTypeOK, HostTypeOK,
            endpointVars, fenceFlags, attachVars, registryVars, ticketVars, waitVars,
            linkVars, downVars, readerVars, sessionVars, hostVars
<1>1. ASSUME NEW c \in Connections, Connect(c) PROVE TypeOK'
  BY <1>1, NamedStates DEF Connect
<1>2. ASSUME NEW c \in Connections, ConnectionLost(c) PROVE TypeOK'
  BY <1>2 DEF ConnectionLost, StartShutdown
<1>3. ASSUME NEW c \in Connections, RecoverableFailure(c) PROVE TypeOK'
  BY <1>3 DEF RecoverableFailure, StartFail
<1>4. ASSUME NEW c \in Connections, FailReports(c) PROVE TypeOK'
  BY <1>4, NamedStates DEF FailReports
<1>5. ASSUME NEW c \in Connections, FailShutsDown(c) PROVE TypeOK'
  BY <1>5 DEF FailShutsDown, StartShutdown
<1>6. ASSUME NEW c \in Connections, Disconnected(c) PROVE TypeOK'
  <2> DEFINE mine == {s \in Sessions : InActive(s) /\ owner[s] = c}
  <2>1. AttachTypeOK' /\ WaitTypeOK'
    <3>1. CASE destroy[c]
      <4>1. toClose' = [toClose EXCEPT ![Shutdown(c)] = mine] /\ UNCHANGED closingNow
        BY <1>6, <3>1 DEF Disconnected
      <4>2. WaitTypeOK'
        BY <4>1
      <4> QED
        BY <1>6, <3>1, <4>2 DEF Disconnected
    <3>2. CASE ~destroy[c]
      BY <1>6, <3>2, ReleaseTyped DEF Disconnected
    <3> QED
      BY <3>1, <3>2
  <2>2. RegistryTypeOK' /\ DownTypeOK'
    BY <1>6 DEF Disconnected
  <2> QED
    BY <1>6, <2>1, <2>2 DEF Disconnected
<1>7. ASSUME NEW c \in Connections, ShutdownEnds(c) PROVE TypeOK'
  BY <1>7 DEF ShutdownEnds
<1>8. ASSUME NEW c \in Connections, ReceiveRejected(c) PROVE TypeOK'
  BY <1>8, ReaderFailsTyped DEF ReceiveRejected
<1>9. ASSUME NEW c \in Connections, ReceiveError(c) PROVE TypeOK'
  <2>1. CASE \E destructive \in BOOLEAN : ReaderFails(c, destructive) /\ UNCHANGED shut
    BY <1>9, <2>1, NamedStates, ReaderFailsTyped DEF ReceiveError
  <2>2. CASE StartShutdown(c, IF failOnce[c] = "idle" THEN "lost" ELSE "failed")
             /\ UNCHANGED <<reader, failOnce, destroy>>
    BY <1>9, <2>2, NamedStates DEF ReceiveError, StartShutdown
  <2> QED
    BY <1>9, <2>1, <2>2 DEF ReceiveError
<1>10. ASSUME NEW c \in Connections, ReceivePing(c) PROVE TypeOK'
  BY <1>10 DEF ReceivePing, Become, ReaderStates
<1>11. ASSUME NEW c \in Connections, NEW s \in Sessions, ReceiveOpen(c, s)
      PROVE  TypeOK'
  <2>1. LinkTypeOK'
    BY <1>11, NextStateIsState DEF ReceiveOpen, Receives
  <2>2. CASE OpenReserves(c, s)
    BY <1>11, <2>1, <2>2 DEF ReceiveOpen, OpenReserves, Become, Lives, ReaderStates
  <2>3. CASE OpenRefused(c)
    BY <1>11, <2>1, <2>3, ReaderFailsTyped DEF ReceiveOpen, OpenRefused
  <2> QED
    BY <1>11, <2>2, <2>3 DEF ReceiveOpen
<1>12. ASSUME NEW c \in Connections, OpenFails(c) PROVE TypeOK'
  BY <1>12, ReaderFailsTyped DEF OpenFails, Lives
<1>13. ASSUME NEW c \in Connections, OpenRegisters(c) PROVE TypeOK'
  BY <1>13 DEF OpenRegisters, Lives, Become, ReaderStates
<1>14. ASSUME NEW c \in Connections, Reply(c) PROVE TypeOK'
  <2>1. LinkTypeOK' /\ DownTypeOK'
    BY <1>14, SendTyped DEF Reply
  <2>2. ReaderTypeOK'
    <3>1. \E r \in {"idle", "broken"} : reader' = [reader EXCEPT ![c] = r]
      BY <1>14 DEF Reply, Become
    <3>2. UNCHANGED target
      BY <1>14 DEF Reply
    <3>3. UNCHANGED authLoop
      BY <1>14 DEF Reply
    <3> QED
      BY <3>1, <3>2, <3>3 DEF ReaderStates
  <2> QED
    BY <1>14, <2>1, <2>2 DEF Reply
<1>15. ASSUME NEW c \in Connections, ReaderBreaks(c) PROVE TypeOK'
  BY <1>15, ReaderFailsTyped DEF ReaderBreaks
<1>16. ASSUME NEW c \in Connections, ReaderEnds(c) PROVE TypeOK'
  BY <1>16 DEF ReaderEnds, Become, ReaderStates
<1>17. ASSUME NEW c \in Connections, ReceiveDetach(c) PROVE TypeOK'
  BY <1>17, NextStateIsState DEF ReceiveDetach, Receives, Become, ReaderStates
<1>18. ASSUME NEW c \in Connections, HandleDetach(c) PROVE TypeOK'
  <2>1. CASE Owned(c, target[c])
    <3>1. AttachTypeOK'
      BY <1>18, <2>1, ReleaseTyped DEF HandleDetach
    <3>2. ReaderTypeOK'
      BY <1>18, <2>1 DEF HandleDetach, Become, ReaderStates
    <3> QED
      BY <1>18, <2>1, <3>1, <3>2 DEF HandleDetach
  <2>2. CASE ~Owned(c, target[c])
    <3>1. ReaderFails(c, TRUE) /\ UNCHANGED <<target, shut, authLoop>>
      BY <1>18, <2>2 DEF HandleDetach
    <3>2. ReaderTypeOK' /\ DownTypeOK'
      BY <3>1, ReaderFailsTyped
    <3> QED
      BY <1>18, <2>2, <3>2 DEF HandleDetach
  <2> QED
    BY <2>1, <2>2
<1>19. ASSUME NEW c \in Connections, ReceiveClose(c) PROVE TypeOK'
  BY <1>19, NextStateIsState DEF ReceiveClose, Receives, Become, ReaderStates
<1>20. ASSUME NEW c \in Connections, HandleClose(c) PROVE TypeOK'
  <2>1. CASE Owned(c, target[c])
    <3>1. target[c] \in Sessions
      BY <1>20 DEF HandleClose, NamesTarget
    <3>4. /\ toClose' = [toClose EXCEPT ![Reader(c)] = {target[c]}]
          /\ UNCHANGED closingNow
      BY <1>20, <2>1 DEF HandleClose
    <3>2. WaitTypeOK'
      BY <3>1, <3>4
    <3>3. ReaderTypeOK'
      BY <1>20, <2>1 DEF HandleClose, Become, ReaderStates
    <3> QED
      BY <1>20, <2>1, <3>2, <3>3 DEF HandleClose
  <2>2. CASE ~Owned(c, target[c])
    <3>1. ReaderFails(c, TRUE) /\ UNCHANGED <<target, shut, authLoop>>
      BY <1>20, <2>2 DEF HandleClose
    <3>2. ReaderTypeOK' /\ DownTypeOK'
      BY <3>1, ReaderFailsTyped
    <3> QED
      BY <1>20, <2>2, <3>2 DEF HandleClose
  <2> QED
    BY <2>1, <2>2
<1>21. ASSUME NEW c \in Connections, CloseReturns(c) PROVE TypeOK'
  BY <1>21 DEF CloseReturns, ReaderStates
<1>22. ASSUME NEW c \in Connections, HandleExpired(c) PROVE TypeOK'
  BY <1>22 DEF HandleExpired, ExpiredSessions, SessionsOf, Become,
     ReaderStates
<1>23. ASSUME NEW c \in Connections, ExpiredFails(c) PROVE TypeOK'
  BY <1>23, ReaderFailsTyped DEF ExpiredFails
<1>24. ASSUME NEW c \in Connections, NEW s \in Sessions, ReceiveReopen(c, s)
      PROVE  TypeOK'
  <2>1. LinkTypeOK'
    BY <1>24, NextStateIsState DEF ReceiveReopen, Receives
  <2>2. CASE ReopenClaims(c, s)
    BY <1>24, <2>1, <2>2 DEF ReceiveReopen, ReopenClaims, Become, ReaderStates
  <2>3. CASE ReopenRefused(c)
    BY <1>24, <2>1, <2>3, ReaderFailsTyped DEF ReceiveReopen, ReopenRefused
  <2> QED
    BY <1>24, <2>2, <2>3 DEF ReceiveReopen
<1>25. ASSUME NEW c \in Connections, ReopenResizes(c) PROVE TypeOK'
  <2>1. target[c] \in Sessions
    BY <1>25 DEF ReopenResizes, NamesTarget
  <2>2. WaitTypeOK'
    BY <1>25, <2>1 DEF ReopenResizes
  <2>3. ReaderTypeOK'
    BY <1>25 DEF ReopenResizes, Become, ReaderStates
  <2> QED
    BY <1>25, <2>2, <2>3 DEF ReopenResizes
<1>26. ASSUME NEW c \in Connections, ReopenRejected(c) PROVE TypeOK'
  BY <1>26, ReaderFailsTyped DEF ReopenRejected
<1>27. ASSUME NEW c \in Connections, ReplayChecks(c) PROVE TypeOK'
  <2>1. AttachTypeOK'
    <3>1. CASE UNCHANGED replaying
      BY <1>27, <3>1 DEF ReplayChecks
    <3>2. CASE replaying' = [replaying EXCEPT ![target[c]] = FALSE]
      BY <1>27, <3>2 DEF ReplayChecks
    <3> QED
      BY <1>27, <3>1, <3>2 DEF ReplayChecks
  <2>2. ReaderTypeOK'
    <3>1. reader' \in {[reader EXCEPT ![c] = r] : r \in {"sending", "release", "idle"}}
      BY <1>27 DEF ReplayChecks, Become
    <3>2. UNCHANGED <<target, authLoop>>
      BY <1>27 DEF ReplayChecks
    <3> QED
      BY <3>1, <3>2 DEF ReaderStates
  <2> QED
    BY <1>27, <2>1, <2>2 DEF ReplayChecks
<1>28. ASSUME NEW c \in Connections, ReplaySends(c) PROVE TypeOK'
  <2>1. LinkTypeOK' /\ DownTypeOK'
    BY <1>28, SendTyped DEF ReplaySends
  <2>2. ReaderTypeOK'
    BY <1>28 DEF ReplaySends, Become, ReaderStates
  <2> QED
    BY <1>28, <2>1, <2>2 DEF ReplaySends
<1>29. ASSUME NEW c \in Connections, ReopenReleased(c) PROVE TypeOK'
  BY <1>29, ReleaseTyped DEF ReopenReleased, Become, ReaderStates
<1>30. ASSUME NEW k \in Credentials, CredentialExpires(k) PROVE TypeOK'
  BY <1>30 DEF CredentialExpires
<1>31. ASSUME NEW c \in Connections, AuthorizationEnds(c) PROVE TypeOK'
  BY <1>31 DEF AuthorizationEnds, ExpiredSessions, SessionsOf
<1>32. ASSUME NEW c \in Connections, AuthorizationFails(c) PROVE TypeOK'
  BY <1>32 DEF AuthorizationFails, StartFail
<1>33. ASSUME NEW s \in Sessions, SessionExpires(s) PROVE TypeOK'
  BY <1>33 DEF SessionExpires
<1>34. ASSUME NEW s \in Sessions, ExpirerEnds(s) PROVE TypeOK'
  BY <1>34 DEF ExpirerEnds
<1>35. ASSUME NEW s \in Sessions, CopyReads(s) PROVE TypeOK'
  BY <1>35 DEF CopyReads
<1>36. ASSUME NEW s \in Sessions, CopySends(s) PROVE TypeOK'
  <2>1. Written(sendTo[s], "terminal_output") \/ SendFails(sendTo[s], "terminal_output")
    BY <1>36 DEF CopySends
  <2>2. LinkTypeOK' /\ DownTypeOK'
    BY <1>36, <2>1, SendTyped DEF CopySends
  <2>3. SessionTypeOK'
    <3>1. \E r \in {"reading", "refused"} : copier' = [copier EXCEPT ![s] = r]
      BY <1>36 DEF CopySends
    <3>2. sendTo' \in {sendTo, [sendTo EXCEPT ![s] = NoConnection]} /\ UNCHANGED expirer
      BY <1>36 DEF CopySends
    <3> QED
      BY <3>1, <3>2
  <2> QED
    BY <1>36, <2>2, <2>3 DEF CopySends
<1>37. ASSUME NEW s \in Sessions, CopyDetaches(s) PROVE TypeOK'
  BY <1>37, ReleaseTyped DEF CopyDetaches
<1>38. ASSUME NEW s \in Sessions, CopyEnds(s) PROVE TypeOK'
  BY <1>38 DEF CopyEnds
<1>39. ASSUME NEW s \in Sessions, CopyStops(s) PROVE TypeOK'
  BY <1>39 DEF CopyStops
<1>40. ASSUME NEW g \in Goroutines, NEW s \in Sessions, CloseBegins(g, s)
      PROVE  TypeOK'
  BY <1>40 DEF CloseBegins, Fence, Lives
<1>41. ASSUME NEW s \in Sessions, CloseRemoves(s) PROVE TypeOK'
  BY <1>41 DEF CloseRemoves, Lives
<1>42. ASSUME NEW s \in Sessions, CloseLooks(s) PROVE TypeOK'
  BY <1>42 DEF CloseLooks, Lives
<1>43. ASSUME NEW s \in Sessions, CloseNotifies(s) PROVE TypeOK'
  BY <1>43, SendTyped DEF CloseNotifies, Lives
<1>44. ASSUME NEW g \in Goroutines, CloseReturned(g) PROVE TypeOK'
  BY <1>44 DEF CloseReturned
<1>45. ASSUME NEW k \in Credentials, RevokeMarks(k) PROVE TypeOK'
  BY <1>45 DEF RevokeMarks
<1>46. ASSUME NEW k \in Credentials, RevokeFences(k) PROVE TypeOK'
  BY <1>46 DEF RevokeFences, Fence, SessionsOf, Lives, Goroutines, Revoke
<1>47. ASSUME NEW k \in Credentials, NEW c \in Connections, RevokeFails(k, c)
      PROVE  TypeOK'
  BY <1>47 DEF RevokeFails, StartFail
<1>48. ASSUME NEW k \in Credentials, RevokeFailed(k) PROVE TypeOK'
  BY <1>48 DEF RevokeFailed
<1>49. ASSUME NEW k \in Credentials, RevokeProceeds(k) PROVE TypeOK'
  BY <1>49 DEF RevokeProceeds
<1>50. ASSUME StopMarks PROVE TypeOK'
  BY <1>50 DEF StopMarks
<1>51. ASSUME StopFences PROVE TypeOK'
  BY <1>51 DEF StopFences, Fence, Lives, Goroutines, Stop
<1>52. ASSUME StopProceeds PROVE TypeOK'
  BY <1>52 DEF StopProceeds
<1>53. ASSUME NEW c \in Connections, StopShutsDown(c) PROVE TypeOK'
  BY <1>53 DEF StopShutsDown, StartShutdown
<1>54. CASE UNCHANGED vars
  BY <1>54 DEF vars
<1> QED
  BY <1>1, <1>2, <1>3, <1>4, <1>5, <1>6, <1>7, <1>8, <1>9, <1>10, <1>11,
     <1>12, <1>13, <1>14, <1>15, <1>16, <1>17, <1>18, <1>19, <1>20, <1>21,
     <1>22, <1>23, <1>24, <1>25, <1>26, <1>27, <1>28, <1>29, <1>30, <1>31,
     <1>32, <1>33, <1>34, <1>35, <1>36, <1>37, <1>38, <1>39, <1>40, <1>41,
     <1>42, <1>43, <1>44, <1>45, <1>46, <1>47, <1>48, <1>49, <1>50, <1>51,
     <1>52, <1>53, <1>54 DEF Next, Environment, Agent, OpenSettles, ReadLoop,
     Teardown, AuthorizationLoop, CopyOutput, ExpireManaged, FinishClose,
     Closing, RevokeCredential, StopEndpoint

(* Every action keeps the targets.                                         *)
LEMMA StepNames == TypeInv /\ [Next]_vars => NamesTarget'
<1> SUFFICES ASSUME TypeInv, [Next]_vars PROVE NamesTarget'
  OBVIOUS
<1> USE DEF TypeInv, TypeOK, NamesTarget, LinkTypeOK, ReaderTypeOK, linkVars, readerVars
<1>1. ASSUME NEW c \in Connections, Connect(c) PROVE NamesTarget'
  BY <1>1 DEF Connect
<1>2. ASSUME NEW c \in Connections, ConnectionLost(c) PROVE NamesTarget'
  BY <1>2 DEF ConnectionLost
<1>3. ASSUME NEW c \in Connections, RecoverableFailure(c) PROVE NamesTarget'
  BY <1>3 DEF RecoverableFailure
<1>4. ASSUME NEW c \in Connections, FailReports(c) PROVE NamesTarget'
  BY <1>4 DEF FailReports
<1>5. ASSUME NEW c \in Connections, FailShutsDown(c) PROVE NamesTarget'
  BY <1>5 DEF FailShutsDown
<1>6. ASSUME NEW c \in Connections, Disconnected(c) PROVE NamesTarget'
  BY <1>6 DEF Disconnected
<1>7. ASSUME NEW c \in Connections, ShutdownEnds(c) PROVE NamesTarget'
  BY <1>7 DEF ShutdownEnds
<1>8. ASSUME NEW c \in Connections, ReceiveRejected(c) PROVE NamesTarget'
  BY <1>8 DEF ReceiveRejected, ReaderFails
<1>9. ASSUME NEW c \in Connections, ReceiveError(c) PROVE NamesTarget'
  BY <1>9 DEF ReceiveError, ReaderFails
<1>10. ASSUME NEW c \in Connections, ReceivePing(c) PROVE NamesTarget'
  BY <1>10 DEF ReceivePing, Become
<1>11. ASSUME NEW c \in Connections, NEW s \in Sessions, ReceiveOpen(c, s)
      PROVE  NamesTarget'
  <2>1. \A d \in Connections \ {c} : wire'[d] = wire[d]
    BY <1>11 DEF ReceiveOpen, Receives
  <2>2. CASE OpenReserves(c, s)
    BY <2>1, <2>2 DEF OpenReserves, Become
  <2>3. CASE OpenRefused(c)
    BY <2>1, <2>3 DEF OpenRefused, ReaderFails
  <2> QED
    BY <1>11, <2>2, <2>3 DEF ReceiveOpen
<1>12. ASSUME NEW c \in Connections, OpenFails(c) PROVE NamesTarget'
  BY <1>12 DEF OpenFails, ReaderFails
<1>13. ASSUME NEW c \in Connections, OpenRegisters(c) PROVE NamesTarget'
  BY <1>13 DEF OpenRegisters, Become
<1>14. ASSUME NEW c \in Connections, Reply(c) PROVE NamesTarget'
  BY <1>14, SendKeepsNone DEF Reply, ReplyTo, Become
<1>15. ASSUME NEW c \in Connections, ReaderBreaks(c) PROVE NamesTarget'
  BY <1>15 DEF ReaderBreaks, ReaderFails
<1>16. ASSUME NEW c \in Connections, ReaderEnds(c) PROVE NamesTarget'
  BY <1>16 DEF ReaderEnds, Become
<1>17. ASSUME NEW c \in Connections, ReceiveDetach(c) PROVE NamesTarget'
  BY <1>17, NoneIsFirst DEF ReceiveDetach, Receives, Become
<1>18. ASSUME NEW c \in Connections, HandleDetach(c) PROVE NamesTarget'
  BY <1>18 DEF HandleDetach, Become, ReaderFails
<1>19. ASSUME NEW c \in Connections, ReceiveClose(c) PROVE NamesTarget'
  BY <1>19, NoneIsFirst DEF ReceiveClose, Receives, Become
<1>20. ASSUME NEW c \in Connections, HandleClose(c) PROVE NamesTarget'
  BY <1>20 DEF HandleClose, Become, ReaderFails
<1>21. ASSUME NEW c \in Connections, CloseReturns(c) PROVE NamesTarget'
  BY <1>21 DEF CloseReturns
<1>22. ASSUME NEW c \in Connections, HandleExpired(c) PROVE NamesTarget'
  BY <1>22 DEF HandleExpired, Become
<1>23. ASSUME NEW c \in Connections, ExpiredFails(c) PROVE NamesTarget'
  BY <1>23 DEF ExpiredFails, ReaderFails
<1>24. ASSUME NEW c \in Connections, NEW s \in Sessions, ReceiveReopen(c, s)
      PROVE  NamesTarget'
  <2>1. \A d \in Connections \ {c} : wire'[d] = wire[d]
    BY <1>24 DEF ReceiveReopen, Receives
  <2>2. CASE ReopenClaims(c, s)
    BY <2>1, <2>2 DEF ReopenClaims, Become
  <2>3. CASE ReopenRefused(c)
    BY <2>1, <2>3 DEF ReopenRefused, ReaderFails
  <2> QED
    BY <1>24, <2>2, <2>3 DEF ReceiveReopen
<1>25. ASSUME NEW c \in Connections, ReopenResizes(c) PROVE NamesTarget'
  BY <1>25 DEF ReopenResizes, Become
<1>26. ASSUME NEW c \in Connections, ReopenRejected(c) PROVE NamesTarget'
  BY <1>26 DEF ReopenRejected, ReaderFails
<1>27. ASSUME NEW c \in Connections, ReplayChecks(c) PROVE NamesTarget'
  BY <1>27 DEF ReplayChecks, Become
<1>28. ASSUME NEW c \in Connections, ReplaySends(c) PROVE NamesTarget'
  BY <1>28, SendKeepsNone DEF ReplaySends, Become
<1>29. ASSUME NEW c \in Connections, ReopenReleased(c) PROVE NamesTarget'
  BY <1>29 DEF ReopenReleased, Become
<1>30. ASSUME NEW k \in Credentials, CredentialExpires(k) PROVE NamesTarget'
  BY <1>30 DEF CredentialExpires
<1>31. ASSUME NEW c \in Connections, AuthorizationEnds(c) PROVE NamesTarget'
  BY <1>31 DEF AuthorizationEnds
<1>32. ASSUME NEW c \in Connections, AuthorizationFails(c) PROVE NamesTarget'
  BY <1>32 DEF AuthorizationFails
<1>33. ASSUME NEW s \in Sessions, SessionExpires(s) PROVE NamesTarget'
  BY <1>33 DEF SessionExpires
<1>34. ASSUME NEW s \in Sessions, ExpirerEnds(s) PROVE NamesTarget'
  BY <1>34 DEF ExpirerEnds
<1>35. ASSUME NEW s \in Sessions, CopyReads(s) PROVE NamesTarget'
  BY <1>35 DEF CopyReads
<1>36. ASSUME NEW s \in Sessions, CopySends(s) PROVE NamesTarget'
  BY <1>36, SendKeepsNone DEF CopySends
<1>37. ASSUME NEW s \in Sessions, CopyDetaches(s) PROVE NamesTarget'
  BY <1>37 DEF CopyDetaches
<1>38. ASSUME NEW s \in Sessions, CopyEnds(s) PROVE NamesTarget'
  BY <1>38 DEF CopyEnds
<1>39. ASSUME NEW s \in Sessions, CopyStops(s) PROVE NamesTarget'
  BY <1>39 DEF CopyStops
<1>40. ASSUME NEW g \in Goroutines, NEW s \in Sessions, CloseBegins(g, s)
      PROVE  NamesTarget'
  BY <1>40 DEF CloseBegins
<1>41. ASSUME NEW s \in Sessions, CloseRemoves(s) PROVE NamesTarget'
  BY <1>41 DEF CloseRemoves
<1>42. ASSUME NEW s \in Sessions, CloseLooks(s) PROVE NamesTarget'
  BY <1>42 DEF CloseLooks
<1>43. ASSUME NEW s \in Sessions, CloseNotifies(s) PROVE NamesTarget'
  BY <1>43, SendKeepsNone DEF CloseNotifies
<1>44. ASSUME NEW g \in Goroutines, CloseReturned(g) PROVE NamesTarget'
  BY <1>44 DEF CloseReturned
<1>45. ASSUME NEW k \in Credentials, RevokeMarks(k) PROVE NamesTarget'
  BY <1>45 DEF RevokeMarks
<1>46. ASSUME NEW k \in Credentials, RevokeFences(k) PROVE NamesTarget'
  BY <1>46 DEF RevokeFences
<1>47. ASSUME NEW k \in Credentials, NEW c \in Connections, RevokeFails(k, c)
      PROVE  NamesTarget'
  BY <1>47 DEF RevokeFails
<1>48. ASSUME NEW k \in Credentials, RevokeFailed(k) PROVE NamesTarget'
  BY <1>48 DEF RevokeFailed
<1>49. ASSUME NEW k \in Credentials, RevokeProceeds(k) PROVE NamesTarget'
  BY <1>49 DEF RevokeProceeds
<1>50. ASSUME StopMarks PROVE NamesTarget'
  BY <1>50 DEF StopMarks
<1>51. ASSUME StopFences PROVE NamesTarget'
  BY <1>51 DEF StopFences
<1>52. ASSUME StopProceeds PROVE NamesTarget'
  BY <1>52 DEF StopProceeds
<1>53. ASSUME NEW c \in Connections, StopShutsDown(c) PROVE NamesTarget'
  BY <1>53 DEF StopShutsDown
<1>54. CASE UNCHANGED vars
  BY <1>54 DEF vars
<1> QED
  BY <1>1, <1>2, <1>3, <1>4, <1>5, <1>6, <1>7, <1>8, <1>9, <1>10, <1>11,
     <1>12, <1>13, <1>14, <1>15, <1>16, <1>17, <1>18, <1>19, <1>20, <1>21,
     <1>22, <1>23, <1>24, <1>25, <1>26, <1>27, <1>28, <1>29, <1>30, <1>31,
     <1>32, <1>33, <1>34, <1>35, <1>36, <1>37, <1>38, <1>39, <1>40, <1>41,
     <1>42, <1>43, <1>44, <1>45, <1>46, <1>47, <1>48, <1>49, <1>50, <1>51,
     <1>52, <1>53, <1>54 DEF Next, Environment, Agent, OpenSettles, ReadLoop,
     Teardown, AuthorizationLoop, CopyOutput, ExpireManaged, FinishClose,
     Closing, RevokeCredential, StopEndpoint

(* The state is always well typed.                                         *)
THEOREM Typed == Spec => []TypeOK
<1>1. Spec => []TypeInv
  BY InitTyped, StepTyped, StepNames, PTL DEF Spec, TypeInv
<1>2. TypeInv => TypeOK
  BY DEF TypeInv
<1> QED
  BY <1>1, <1>2, PTL

=============================================================================
