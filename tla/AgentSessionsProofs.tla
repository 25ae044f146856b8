------------------------ MODULE AgentSessionsProofs ------------------------
(***************************************************************************)
(* The safety of the session registry for any number of connections,       *)
(* sessions and credentials: IInv is inductive, and gives the invariants   *)
(* that TLC checks on small instances and what a step may never do.        *)
(***************************************************************************)
EXTENDS AgentSessionsTypes

(* The part of IInv that is about the registry alone.                      *)
RegistryInv ==
  /\ HeldOrDetached /\ HolderIsCreator /\ NothingOutlivesTheFence
  /\ OpeningIsPending /\ OnlyRunningIsHeld

(* Letting go of running sessions keeps it.                                *)
LEMMA ReleaseKeeps ==
  ASSUME TypeInv, RegistryInv, NEW S \in SUBSET Sessions, \A s \in S : life[s] = "active",
         Release(S), UNCHANGED <<shuttingDown, registryRevoked, life, creator, closer>>,
         \A c \in Connections :
           reader'[c] = "opening" => reader[c] = "opening" /\ target'[c] = target[c]
  PROVE  RegistryInv'
<1> USE DEF TypeInv, TypeOK, RegistryTypeOK, AttachTypeOK, RegistryInv, Release
<1>1. HeldOrDetached'
  BY DEF HeldOrDetached
<1>2. HolderIsCreator'
  BY ConstantsAssumption DEF HolderIsCreator
<1>3. NothingOutlivesTheFence' /\ OpeningIsPending'
  BY DEF NothingOutlivesTheFence, OpeningIsPending
<1>4. OnlyRunningIsHeld'
  BY DEF OnlyRunningIsHeld
<1> QED
  BY <1>1, <1>2, <1>3, <1>4

(* So does fencing sessions, but for what the fence is raised against.     *)
LEMMA FenceKeeps ==
  ASSUME TypeInv, RegistryInv, NEW g \in Goroutines, NEW S, NEW notify, Fence(g, S, notify),
         UNCHANGED <<creator, detached, replaying, reader, target>>
  PROVE  /\ HeldOrDetached' /\ HolderIsCreator' /\ OpeningIsPending' /\ OnlyRunningIsHeld'
         /\ \A s \in Sessions : life'[s] = "active" => life[s] = "active" /\ s \notin S
<1> USE DEF TypeInv, TypeOK, RegistryTypeOK, AttachTypeOK, TicketTypeOK, RegistryInv, Fence
<1>1. HeldOrDetached'
  BY DEF HeldOrDetached
<1>2. HolderIsCreator'
  BY ConstantsAssumption DEF HolderIsCreator
<1>3. OpeningIsPending'
  BY DEF OpeningIsPending, NamesTarget
<1>4. OnlyRunningIsHeld'
  BY DEF OnlyRunningIsHeld
<1>5. \A s \in Sessions : life'[s] = "active" => life[s] = "active" /\ s \notin S
  OBVIOUS
<1> QED
  BY <1>1, <1>2, <1>3, <1>4, <1>5

(* Every action keeps it.                                                  *)
LEMMA StepRegistry == TypeInv /\ RegistryInv /\ [Next]_vars => RegistryInv'
<1> SUFFICES ASSUME TypeInv, RegistryInv, [Next]_vars PROVE RegistryInv'
  OBVIOUS
<1> USE DEF TypeInv, TypeOK, RegistryTypeOK, AttachTypeOK, TicketTypeOK, ReaderTypeOK,
            RegistryInv, HeldOrDetached, HolderIsCreator, NothingOutlivesTheFence,
            OpeningIsPending, OnlyRunningIsHeld, NamesTarget,
            fenceFlags, attachVars, registryVars, ticketVars, readerVars
<1>1. ASSUME NEW c \in Connections, Connect(c) PROVE RegistryInv'
  BY <1>1 DEF Connect
<1>2. ASSUME NEW c \in Connections, ConnectionLost(c) PROVE RegistryInv'
  BY <1>2 DEF ConnectionLost
<1>3. ASSUME NEW c \in Connections, RecoverableFailure(c) PROVE RegistryInv'
  BY <1>3 DEF RecoverableFailure
<1>4. ASSUME NEW c \in Connections, FailReports(c) PROVE RegistryInv'
  BY <1>4 DEF FailReports
<1>5. ASSUME NEW c \in Connections, FailShutsDown(c) PROVE RegistryInv'
  BY <1>5 DEF FailShutsDown
<1>6. ASSUME NEW c \in Connections, Disconnected(c) PROVE RegistryInv'
  <2>1. CASE destroy[c]
    BY <1>6, <2>1 DEF Disconnected
  <2>2. CASE ~destroy[c]
    <3> DEFINE mine == {s \in Sessions : InActive(s) /\ owner[s] = c}
    <3>1. Release(mine) /\ \A s \in mine : life[s] = "active"
      BY <1>6, <2>2, ConstantsAssumption DEF Disconnected, InActive
    <3> QED
      BY <1>6, <3>1, ReleaseKeeps DEF Disconnected
  <2> QED
    BY <2>1, <2>2
<1>7. ASSUME NEW c \in Connections, ShutdownEnds(c) PROVE RegistryInv'
  BY <1>7 DEF ShutdownEnds
<1>8. ASSUME NEW c \in Connections, ReceiveRejected(c) PROVE RegistryInv'
  BY <1>8 DEF ReceiveRejected, ReaderFails
<1>9. ASSUME NEW c \in Connections, ReceiveError(c) PROVE RegistryInv'
  BY <1>9 DEF ReceiveError, ReaderFails
<1>10. ASSUME NEW c \in Connections, ReceivePing(c) PROVE RegistryInv'
  BY <1>10 DEF ReceivePing, Become
<1>11. ASSUME NEW c \in Connections, NEW s \in Sessions, ReceiveOpen(c, s)
      PROVE  RegistryInv'
  <2>1. CASE OpenReserves(c, s)
    <3>1. HeldOrDetached' /\ NothingOutlivesTheFence'
      BY <1>11, <2>1 DEF ReceiveOpen, OpenReserves
    <3>4. HolderIsCreator'
      BY <1>11, <2>1, ConstantsAssumption DEF ReceiveOpen, OpenReserves
    <3>2. OpeningIsPending'
      BY <1>11, <2>1 DEF ReceiveOpen, OpenReserves, Become
    <3>3. OnlyRunningIsHeld'
      BY <1>11, <2>1 DEF ReceiveOpen, OpenReserves
    <3> QED
      BY <3>1, <3>2, <3>3, <3>4
  <2>2. CASE OpenRefused(c)
    BY <1>11, <2>2 DEF ReceiveOpen, OpenRefused, ReaderFails
  <2> QED
    BY <1>11, <2>1, <2>2 DEF ReceiveOpen
<1>12. ASSUME NEW c \in Connections, OpenFails(c) PROVE RegistryInv'
  BY <1>12 DEF OpenFails, ReaderFails
<1>13. ASSUME NEW c \in Connections, OpenRegisters(c) PROVE RegistryInv'
  <2>1. target[c] \in Sessions /\ life[target[c]] = "pending" /\ creator[target[c]] = c
    BY <1>13 DEF OpenRegisters
  <2>2. HeldOrDetached'
    BY <1>13, <2>1, ConstantsAssumption DEF OpenRegisters
  <2>6. HolderIsCreator'
    BY <1>13, <2>1 DEF OpenRegisters
  <2>3. NothingOutlivesTheFence'
    BY <1>13, <2>1 DEF OpenRegisters, AdmissionError
  <2>4. OpeningIsPending'
    BY <1>13, <2>1 DEF OpenRegisters, Become
  <2>5. OnlyRunningIsHeld'
    BY <1>13, <2>1 DEF OpenRegisters
  <2> QED
    BY <2>2, <2>3, <2>4, <2>5, <2>6
<1>14. ASSUME NEW c \in Connections, Reply(c) PROVE RegistryInv'
  BY <1>14 DEF Reply, Become
<1>15. ASSUME NEW c \in Connections, ReaderBreaks(c) PROVE RegistryInv'
  BY <1>15 DEF ReaderBreaks, ReaderFails
<1>16. ASSUME NEW c \in Connections, ReaderEnds(c) PROVE RegistryInv'
  BY <1>16 DEF ReaderEnds, Become
<1>17. ASSUME NEW c \in Connections, ReceiveDetach(c) PROVE RegistryInv'
  BY <1>17 DEF ReceiveDetach, Become
<1>18. ASSUME NEW c \in Connections, HandleDetach(c) PROVE RegistryInv'
  <2>1. CASE Owned(c, target[c])
    <3>1. target[c] \in Sessions
      BY <1>18 DEF HandleDetach
    <3>2. Release({target[c]}) /\ life[target[c]] = "active"
      BY <1>18, <2>1 DEF HandleDetach, Owned
    <3> QED
      BY <1>18, <2>1, <3>1, <3>2, ReleaseKeeps DEF HandleDetach, Become
  <2>2. CASE ~Owned(c, target[c])
    BY <1>18, <2>2 DEF HandleDetach, ReaderFails
  <2> QED
    BY <2>1, <2>2
<1>19. ASSUME NEW c \in Connections, ReceiveClose(c) PROVE RegistryInv'
  BY <1>19 DEF ReceiveClose, Become
<1>20. ASSUME NEW c \in Connections, HandleClose(c) PROVE RegistryInv'
  <2>1. \A d \in Connections : reader'[d] = "opening" => reader[d] = "opening"
    <3>1. CASE Owned(c, target[c])
      BY <1>20, <3>1 DEF HandleClose, Become
    <3>2. CASE ~Owned(c, target[c])
      BY <1>20, <3>2 DEF HandleClose, ReaderFails
    <3> QED
      BY <3>1, <3>2
  <2> QED
    BY <1>20, <2>1 DEF HandleClose
<1>21. ASSUME NEW c \in Connections, CloseReturns(c) PROVE RegistryInv'
  BY <1>21 DEF CloseReturns
<1>22. ASSUME NEW c \in Connections, HandleExpired(c) PROVE RegistryInv'
  BY <1>22 DEF HandleExpired, Become
<1>23. ASSUME NEW c \in Connections, ExpiredFails(c) PROVE RegistryInv'
  BY <1>23 DEF ExpiredFails, ReaderFails
<1>24. ASSUME NEW c \in Connections, NEW s \in Sessions, ReceiveReopen(c, s)
      PROVE  RegistryInv'
  <2>1. CASE ReopenClaims(c, s)
    <3>1. HeldOrDetached'
      BY <1>24, <2>1, ConstantsAssumption DEF ReceiveReopen, ReopenClaims
    <3>4. OpeningIsPending'
      BY <1>24, <2>1 DEF ReceiveReopen, ReopenClaims, Become
    <3>2. HolderIsCreator'
      BY <1>24, <2>1 DEF ReceiveReopen, ReopenClaims, Reopenable
    <3>3. NothingOutlivesTheFence' /\ OnlyRunningIsHeld'
      BY <1>24, <2>1 DEF ReceiveReopen, ReopenClaims, Reopenable
    <3> QED
      BY <3>1, <3>2, <3>3, <3>4
  <2>2. CASE ReopenRefused(c)
    BY <1>24, <2>2 DEF ReceiveReopen, ReopenRefused, ReaderFails
  <2> QED
    BY <1>24, <2>1, <2>2 DEF ReceiveReopen
<1>25. ASSUME NEW c \in Connections, ReopenResizes(c) PROVE RegistryInv'
  BY <1>25 DEF ReopenResizes, Become
<1>26. ASSUME NEW c \in Connections, ReopenRejected(c) PROVE RegistryInv'
  BY <1>26 DEF ReopenRejected, ReaderFails
<1>27. ASSUME NEW c \in Connections, ReplayChecks(c) PROVE RegistryInv'
  BY <1>27 DEF ReplayChecks, Become, Replays
<1>28. ASSUME NEW c \in Connections, ReplaySends(c) PROVE RegistryInv'
  BY <1>28 DEF ReplaySends, Become
<1>29. ASSUME NEW c \in Connections, ReopenReleased(c) PROVE RegistryInv'
  <2> DEFINE S == {s \in {target[c]} : Replays(c, s)}
  <2>1. target[c] \in Sessions
    BY <1>29 DEF ReopenReleased
  <2>2. Release(S) /\ S \in SUBSET Sessions /\ \A s \in S : life[s] = "active"
    BY <1>29, <2>1 DEF ReopenReleased, Replays
  <2> QED
    BY <1>29, <2>2, ReleaseKeeps DEF ReopenReleased, Become
<1>30. ASSUME NEW k \in Credentials, CredentialExpires(k) PROVE RegistryInv'
  BY <1>30 DEF CredentialExpires
<1>31. ASSUME NEW c \in Connections, AuthorizationEnds(c) PROVE RegistryInv'
  BY <1>31 DEF AuthorizationEnds
<1>32. ASSUME NEW c \in Connections, AuthorizationFails(c) PROVE RegistryInv'
  BY <1>32 DEF AuthorizationFails
<1>33. ASSUME NEW s \in Sessions, SessionExpires(s) PROVE RegistryInv'
  BY <1>33 DEF SessionExpires
<1>34. ASSUME NEW s \in Sessions, ExpirerEnds(s) PROVE RegistryInv'
  BY <1>34 DEF ExpirerEnds
<1>35. ASSUME NEW s \in Sessions, CopyReads(s) PROVE RegistryInv'
  BY <1>35 DEF CopyReads
<1>36. ASSUME NEW s \in Sessions, CopySends(s) PROVE RegistryInv'
  BY <1>36 DEF CopySends
<1>37. ASSUME NEW s \in Sessions, CopyDetaches(s) PROVE RegistryInv'
  <2> DEFINE S == {s1 \in {s} : life[s] = "active" /\ owner[s] = sendTo[s]}
  <2>1. Release(S) /\ S \in SUBSET Sessions /\ \A s1 \in S : life[s1] = "active"
    BY <1>37 DEF CopyDetaches
  <2> QED
    BY <1>37, <2>1, ReleaseKeeps DEF CopyDetaches
<1>38. ASSUME NEW s \in Sessions, CopyEnds(s) PROVE RegistryInv'
  BY <1>38 DEF CopyEnds
<1>39. ASSUME NEW s \in Sessions, CopyStops(s) PROVE RegistryInv'
  BY <1>39 DEF CopyStops
<1>40. ASSUME NEW g \in Goroutines, NEW s \in Sessions, CloseBegins(g, s)
      PROVE  RegistryInv'
  <2>1. HeldOrDetached' /\ HolderIsCreator' /\ OpeningIsPending' /\ OnlyRunningIsHeld'
    BY <1>40, FenceKeeps DEF CloseBegins
  <2>2. \A s1 \in Sessions : life'[s1] = "active" => life[s1] = "active" /\ s1 \notin {s}
    BY <1>40, FenceKeeps DEF CloseBegins
  <2>3. NothingOutlivesTheFence'
    BY <1>40, <2>2 DEF CloseBegins
  <2> QED
    BY <2>1, <2>3
<1>41. ASSUME NEW s \in Sessions, CloseRemoves(s) PROVE RegistryInv'
  BY <1>41 DEF CloseRemoves
<1>42. ASSUME NEW s \in Sessions, CloseLooks(s) PROVE RegistryInv'
  BY <1>42 DEF CloseLooks
<1>43. ASSUME NEW s \in Sessions, CloseNotifies(s) PROVE RegistryInv'
  BY <1>43 DEF CloseNotifies
<1>44. ASSUME NEW g \in Goroutines, CloseReturned(g) PROVE RegistryInv'
  BY <1>44 DEF CloseReturned
<1>45. ASSUME NEW k \in Credentials, RevokeMarks(k) PROVE RegistryInv'
  BY <1>45 DEF RevokeMarks
<1>46. ASSUME NEW k \in Credentials, RevokeFences(k) PROVE RegistryInv'
  <2>1. HeldOrDetached' /\ HolderIsCreator' /\ OpeningIsPending' /\ OnlyRunningIsHeld'
    BY <1>46, FenceKeeps DEF RevokeFences, Goroutines, Revoke
  <2>2. \A s1 \in Sessions : life'[s1] = "active" => life[s1] = "active" /\ s1 \notin SessionsOf(k)
    BY <1>46, FenceKeeps DEF RevokeFences, Goroutines, Revoke
  <2>3. NothingOutlivesTheFence'
    BY <1>46, <2>2 DEF RevokeFences, SessionsOf, InActive
  <2> QED
    BY <2>1, <2>3
<1>47. ASSUME NEW k \in Credentials, NEW c \in Connections, RevokeFails(k, c)
      PROVE  RegistryInv'
  BY <1>47 DEF RevokeFails
<1>48. ASSUME NEW k \in Credentials, RevokeFailed(k) PROVE RegistryInv'
  BY <1>48 DEF RevokeFailed
<1>49. ASSUME NEW k \in Credentials, RevokeProceeds(k) PROVE RegistryInv'
  BY <1>49 DEF RevokeProceeds
<1>50. ASSUME StopMarks PROVE RegistryInv'
  BY <1>50 DEF StopMarks
<1>51. ASSUME StopFences PROVE RegistryInv'
  <2>1. HeldOrDetached' /\ HolderIsCreator' /\ OpeningIsPending' /\ OnlyRunningIsHeld'
    BY <1>51, FenceKeeps DEF StopFences, Goroutines, Stop
  <2>2. \A s1 \in Sessions : life'[s1] = "active" => life[s1] = "active" /\ s1 \notin {s \in Sessions : InActive(s)}
    BY <1>51, FenceKeeps DEF StopFences, Goroutines, Stop
  <2>3. NothingOutlivesTheFence'
    BY <1>51, <2>2 DEF StopFences, InActive
  <2> QED
    BY <2>1, <2>3
<1>52. ASSUME StopProceeds PROVE RegistryInv'
  BY <1>52 DEF StopProceeds
<1>53. ASSUME NEW c \in Connections, StopShutsDown(c) PROVE RegistryInv'
  BY <1>53 DEF StopShutsDown
<1>54. CASE UNCHANGED vars
  BY <1>54 DEF vars
<1> QED
  BY <1>1, <1>2, <1>3, <1>4, <1>5, <1>6, <1>7, <1>8, <1>9, <1>10, <1>11,
     <1>12, <1>13, <1>14, <1>15, <1>16, <1>17, <1>18, <1>19, <1>20, <1>21,
     <1>22, <1>23, <1>24, <1>25, <1>26, <1>27, <1>28, <1>29, <1>30, <1>31,
     <1>32, <1>33, <1>34, <1>35, <1>36, <1>37, <1>38, <1>39, <1>40, <1>41,
     <1>42, <1>43, <1>44, <1>45, <1>46, <1>47, <1>48, <1>49, <1>50, <1>51,
     <1>52, <1>53, <1>54 DEF Next, Environment, Agent, OpenSettles, ReadLoop,
     Teardown, AuthorizationLoop, CopyOutput, ExpireManaged, FinishClose,
     Closing, RevokeCredential, StopEndpoint

(* Two goroutines of two connections, or of two kinds, are not one.        *)
LEMMA GoroutineNames ==
  \A c, d \in Connections :
    /\ Reader(c) \in Goroutines /\ Shutdown(d) \in Goroutines
    /\ Reader(c) # Shutdown(d)
    /\ Reader(c) = Reader(d) => c = d
    /\ Shutdown(c) = Shutdown(d) => c = d
BY DEF Goroutines, Reader, Shutdown

(* open_session and reopen_session come first.                             *)
LEMMA OnlyFromNone ==
  \A l, w : NextSession(l, w, "client", "open_session")
              \cup NextSession(l, w, "client", "reopen_session") # {} => w = "NONE"
BY DEF NextSession, Successors, SessionTable

(* A holder has asked for its session, whatever happens.                   *)
LEMMA StepHolder ==
  TypeInv /\ RegistryInv /\ HolderAsked /\ [Next]_vars => HolderAsked'
<1> SUFFICES ASSUME TypeInv, RegistryInv, HolderAsked, [Next]_vars PROVE HolderAsked'
  OBVIOUS
<1> USE DEF TypeInv, TypeOK, AttachTypeOK, LinkTypeOK, ReaderTypeOK,
            HolderAsked, NamesTarget, attachVars, registryVars, linkVars,
            readerVars
<1>1. ASSUME NEW c \in Connections, Connect(c) PROVE HolderAsked'
  BY <1>1 DEF Connect
<1>2. ASSUME NEW c \in Connections, ConnectionLost(c) PROVE HolderAsked'
  BY <1>2 DEF ConnectionLost
<1>3. ASSUME NEW c \in Connections, RecoverableFailure(c) PROVE HolderAsked'
  BY <1>3 DEF RecoverableFailure
<1>4. ASSUME NEW c \in Connections, FailReports(c) PROVE HolderAsked'
  BY <1>4 DEF FailReports
<1>5. ASSUME NEW c \in Connections, FailShutsDown(c) PROVE HolderAsked'
  BY <1>5 DEF FailShutsDown
<1>6. ASSUME NEW c \in Connections, Disconnected(c) PROVE HolderAsked'
  BY <1>6, ConstantsAssumption DEF Disconnected, Release
<1>7. ASSUME NEW c \in Connections, ShutdownEnds(c) PROVE HolderAsked'
  BY <1>7 DEF ShutdownEnds
<1>8. ASSUME NEW c \in Connections, ReceiveRejected(c) PROVE HolderAsked'
  BY <1>8 DEF ReceiveRejected, ReaderFails
<1>9. ASSUME NEW c \in Connections, ReceiveError(c) PROVE HolderAsked'
  BY <1>9 DEF ReceiveError, ReaderFails
<1>10. ASSUME NEW c \in Connections, ReceivePing(c) PROVE HolderAsked'
  BY <1>10 DEF ReceivePing, Become
<1>11. ASSUME NEW c \in Connections, NEW s \in Sessions, ReceiveOpen(c, s)
      PROVE  HolderAsked'
  <2>1. wire[c] = "NONE" /\ wire'[c] # "NONE" /\ \A d \in Connections \ {c} : wire'[d] = wire[d]
    BY <1>11, OnlyFromNone, NoneIsFirst DEF ReceiveOpen, Receives
  <2>2. CASE OpenReserves(c, s)
    BY <1>11, <2>1, <2>2 DEF ReceiveOpen, OpenReserves, Become
  <2>3. CASE OpenRefused(c)
    BY <1>11, <2>1, <2>3 DEF ReceiveOpen, OpenRefused, ReaderFails
  <2> QED
    BY <1>11, <2>2, <2>3 DEF ReceiveOpen
<1>12. ASSUME NEW c \in Connections, OpenFails(c) PROVE HolderAsked'
  BY <1>12 DEF OpenFails, ReaderFails
<1>13. ASSUME NEW c \in Connections, OpenRegisters(c) PROVE HolderAsked'
  BY <1>13 DEF OpenRegisters, Become
<1>14. ASSUME NEW c \in Connections, Reply(c) PROVE HolderAsked'
  BY <1>14, SendKeepsNone DEF Reply, Become, ReplyTo
<1>15. ASSUME NEW c \in Connections, ReaderBreaks(c) PROVE HolderAsked'
  BY <1>15 DEF ReaderBreaks, ReaderFails
<1>16. ASSUME NEW c \in Connections, ReaderEnds(c) PROVE HolderAsked'
  BY <1>16 DEF ReaderEnds, Become
<1>17. ASSUME NEW c \in Connections, ReceiveDetach(c) PROVE HolderAsked'
  BY <1>17, NoneIsFirst DEF ReceiveDetach, Become, Receives
<1>18. ASSUME NEW c \in Connections, HandleDetach(c) PROVE HolderAsked'
  <2>1. CASE Owned(c, target[c])
    BY <1>18, <2>1, ConstantsAssumption DEF HandleDetach, Become, Release
  <2>2. CASE ~Owned(c, target[c])
    BY <1>18, <2>2 DEF HandleDetach, ReaderFails
  <2> QED
    BY <2>1, <2>2
<1>19. ASSUME NEW c \in Connections, ReceiveClose(c) PROVE HolderAsked'
  BY <1>19, NoneIsFirst DEF ReceiveClose, Become, Receives
<1>20. ASSUME NEW c \in Connections, HandleClose(c) PROVE HolderAsked'
  <2>1. \E r \in {"closing", "gone"} : reader' = [reader EXCEPT ![c] = r]
    BY <1>20 DEF HandleClose, Become, ReaderFails
  <2>2. reader[c] = "close" /\ UNCHANGED <<owner, wire, target>>
    BY <1>20 DEF HandleClose
  <2> QED
    BY <2>1, <2>2
<1>21. ASSUME NEW c \in Connections, CloseReturns(c) PROVE HolderAsked'
  BY <1>21 DEF CloseReturns
<1>22. ASSUME NEW c \in Connections, HandleExpired(c) PROVE HolderAsked'
  BY <1>22 DEF HandleExpired, Become
<1>23. ASSUME NEW c \in Connections, ExpiredFails(c) PROVE HolderAsked'
  BY <1>23 DEF ExpiredFails, ReaderFails
<1>24. ASSUME NEW c \in Connections, NEW s \in Sessions, ReceiveReopen(c, s)
      PROVE  HolderAsked'
  <2>1. wire[c] = "NONE" /\ wire'[c] # "NONE" /\ \A d \in Connections \ {c} : wire'[d] = wire[d]
    BY <1>24, OnlyFromNone, NoneIsFirst DEF ReceiveReopen, Receives
  <2>2. CASE ReopenClaims(c, s)
    BY <1>24, <2>1, <2>2 DEF ReceiveReopen, ReopenClaims, Become
  <2>3. CASE ReopenRefused(c)
    BY <1>24, <2>1, <2>3 DEF ReceiveReopen, ReopenRefused, ReaderFails
  <2> QED
    BY <1>24, <2>2, <2>3 DEF ReceiveReopen
<1>25. ASSUME NEW c \in Connections, ReopenResizes(c) PROVE HolderAsked'
  BY <1>25 DEF ReopenResizes, Become
<1>26. ASSUME NEW c \in Connections, ReopenRejected(c) PROVE HolderAsked'
  BY <1>26 DEF ReopenRejected, ReaderFails
<1>27. ASSUME NEW c \in Connections, ReplayChecks(c) PROVE HolderAsked'
  BY <1>27 DEF ReplayChecks, Become
<1>28. ASSUME NEW c \in Connections, ReplaySends(c) PROVE HolderAsked'
  BY <1>28, SendKeepsNone DEF ReplaySends, Become
<1>29. ASSUME NEW c \in Connections, ReopenReleased(c) PROVE HolderAsked'
  BY <1>29, ConstantsAssumption DEF ReopenReleased, Become, Release
<1>30. ASSUME NEW k \in Credentials, CredentialExpires(k) PROVE HolderAsked'
  BY <1>30 DEF CredentialExpires
<1>31. ASSUME NEW c \in Connections, AuthorizationEnds(c) PROVE HolderAsked'
  BY <1>31 DEF AuthorizationEnds
<1>32. ASSUME NEW c \in Connections, AuthorizationFails(c) PROVE HolderAsked'
  BY <1>32 DEF AuthorizationFails
<1>33. ASSUME NEW s \in Sessions, SessionExpires(s) PROVE HolderAsked'
  BY <1>33 DEF SessionExpires
<1>34. ASSUME NEW s \in Sessions, ExpirerEnds(s) PROVE HolderAsked'
  BY <1>34 DEF ExpirerEnds
<1>35. ASSUME NEW s \in Sessions, CopyReads(s) PROVE HolderAsked'
  BY <1>35 DEF CopyReads
<1>36. ASSUME NEW s \in Sessions, CopySends(s) PROVE HolderAsked'
  BY <1>36, SendKeepsNone DEF CopySends
<1>37. ASSUME NEW s \in Sessions, CopyDetaches(s) PROVE HolderAsked'
  BY <1>37, ConstantsAssumption DEF CopyDetaches, Release
<1>38. ASSUME NEW s \in Sessions, CopyEnds(s) PROVE HolderAsked'
  BY <1>38 DEF CopyEnds
<1>39. ASSUME NEW s \in Sessions, CopyStops(s) PROVE HolderAsked'
  BY <1>39 DEF CopyStops
<1>40. ASSUME NEW g \in Goroutines, NEW s \in Sessions, CloseBegins(g, s)
      PROVE  HolderAsked'
  BY <1>40, ConstantsAssumption DEF CloseBegins, Fence
<1>41. ASSUME NEW s \in Sessions, CloseRemoves(s) PROVE HolderAsked'
  BY <1>41 DEF CloseRemoves
<1>42. ASSUME NEW s \in Sessions, CloseLooks(s) PROVE HolderAsked'
  BY <1>42 DEF CloseLooks
<1>43. ASSUME NEW s \in Sessions, CloseNotifies(s) PROVE HolderAsked'
  BY <1>43, SendKeepsNone DEF CloseNotifies
<1>44. ASSUME NEW g \in Goroutines, CloseReturned(g) PROVE HolderAsked'
  BY <1>44 DEF CloseReturned
<1>45. ASSUME NEW k \in Credentials, RevokeMarks(k) PROVE HolderAsked'
  BY <1>45 DEF RevokeMarks
<1>46. ASSUME NEW k \in Credentials, RevokeFences(k) PROVE HolderAsked'
  BY <1>46, ConstantsAssumption DEF RevokeFences, Fence
<1>47. ASSUME NEW k \in Credentials, NEW c \in Connections, RevokeFails(k, c)
      PROVE  HolderAsked'
  BY <1>47 DEF RevokeFails
<1>48. ASSUME NEW k \in Credentials, RevokeFailed(k) PROVE HolderAsked'
  BY <1>48 DEF RevokeFailed
<1>49. ASSUME NEW k \in Credentials, RevokeProceeds(k) PROVE HolderAsked'
  BY <1>49 DEF RevokeProceeds
<1>50. ASSUME StopMarks PROVE HolderAsked'
  BY <1>50 DEF StopMarks
<1>51. ASSUME StopFences PROVE HolderAsked'
  BY <1>51, ConstantsAssumption DEF StopFences, Fence
<1>52. ASSUME StopProceeds PROVE HolderAsked'
  BY <1>52 DEF StopProceeds
<1>53. ASSUME NEW c \in Connections, StopShutsDown(c) PROVE HolderAsked'
  BY <1>53 DEF StopShutsDown
<1>54. CASE UNCHANGED vars
  BY <1>54 DEF vars
<1> QED
  BY <1>1, <1>2, <1>3, <1>4, <1>5, <1>6, <1>7, <1>8, <1>9, <1>10, <1>11,
     <1>12, <1>13, <1>14, <1>15, <1>16, <1>17, <1>18, <1>19, <1>20, <1>21,
     <1>22, <1>23, <1>24, <1>25, <1>26, <1>27, <1>28, <1>29, <1>30, <1>31,
     <1>32, <1>33, <1>34, <1>35, <1>36, <1>37, <1>38, <1>39, <1>40, <1>41,
     <1>42, <1>43, <1>44, <1>45, <1>46, <1>47, <1>48, <1>49, <1>50, <1>51,
     <1>52, <1>53, <1>54 DEF Next, Environment, Agent, OpenSettles, ReadLoop,
     Teardown, AuthorizationLoop, CopyOutput, ExpireManaged, FinishClose,
     Closing, RevokeCredential, StopEndpoint

(* A send begins a shutdown at most, and never ends one.                   *)
LEMMA SendShuts ==
  ASSUME NEW c, NEW m, DownTypeOK, Written(c, m) \/ SendFails(c, m), NEW d \in Connections
  PROVE  shut'[d] = shut[d] \/ (shut[d] = "up" /\ shut'[d] \in {"lost", "failed"})
BY DEF Written, SendFails, Refused, Lost, StartShutdown, DownTypeOK

(* A connection that is gone holds nothing, whatever happens.              *)
LEMMA StepGone ==
  TypeInv /\ RegistryInv /\ GoneConnectionsHoldNothing /\ [Next]_vars => GoneConnectionsHoldNothing'
<1> SUFFICES ASSUME TypeInv, RegistryInv, GoneConnectionsHoldNothing, [Next]_vars PROVE GoneConnectionsHoldNothing'
  OBVIOUS
<1> USE DEF TypeInv, TypeOK, AttachTypeOK, RegistryTypeOK, WaitTypeOK,
            DownTypeOK, GoneConnectionsHoldNothing, attachVars, registryVars,
            waitVars, downVars
<1>1. ASSUME NEW c \in Connections, Connect(c) PROVE GoneConnectionsHoldNothing'
  BY <1>1 DEF Connect
<1>2. ASSUME NEW c \in Connections, ConnectionLost(c)
      PROVE  GoneConnectionsHoldNothing'
  BY <1>2 DEF ConnectionLost, StartShutdown
<1>3. ASSUME NEW c \in Connections, RecoverableFailure(c)
      PROVE  GoneConnectionsHoldNothing'
  BY <1>3 DEF RecoverableFailure
<1>4. ASSUME NEW c \in Connections, FailReports(c)
      PROVE  GoneConnectionsHoldNothing'
  BY <1>4 DEF FailReports
<1>5. ASSUME NEW c \in Connections, FailShutsDown(c)
      PROVE  GoneConnectionsHoldNothing'
  BY <1>5 DEF FailShutsDown, StartShutdown
<1>6. ASSUME NEW c \in Connections, Disconnected(c)
      PROVE  GoneConnectionsHoldNothing'
  <2>1. CASE destroy[c]
    BY <1>6, <2>1, ConstantsAssumption DEF Disconnected, Goroutines, Shutdown, RegistryInv, OnlyRunningIsHeld, InActive
  <2>2. CASE ~destroy[c]
    BY <1>6, <2>2, ConstantsAssumption DEF Disconnected, Release, RegistryInv, OnlyRunningIsHeld, InActive
  <2> QED
    BY <2>1, <2>2
<1>7. ASSUME NEW c \in Connections, ShutdownEnds(c)
      PROVE  GoneConnectionsHoldNothing'
  BY <1>7 DEF ShutdownEnds
<1>8. ASSUME NEW c \in Connections, ReceiveRejected(c)
      PROVE  GoneConnectionsHoldNothing'
  BY <1>8 DEF ReceiveRejected
<1>9. ASSUME NEW c \in Connections, ReceiveError(c)
      PROVE  GoneConnectionsHoldNothing'
  BY <1>9 DEF ReceiveError, StartShutdown
<1>10. ASSUME NEW c \in Connections, ReceivePing(c)
      PROVE  GoneConnectionsHoldNothing'
  BY <1>10 DEF ReceivePing
<1>11. ASSUME NEW c \in Connections, NEW s \in Sessions, ReceiveOpen(c, s)
      PROVE  GoneConnectionsHoldNothing'
  BY <1>11 DEF ReceiveOpen, OpenReserves, OpenRefused
<1>12. ASSUME NEW c \in Connections, OpenFails(c)
      PROVE  GoneConnectionsHoldNothing'
  BY <1>12 DEF OpenFails
<1>13. ASSUME NEW c \in Connections, OpenRegisters(c)
      PROVE  GoneConnectionsHoldNothing'
  BY <1>13 DEF OpenRegisters, AdmissionError, IsDone
<1>14. ASSUME NEW c \in Connections, Reply(c) PROVE GoneConnectionsHoldNothing'
  BY <1>14, SendShuts DEF Reply
<1>15. ASSUME NEW c \in Connections, ReaderBreaks(c)
      PROVE  GoneConnectionsHoldNothing'
  BY <1>15 DEF ReaderBreaks
<1>16. ASSUME NEW c \in Connections, ReaderEnds(c)
      PROVE  GoneConnectionsHoldNothing'
  BY <1>16 DEF ReaderEnds
<1>17. ASSUME NEW c \in Connections, ReceiveDetach(c)
      PROVE  GoneConnectionsHoldNothing'
  BY <1>17 DEF ReceiveDetach
<1>18. ASSUME NEW c \in Connections, HandleDetach(c)
      PROVE  GoneConnectionsHoldNothing'
  <2>1. CASE Owned(c, target[c])
    BY <1>18, <2>1, ConstantsAssumption DEF HandleDetach, Release
  <2>2. CASE ~Owned(c, target[c])
    BY <1>18, <2>2 DEF HandleDetach
  <2> QED
    BY <2>1, <2>2
<1>19. ASSUME NEW c \in Connections, ReceiveClose(c)
      PROVE  GoneConnectionsHoldNothing'
  BY <1>19 DEF ReceiveClose
<1>20. ASSUME NEW c \in Connections, HandleClose(c)
      PROVE  GoneConnectionsHoldNothing'
  <2>1. \A d \in Connections : toClose'[Shutdown(d)] = toClose[Shutdown(d)]
    <3>1. CASE Owned(c, target[c])
      BY <1>20, <3>1, GoroutineNames DEF HandleClose
    <3>2. CASE ~Owned(c, target[c])
      BY <1>20, <3>2 DEF HandleClose
    <3> QED
      BY <3>1, <3>2
  <2> QED
    BY <1>20, <2>1 DEF HandleClose
<1>21. ASSUME NEW c \in Connections, CloseReturns(c)
      PROVE  GoneConnectionsHoldNothing'
  BY <1>21 DEF CloseReturns
<1>22. ASSUME NEW c \in Connections, HandleExpired(c)
      PROVE  GoneConnectionsHoldNothing'
  BY <1>22 DEF HandleExpired, Shutdown, Reader
<1>23. ASSUME NEW c \in Connections, ExpiredFails(c)
      PROVE  GoneConnectionsHoldNothing'
  BY <1>23 DEF ExpiredFails
<1>24. ASSUME NEW c \in Connections, NEW s \in Sessions, ReceiveReopen(c, s)
      PROVE  GoneConnectionsHoldNothing'
  <2>1. UNCHANGED <<shut, toClose>>
    BY <1>24 DEF ReceiveReopen, waitVars
  <2>2. CASE ReopenClaims(c, s)
    BY <2>1, <2>2 DEF ReopenClaims, Reopenable, AdmissionError, IsDone
  <2>3. CASE ReopenRefused(c)
    BY <2>1, <2>3 DEF ReopenRefused
  <2> QED
    BY <1>24, <2>2, <2>3 DEF ReceiveReopen
<1>25. ASSUME NEW c \in Connections, ReopenResizes(c)
      PROVE  GoneConnectionsHoldNothing'
  <2>1. \A d \in Connections : toClose'[Shutdown(d)] = toClose[Shutdown(d)]
    BY <1>25, GoroutineNames DEF ReopenResizes
  <2> QED
    BY <1>25, <2>1 DEF ReopenResizes
<1>26. ASSUME NEW c \in Connections, ReopenRejected(c)
      PROVE  GoneConnectionsHoldNothing'
  BY <1>26 DEF ReopenRejected
<1>27. ASSUME NEW c \in Connections, ReplayChecks(c)
      PROVE  GoneConnectionsHoldNothing'
  BY <1>27 DEF ReplayChecks
<1>28. ASSUME NEW c \in Connections, ReplaySends(c)
      PROVE  GoneConnectionsHoldNothing'
  BY <1>28, SendShuts DEF ReplaySends
<1>29. ASSUME NEW c \in Connections, ReopenReleased(c)
      PROVE  GoneConnectionsHoldNothing'
  BY <1>29, ConstantsAssumption DEF ReopenReleased, Release
<1>30. ASSUME NEW k \in Credentials, CredentialExpires(k)
      PROVE  GoneConnectionsHoldNothing'
  BY <1>30 DEF CredentialExpires
<1>31. ASSUME NEW c \in Connections, AuthorizationEnds(c)
      PROVE  GoneConnectionsHoldNothing'
  BY <1>31 DEF AuthorizationEnds, Shutdown, Authorization
<1>32. ASSUME NEW c \in Connections, AuthorizationFails(c)
      PROVE  GoneConnectionsHoldNothing'
  BY <1>32 DEF AuthorizationFails
<1>33. ASSUME NEW s \in Sessions, SessionExpires(s)
      PROVE  GoneConnectionsHoldNothing'
  BY <1>33 DEF SessionExpires, Shutdown, Expire
<1>34. ASSUME NEW s \in Sessions, ExpirerEnds(s) PROVE GoneConnectionsHoldNothing'
  BY <1>34 DEF ExpirerEnds
<1>35. ASSUME NEW s \in Sessions, CopyReads(s) PROVE GoneConnectionsHoldNothing'
  BY <1>35 DEF CopyReads
<1>36. ASSUME NEW s \in Sessions, CopySends(s) PROVE GoneConnectionsHoldNothing'
  BY <1>36, SendShuts DEF CopySends
<1>37. ASSUME NEW s \in Sessions, CopyDetaches(s)
      PROVE  GoneConnectionsHoldNothing'
  BY <1>37, ConstantsAssumption DEF CopyDetaches, Release
<1>38. ASSUME NEW s \in Sessions, CopyEnds(s) PROVE GoneConnectionsHoldNothing'
  BY <1>38 DEF CopyEnds, Shutdown, Copy
<1>39. ASSUME NEW s \in Sessions, CopyStops(s) PROVE GoneConnectionsHoldNothing'
  BY <1>39 DEF CopyStops
<1>40. ASSUME NEW g \in Goroutines, NEW s \in Sessions, CloseBegins(g, s)
      PROVE  GoneConnectionsHoldNothing'
  BY <1>40, ConstantsAssumption DEF CloseBegins, Fence
<1>41. ASSUME NEW s \in Sessions, CloseRemoves(s)
      PROVE  GoneConnectionsHoldNothing'
  BY <1>41 DEF CloseRemoves
<1>42. ASSUME NEW s \in Sessions, CloseLooks(s) PROVE GoneConnectionsHoldNothing'
  BY <1>42 DEF CloseLooks
<1>43. ASSUME NEW s \in Sessions, CloseNotifies(s)
      PROVE  GoneConnectionsHoldNothing'
  BY <1>43, SendShuts DEF CloseNotifies
<1>44. ASSUME NEW g \in Goroutines, CloseReturned(g)
      PROVE  GoneConnectionsHoldNothing'
  BY <1>44, ConstantsAssumption DEF CloseReturned, RegistryInv,
     OnlyRunningIsHeld
<1>45. ASSUME NEW k \in Credentials, RevokeMarks(k)
      PROVE  GoneConnectionsHoldNothing'
  BY <1>45 DEF RevokeMarks
<1>46. ASSUME NEW k \in Credentials, RevokeFences(k)
      PROVE  GoneConnectionsHoldNothing'
  BY <1>46, ConstantsAssumption DEF RevokeFences, Fence, Shutdown, Revoke
<1>47. ASSUME NEW k \in Credentials, NEW c \in Connections, RevokeFails(k, c)
      PROVE  GoneConnectionsHoldNothing'
  BY <1>47 DEF RevokeFails
<1>48. ASSUME NEW k \in Credentials, RevokeFailed(k)
      PROVE  GoneConnectionsHoldNothing'
  BY <1>48 DEF RevokeFailed
<1>49. ASSUME NEW k \in Credentials, RevokeProceeds(k)
      PROVE  GoneConnectionsHoldNothing'
  BY <1>49 DEF RevokeProceeds
<1>50. ASSUME StopMarks PROVE GoneConnectionsHoldNothing'
  BY <1>50 DEF StopMarks
<1>51. ASSUME StopFences PROVE GoneConnectionsHoldNothing'
  BY <1>51, ConstantsAssumption DEF StopFences, Fence, Shutdown, Stop
<1>52. ASSUME StopProceeds PROVE GoneConnectionsHoldNothing'
  BY <1>52 DEF StopProceeds
<1>53. ASSUME NEW c \in Connections, StopShutsDown(c)
      PROVE  GoneConnectionsHoldNothing'
  BY <1>53 DEF StopShutsDown, StartShutdown
<1>54. CASE UNCHANGED vars
  BY <1>54 DEF vars
<1> QED
  BY <1>1, <1>2, <1>3, <1>4, <1>5, <1>6, <1>7, <1>8, <1>9, <1>10, <1>11,
     <1>12, <1>13, <1>14, <1>15, <1>16, <1>17, <1>18, <1>19, <1>20, <1>21,
     <1>22, <1>23, <1>24, <1>25, <1>26, <1>27, <1>28, <1>29, <1>30, <1>31,
     <1>32, <1>33, <1>34, <1>35, <1>36, <1>37, <1>38, <1>39, <1>40, <1>41,
     <1>42, <1>43, <1>44, <1>45, <1>46, <1>47, <1>48, <1>49, <1>50, <1>51,
     <1>52, <1>53, <1>54 DEF Next, Environment, Agent, OpenSettles, ReadLoop,
     Teardown, AuthorizationLoop, CopyOutput, ExpireManaged, FinishClose,
     Closing, RevokeCredential, StopEndpoint

(* A replay has a read loop at work on it, and a refused reopen its close. *)
ReplayInv == ReplayHasReader /\ RejectingCloses

(* Every step keeps the two facts about replays.                           *)
LEMMA StepReplay ==
  TypeInv /\ RegistryInv /\ HolderAsked /\ ReplayInv /\ [Next]_vars => ReplayInv'
<1> SUFFICES ASSUME TypeInv, RegistryInv, HolderAsked, ReplayInv, [Next]_vars PROVE ReplayInv'
  OBVIOUS
<1> USE DEF TypeInv, TypeOK, NamesTarget, AttachTypeOK, RegistryTypeOK,
            WaitTypeOK, ReaderTypeOK, ReplayInv, ReplayHasReader,
            RejectingCloses, HolderAsked, RegistryInv, attachVars, registryVars,
            waitVars, readerVars
<1>1. ASSUME NEW c \in Connections, Connect(c) PROVE ReplayInv'
  BY <1>1 DEF Connect
<1>2. ASSUME NEW c \in Connections, ConnectionLost(c) PROVE ReplayInv'
  BY <1>2 DEF ConnectionLost
<1>3. ASSUME NEW c \in Connections, RecoverableFailure(c) PROVE ReplayInv'
  BY <1>3 DEF RecoverableFailure
<1>4. ASSUME NEW c \in Connections, FailReports(c) PROVE ReplayInv'
  BY <1>4 DEF FailReports
<1>5. ASSUME NEW c \in Connections, FailShutsDown(c) PROVE ReplayInv'
  BY <1>5 DEF FailShutsDown
<1>6. ASSUME NEW c \in Connections, Disconnected(c) PROVE ReplayInv'
  <2>1. CASE destroy[c]
    BY <1>6, <2>1, GoroutineNames DEF Disconnected
  <2>2. CASE ~destroy[c]
    BY <1>6, <2>2, ConstantsAssumption DEF Disconnected, Release, InActive
  <2> QED
    BY <2>1, <2>2
<1>7. ASSUME NEW c \in Connections, ShutdownEnds(c) PROVE ReplayInv'
  BY <1>7 DEF ShutdownEnds
<1>8. ASSUME NEW c \in Connections, ReceiveRejected(c) PROVE ReplayInv'
  BY <1>8 DEF ReceiveRejected, ReaderFails
<1>9. ASSUME NEW c \in Connections, ReceiveError(c) PROVE ReplayInv'
  BY <1>9 DEF ReceiveError, ReaderFails
<1>10. ASSUME NEW c \in Connections, ReceivePing(c) PROVE ReplayInv'
  BY <1>10 DEF ReceivePing, Become
<1>11. ASSUME NEW c \in Connections, NEW s \in Sessions, ReceiveOpen(c, s)
      PROVE  ReplayInv'
  <2>1. wire[c] = "NONE"
    BY <1>11, OnlyFromNone DEF ReceiveOpen, Receives
  <2>2. \A s1 \in Sessions : owner[s1] # c
    BY <2>1
  <2>3. reader[c] = "idle"
    BY <1>11 DEF ReceiveOpen, Receives
  <2>4. CASE OpenReserves(c, s)
    BY <1>11, <2>2, <2>3, <2>4 DEF ReceiveOpen, OpenReserves, Become
  <2>5. CASE OpenRefused(c)
    BY <1>11, <2>2, <2>3, <2>5 DEF ReceiveOpen, OpenRefused, ReaderFails
  <2> QED
    BY <1>11, <2>4, <2>5 DEF ReceiveOpen
<1>12. ASSUME NEW c \in Connections, OpenFails(c) PROVE ReplayInv'
  BY <1>12 DEF OpenFails, ReaderFails
<1>13. ASSUME NEW c \in Connections, OpenRegisters(c) PROVE ReplayInv'
  <2>1. target[c] \in Sessions /\ ~replaying[target[c]] /\ reader[c] = "opening"
    BY <1>13 DEF OpenRegisters, OpeningIsPending, OnlyRunningIsHeld
  <2>2. ReplayHasReader'
    BY <1>13, <2>1 DEF OpenRegisters, Become
  <2>3. RejectingCloses'
    BY <1>13, <2>1 DEF OpenRegisters, Become, OpeningIsPending
  <2> QED
    BY <2>2, <2>3
<1>14. ASSUME NEW c \in Connections, Reply(c) PROVE ReplayInv'
  BY <1>14 DEF Reply, Become, ReplyTo
<1>15. ASSUME NEW c \in Connections, ReaderBreaks(c) PROVE ReplayInv'
  BY <1>15 DEF ReaderBreaks, ReaderFails
<1>16. ASSUME NEW c \in Connections, ReaderEnds(c) PROVE ReplayInv'
  BY <1>16 DEF ReaderEnds, Become
<1>17. ASSUME NEW c \in Connections, ReceiveDetach(c) PROVE ReplayInv'
  BY <1>17 DEF ReceiveDetach, Become, Receives
<1>18. ASSUME NEW c \in Connections, HandleDetach(c) PROVE ReplayInv'
  <2>1. CASE Owned(c, target[c])
    BY <1>18, <2>1 DEF HandleDetach, Become, Release, Owned
  <2>2. CASE ~Owned(c, target[c])
    BY <1>18, <2>2 DEF HandleDetach, ReaderFails
  <2> QED
    BY <2>1, <2>2
<1>19. ASSUME NEW c \in Connections, ReceiveClose(c) PROVE ReplayInv'
  BY <1>19 DEF ReceiveClose, Become, Receives
<1>20. ASSUME NEW c \in Connections, HandleClose(c) PROVE ReplayInv'
  <2>1. CASE Owned(c, target[c])
    BY <1>20, <2>1, GoroutineNames DEF HandleClose, Become, Owned
  <2>2. CASE ~Owned(c, target[c])
    BY <1>20, <2>2 DEF HandleClose, ReaderFails
  <2> QED
    BY <2>1, <2>2
<1>21. ASSUME NEW c \in Connections, CloseReturns(c) PROVE ReplayInv'
  BY <1>21 DEF CloseReturns
<1>22. ASSUME NEW c \in Connections, HandleExpired(c) PROVE ReplayInv'
  BY <1>22 DEF HandleExpired, Become, Reader
<1>23. ASSUME NEW c \in Connections, ExpiredFails(c) PROVE ReplayInv'
  BY <1>23 DEF ExpiredFails, ReaderFails
<1>24. ASSUME NEW c \in Connections, NEW s \in Sessions, ReceiveReopen(c, s)
      PROVE  ReplayInv'
  <2>1. wire[c] = "NONE"
    BY <1>24, OnlyFromNone DEF ReceiveReopen, Receives
  <2>2. \A s1 \in Sessions : owner[s1] # c
    BY <2>1
  <2>3. reader[c] = "idle"
    BY <1>24 DEF ReceiveReopen, Receives
  <2>4. CASE ReopenClaims(c, s)
    BY <1>24, <2>2, <2>3, <2>4 DEF ReceiveReopen, ReopenClaims, Become, Reopenable
  <2>5. CASE ReopenRefused(c)
    BY <1>24, <2>2, <2>3, <2>5 DEF ReceiveReopen, ReopenRefused, ReaderFails
  <2> QED
    BY <1>24, <2>4, <2>5 DEF ReceiveReopen
<1>25. ASSUME NEW c \in Connections, ReopenResizes(c) PROVE ReplayInv'
  <2>1. reader[c] = "resize" /\ target[c] \in Sessions
    BY <1>25 DEF ReopenResizes
  <2>2. CASE Become(c, "replay") /\ UNCHANGED toClose
    BY <1>25, <2>1, <2>2 DEF ReopenResizes, Become
  <2>3. CASE Become(c, "rejecting") /\ toClose' = [toClose EXCEPT ![Reader(c)] = {target[c]}]
    BY <1>25, <2>1, <2>3, GoroutineNames DEF ReopenResizes, Become
  <2> QED
    BY <1>25, <2>2, <2>3 DEF ReopenResizes
<1>26. ASSUME NEW c \in Connections, ReopenRejected(c) PROVE ReplayInv'
  BY <1>26 DEF ReopenRejected, ReaderFails
<1>27. ASSUME NEW c \in Connections, ReplayChecks(c) PROVE ReplayInv'
  BY <1>27 DEF ReplayChecks, Become, Replays
<1>28. ASSUME NEW c \in Connections, ReplaySends(c) PROVE ReplayInv'
  BY <1>28 DEF ReplaySends, Become
<1>29. ASSUME NEW c \in Connections, ReopenReleased(c) PROVE ReplayInv'
  BY <1>29, ConstantsAssumption DEF ReopenReleased, Become, Release, Replays
<1>30. ASSUME NEW k \in Credentials, CredentialExpires(k) PROVE ReplayInv'
  BY <1>30 DEF CredentialExpires
<1>31. ASSUME NEW c \in Connections, AuthorizationEnds(c) PROVE ReplayInv'
  BY <1>31 DEF AuthorizationEnds, Reader, Authorization
<1>32. ASSUME NEW c \in Connections, AuthorizationFails(c) PROVE ReplayInv'
  BY <1>32 DEF AuthorizationFails
<1>33. ASSUME NEW s \in Sessions, SessionExpires(s) PROVE ReplayInv'
  BY <1>33 DEF SessionExpires, Reader, Expire
<1>34. ASSUME NEW s \in Sessions, ExpirerEnds(s) PROVE ReplayInv'
  BY <1>34 DEF ExpirerEnds
<1>35. ASSUME NEW s \in Sessions, CopyReads(s) PROVE ReplayInv'
  BY <1>35 DEF CopyReads
<1>36. ASSUME NEW s \in Sessions, CopySends(s) PROVE ReplayInv'
  BY <1>36 DEF CopySends
<1>37. ASSUME NEW s \in Sessions, CopyDetaches(s) PROVE ReplayInv'
  BY <1>37, ConstantsAssumption DEF CopyDetaches, Release
<1>38. ASSUME NEW s \in Sessions, CopyEnds(s) PROVE ReplayInv'
  BY <1>38 DEF CopyEnds, Reader, Copy
<1>39. ASSUME NEW s \in Sessions, CopyStops(s) PROVE ReplayInv'
  BY <1>39 DEF CopyStops
<1>40. ASSUME NEW g \in Goroutines, NEW s \in Sessions, CloseBegins(g, s)
      PROVE  ReplayInv'
  BY <1>40, ConstantsAssumption DEF CloseBegins, Fence
<1>41. ASSUME NEW s \in Sessions, CloseRemoves(s) PROVE ReplayInv'
  BY <1>41 DEF CloseRemoves
<1>42. ASSUME NEW s \in Sessions, CloseLooks(s) PROVE ReplayInv'
  BY <1>42 DEF CloseLooks
<1>43. ASSUME NEW s \in Sessions, CloseNotifies(s) PROVE ReplayInv'
  BY <1>43 DEF CloseNotifies
<1>44. ASSUME NEW g \in Goroutines, CloseReturned(g) PROVE ReplayInv'
  BY <1>44 DEF CloseReturned
<1>45. ASSUME NEW k \in Credentials, RevokeMarks(k) PROVE ReplayInv'
  BY <1>45 DEF RevokeMarks
<1>46. ASSUME NEW k \in Credentials, RevokeFences(k) PROVE ReplayInv'
  <2>1. \A s \in Sessions : life'[s] = "active" => life[s] = "active" /\ owner'[s] = owner[s]
    BY <1>46 DEF RevokeFences, Fence
  <2>2. ReplayHasReader'
    BY <1>46, <2>1 DEF RevokeFences
  <2>3. \A d \in Connections : toClose'[Reader(d)] = toClose[Reader(d)]
    BY <1>46, GoroutineNames DEF RevokeFences, Revoke, Reader
  <2>4. \A s \in Sessions : life[s] \notin {"unused", "pending"} => life'[s] \notin {"unused", "pending"}
    BY <1>46 DEF RevokeFences, Fence
  <2>6. UNCHANGED <<reader, target>>
    BY <1>46 DEF RevokeFences
  <2>7. \A c \in Connections : reader[c] \in {"resize", "rejecting"} => target[c] \in Sessions
    OBVIOUS
  <2>5. RejectingCloses'
    BY <2>1, <2>3, <2>4, <2>6, <2>7
  <2> QED
    BY <2>2, <2>5
<1>47. ASSUME NEW k \in Credentials, NEW c \in Connections, RevokeFails(k, c)
      PROVE  ReplayInv'
  BY <1>47 DEF RevokeFails
<1>48. ASSUME NEW k \in Credentials, RevokeFailed(k) PROVE ReplayInv'
  BY <1>48 DEF RevokeFailed
<1>49. ASSUME NEW k \in Credentials, RevokeProceeds(k) PROVE ReplayInv'
  BY <1>49 DEF RevokeProceeds
<1>50. ASSUME StopMarks PROVE ReplayInv'
  BY <1>50 DEF StopMarks
<1>51. ASSUME StopFences PROVE ReplayInv'
  <2>1. \A s \in Sessions : life'[s] = "active" => life[s] = "active" /\ owner'[s] = owner[s]
    BY <1>51 DEF StopFences, Fence
  <2>2. ReplayHasReader'
    BY <1>51, <2>1 DEF StopFences
  <2>3. \A d \in Connections : toClose'[Reader(d)] = toClose[Reader(d)]
    BY <1>51, GoroutineNames DEF StopFences, Stop, Reader
  <2>4. \A s \in Sessions : life[s] \notin {"unused", "pending"} => life'[s] \notin {"unused", "pending"}
    BY <1>51 DEF StopFences, Fence
  <2>6. UNCHANGED <<reader, target>>
    BY <1>51 DEF StopFences
  <2>7. \A c \in Connections : reader[c] \in {"resize", "rejecting"} => target[c] \in Sessions
    OBVIOUS
  <2>5. RejectingCloses'
    BY <2>1, <2>3, <2>4, <2>6, <2>7
  <2> QED
    BY <2>2, <2>5
<1>52. ASSUME StopProceeds PROVE ReplayInv'
  BY <1>52 DEF StopProceeds
<1>53. ASSUME NEW c \in Connections, StopShutsDown(c) PROVE ReplayInv'
  BY <1>53 DEF StopShutsDown
<1>54. CASE UNCHANGED vars
  BY <1>54 DEF vars
<1> QED
  BY <1>1, <1>2, <1>3, <1>4, <1>5, <1>6, <1>7, <1>8, <1>9, <1>10, <1>11,
     <1>12, <1>13, <1>14, <1>15, <1>16, <1>17, <1>18, <1>19, <1>20, <1>21,
     <1>22, <1>23, <1>24, <1>25, <1>26, <1>27, <1>28, <1>29, <1>30, <1>31,
     <1>32, <1>33, <1>34, <1>35, <1>36, <1>37, <1>38, <1>39, <1>40, <1>41,
     <1>42, <1>43, <1>44, <1>45, <1>46, <1>47, <1>48, <1>49, <1>50, <1>51,
     <1>52, <1>53, <1>54 DEF Next, Environment, Agent, OpenSettles, ReadLoop,
     Teardown, AuthorizationLoop, CopyOutput, ExpireManaged, FinishClose,
     Closing, RevokeCredential, StopEndpoint

(* IInv holds from the start ...                                           *)
LEMMA InitSafe == Init => IInv
<1> SUFFICES ASSUME Init PROVE IInv
  OBVIOUS
<1>1. TypeInv
  BY InitTyped
<1>2. HeldOrDetached /\ HolderIsCreator /\ NothingOutlivesTheFence /\ OneSessionPerConnection
  BY ConstantsAssumption
     DEF Init, HeldOrDetached, HolderIsCreator, NothingOutlivesTheFence,
         OneSessionPerConnection
<1>3. GoneConnectionsHoldNothing /\ ReplayHasReader /\ OpeningIsPending /\ OnlyRunningIsHeld
  BY ConstantsAssumption
     DEF Init, GoneConnectionsHoldNothing, ReplayHasReader, OpeningIsPending,
         OnlyRunningIsHeld
<1>4. HolderAsked /\ RejectingCloses
  BY ConstantsAssumption DEF Init, HolderAsked, RejectingCloses
<1> QED
  BY <1>1, <1>2, <1>3, <1>4 DEF IInv, TypeInv

(* ... and every step keeps it.                                            *)
LEMMA StepSafe == IInv /\ [Next]_vars => IInv'
<1> SUFFICES ASSUME IInv, [Next]_vars PROVE IInv'
  OBVIOUS
<1>1. TypeInv /\ RegistryInv /\ HolderAsked /\ ReplayInv /\ GoneConnectionsHoldNothing
  BY DEF IInv, TypeInv, RegistryInv, ReplayInv
<1>2. TypeInv'
  BY <1>1, StepTyped, StepNames DEF TypeInv
<1>3. RegistryInv' /\ HolderAsked' /\ ReplayInv' /\ GoneConnectionsHoldNothing'
  BY <1>1, StepRegistry, StepHolder, StepReplay, StepGone
<1>4. OneSessionPerConnection'
  BY <1>2, <1>3 DEF TypeInv, TypeOK, AttachTypeOK, HolderAsked, OneSessionPerConnection
<1> QED
  BY <1>2, <1>3, <1>4 DEF IInv, TypeInv, RegistryInv, ReplayInv

(* The invariant is one of the specification.                              *)
LEMMA Safe == Spec => []IInv
BY InitSafe, StepSafe, PTL DEF Spec

(* No session of a revoked credential, nor of a stopping agent, runs.      *)
THEOREM FenceHolds == Spec => []NothingOutlivesTheFence
<1>1. IInv => NothingOutlivesTheFence
  BY DEF IInv
<1> QED
  BY <1>1, Safe, PTL

(* A running session is held or can be reopened, never both or neither.    *)
THEOREM NeverStranded == Spec => []HeldOrDetached
<1>1. IInv => HeldOrDetached
  BY DEF IInv
<1> QED
  BY <1>1, Safe, PTL

(* Only its own credential and device ever hold a session.                 *)
THEOREM HeldByItsOwn == Spec => []HolderIsCreator
<1>1. IInv => HolderIsCreator
  BY DEF IInv
<1> QED
  BY <1>1, Safe, PTL

(* A connection that is gone holds no session.                             *)
THEOREM GoneHoldsNothing == Spec => []GoneConnectionsHoldNothing
<1>1. IInv => GoneConnectionsHoldNothing
  BY DEF IInv
<1> QED
  BY <1>1, Safe, PTL

(* A connection holds one session.                                         *)
THEOREM OneEach == Spec => []OneSessionPerConnection
<1>1. IInv => OneSessionPerConnection
  BY DEF IInv
<1> QED
  BY <1>1, Safe, PTL

(* A session is only marked as replaying while a read loop replays it.     *)
THEOREM ReplayIsRead == Spec => []ReplayHasReader
<1>1. IInv => ReplayHasReader
  BY DEF IInv
<1> QED
  BY <1>1, Safe, PTL

(* Whoever closes a session first closes it for good.                      *)
THEOREM OneCloser == Spec => ClosedOnce
<1> DEFINE A ==
     \A s \in Sessions :
       /\ closer[s] # NoCloser => closer'[s] = closer[s]
       /\ life[s] \in {"fenced", "removed", "notifying", "done"} =>
            life'[s] \in {"fenced", "removed", "notifying", "done"}
<1>0. ASSUME IInv, [Next]_vars PROVE A \/ UNCHANGED vars
  <2> USE <1>0 DEF IInv, TypeOK, RegistryTypeOK, TicketTypeOK, AttachTypeOK,
      NamesTarget, OnlyRunningIsHeld, OpeningIsPending, registryVars,
      ticketVars, fenceFlags, attachVars
  <2>1. ASSUME NEW c \in Connections, Connect(c) PROVE A
    BY <2>1 DEF Connect
  <2>2. ASSUME NEW c \in Connections, ConnectionLost(c) PROVE A
    BY <2>2 DEF ConnectionLost
  <2>3. ASSUME NEW c \in Connections, RecoverableFailure(c) PROVE A
    BY <2>3 DEF RecoverableFailure
  <2>4. ASSUME NEW c \in Connections, FailReports(c) PROVE A
    BY <2>4 DEF FailReports
  <2>5. ASSUME NEW c \in Connections, FailShutsDown(c) PROVE A
    BY <2>5 DEF FailShutsDown
  <2>6. ASSUME NEW c \in Connections, Disconnected(c) PROVE A
    BY <2>6 DEF Disconnected
  <2>7. ASSUME NEW c \in Connections, ShutdownEnds(c) PROVE A
    BY <2>7 DEF ShutdownEnds
  <2>8. ASSUME NEW c \in Connections, ReceiveRejected(c) PROVE A
    BY <2>8 DEF ReceiveRejected
  <2>9. ASSUME NEW c \in Connections, ReceiveError(c) PROVE A
    BY <2>9 DEF ReceiveError
  <2>10. ASSUME NEW c \in Connections, ReceivePing(c) PROVE A
    BY <2>10 DEF ReceivePing
  <2>11. ASSUME NEW c \in Connections, NEW s \in Sessions, ReceiveOpen(c, s) PROVE A
    <3>1. CASE OpenReserves(c, s)
      BY <2>11, <3>1 DEF ReceiveOpen, OpenReserves
    <3>2. CASE OpenRefused(c)
      BY <2>11, <3>2 DEF ReceiveOpen, OpenRefused
    <3> QED
      BY <2>11, <3>1, <3>2 DEF ReceiveOpen
  <2>12. ASSUME NEW c \in Connections, OpenFails(c) PROVE A
    BY <2>12 DEF OpenFails, ReaderFails
  <2>13. ASSUME NEW c \in Connections, OpenRegisters(c) PROVE A
    BY <2>13 DEF OpenRegisters
  <2>14. ASSUME NEW c \in Connections, Reply(c) PROVE A
    BY <2>14 DEF Reply
  <2>15. ASSUME NEW c \in Connections, ReaderBreaks(c) PROVE A
    BY <2>15 DEF ReaderBreaks
  <2>16. ASSUME NEW c \in Connections, ReaderEnds(c) PROVE A
    BY <2>16 DEF ReaderEnds
  <2>17. ASSUME NEW c \in Connections, ReceiveDetach(c) PROVE A
    BY <2>17 DEF ReceiveDetach
  <2>18. ASSUME NEW c \in Connections, HandleDetach(c) PROVE A
    BY <2>18 DEF HandleDetach
  <2>19. ASSUME NEW c \in Connections, ReceiveClose(c) PROVE A
    BY <2>19 DEF ReceiveClose
  <2>20. ASSUME NEW c \in Connections, HandleClose(c) PROVE A
    BY <2>20 DEF HandleClose
  <2>21. ASSUME NEW c \in Connections, CloseReturns(c) PROVE A
    BY <2>21 DEF CloseReturns
  <2>22. ASSUME NEW c \in Connections, HandleExpired(c) PROVE A
    BY <2>22 DEF HandleExpired
  <2>23. ASSUME NEW c \in Connections, ExpiredFails(c) PROVE A
    BY <2>23 DEF ExpiredFails
  <2>24. ASSUME NEW c \in Connections, NEW s \in Sessions, ReceiveReopen(c, s)
        PROVE  A
    BY <2>24 DEF ReceiveReopen
  <2>25. ASSUME NEW c \in Connections, ReopenResizes(c) PROVE A
    BY <2>25 DEF ReopenResizes
  <2>26. ASSUME NEW c \in Connections, ReopenRejected(c) PROVE A
    BY <2>26 DEF ReopenRejected
  <2>27. ASSUME NEW c \in Connections, ReplayChecks(c) PROVE A
    BY <2>27 DEF ReplayChecks
  <2>28. ASSUME NEW c \in Connections, ReplaySends(c) PROVE A
    BY <2>28 DEF ReplaySends
  <2>29. ASSUME NEW c \in Connections, ReopenReleased(c) PROVE A
    BY <2>29 DEF ReopenReleased
  <2>30. ASSUME NEW k \in Credentials, CredentialExpires(k) PROVE A
    BY <2>30 DEF CredentialExpires
  <2>31. ASSUME NEW c \in Connections, AuthorizationEnds(c) PROVE A
    BY <2>31 DEF AuthorizationEnds
  <2>32. ASSUME NEW c \in Connections, AuthorizationFails(c) PROVE A
    BY <2>32 DEF AuthorizationFails
  <2>33. ASSUME NEW s \in Sessions, SessionExpires(s) PROVE A
    BY <2>33 DEF SessionExpires
  <2>34. ASSUME NEW s \in Sessions, ExpirerEnds(s) PROVE A
    BY <2>34 DEF ExpirerEnds
  <2>35. ASSUME NEW s \in Sessions, CopyReads(s) PROVE A
    BY <2>35 DEF CopyReads
  <2>36. ASSUME NEW s \in Sessions, CopySends(s) PROVE A
    BY <2>36 DEF CopySends
  <2>37. ASSUME NEW s \in Sessions, CopyDetaches(s) PROVE A
    BY <2>37 DEF CopyDetaches
  <2>38. ASSUME NEW s \in Sessions, CopyEnds(s) PROVE A
    BY <2>38 DEF CopyEnds
  <2>39. ASSUME NEW s \in Sessions, CopyStops(s) PROVE A
    BY <2>39 DEF CopyStops
  <2>40. ASSUME NEW g \in Goroutines, NEW s \in Sessions, CloseBegins(g, s) PROVE A
    BY <2>40 DEF CloseBegins, Fence
  <2>41. ASSUME NEW s \in Sessions, CloseRemoves(s) PROVE A
    BY <2>41 DEF CloseRemoves
  <2>42. ASSUME NEW s \in Sessions, CloseLooks(s) PROVE A
    BY <2>42 DEF CloseLooks
  <2>43. ASSUME NEW s \in Sessions, CloseNotifies(s) PROVE A
    BY <2>43 DEF CloseNotifies
  <2>44. ASSUME NEW g \in Goroutines, CloseReturned(g) PROVE A
    BY <2>44 DEF CloseReturned
  <2>45. ASSUME NEW k \in Credentials, RevokeMarks(k) PROVE A
    BY <2>45 DEF RevokeMarks
  <2>46. ASSUME NEW k \in Credentials, RevokeFences(k) PROVE A
    BY <2>46 DEF RevokeFences, Fence
  <2>47. ASSUME NEW k \in Credentials, NEW c \in Connections, RevokeFails(k, c)
        PROVE  A
    BY <2>47 DEF RevokeFails
  <2>48. ASSUME NEW k \in Credentials, RevokeFailed(k) PROVE A
    BY <2>48 DEF RevokeFailed
  <2>49. ASSUME NEW k \in Credentials, RevokeProceeds(k) PROVE A
    BY <2>49 DEF RevokeProceeds
  <2>50. ASSUME StopMarks PROVE A
    BY <2>50 DEF StopMarks
  <2>51. ASSUME StopFences PROVE A
    BY <2>51 DEF StopFences, Fence
  <2>52. ASSUME StopProceeds PROVE A
    BY <2>52 DEF StopProceeds
  <2>53. ASSUME NEW c \in Connections, StopShutsDown(c) PROVE A
    BY <2>53 DEF StopShutsDown
  <2> QED
    BY <1>0, <2>1, <2>2, <2>3, <2>4, <2>5, <2>6, <2>7, <2>8, <2>9, <2>10, <2>11,
       <2>12, <2>13, <2>14, <2>15, <2>16, <2>17, <2>18, <2>19, <2>20, <2>21,
       <2>22, <2>23, <2>24, <2>25, <2>26, <2>27, <2>28, <2>29, <2>30, <2>31,
       <2>32, <2>33, <2>34, <2>35, <2>36, <2>37, <2>38, <2>39, <2>40, <2>41,
       <2>42, <2>43, <2>44, <2>45, <2>46, <2>47, <2>48, <2>49, <2>50, <2>51,
       <2>52, <2>53 DEF Next, Environment, Agent, OpenSettles, ReadLoop,
       Teardown, AuthorizationLoop, CopyOutput, ExpireManaged, FinishClose,
       Closing, RevokeCredential, StopEndpoint
<1>1. IInv /\ [Next]_vars => [A]_vars
  BY <1>0
<1> QED
  BY Safe, <1>1, PTL DEF Spec, ClosedOnce

(* Nobody but its holder takes a running session from a connection.        *)
THEOREM HolderDecides == Spec => OnlyTheHolderLetsGo
<1> DEFINE A ==
     \A s \in Sessions, c \in Connections :
       owner[s] = c /\ owner'[s] # c /\ life'[s] = "active" =>
         /\ owner'[s] = NoConnection
         /\ \/ reader[c] \in {"detach", "release"} /\ target[c] = s
            \/ shut[c] \in {"lost", "failed"} /\ shut'[c] = "sweeping"
            \/ copier[s] = "refused" /\ sendTo[s] = c
<1>0. ASSUME IInv, [Next]_vars PROVE A \/ UNCHANGED vars
  <2> USE <1>0 DEF IInv, TypeOK, RegistryTypeOK, AttachTypeOK, NamesTarget,
      OnlyRunningIsHeld, OpeningIsPending, registryVars, fenceFlags,
      attachVars
  <2>1. ASSUME NEW c \in Connections, Connect(c) PROVE A
    BY <2>1 DEF Connect
  <2>2. ASSUME NEW c \in Connections, ConnectionLost(c) PROVE A
    BY <2>2 DEF ConnectionLost
  <2>3. ASSUME NEW c \in Connections, RecoverableFailure(c) PROVE A
    BY <2>3 DEF RecoverableFailure
  <2>4. ASSUME NEW c \in Connections, FailReports(c) PROVE A
    BY <2>4 DEF FailReports
  <2>5. ASSUME NEW c \in Connections, FailShutsDown(c) PROVE A
    BY <2>5 DEF FailShutsDown
  <2>6. ASSUME NEW c \in Connections, Disconnected(c) PROVE A
    <3>1. CASE destroy[c]
      BY <2>6, <3>1, ConstantsAssumption DEF Disconnected
    <3>2. CASE ~destroy[c]
      BY <2>6, <3>2, ConstantsAssumption DEF Disconnected, Release, InActive, DownTypeOK
    <3> QED
      BY <2>6, <3>1, <3>2
  <2>7. ASSUME NEW c \in Connections, ShutdownEnds(c) PROVE A
    BY <2>7 DEF ShutdownEnds
  <2>8. ASSUME NEW c \in Connections, ReceiveRejected(c) PROVE A
    BY <2>8 DEF ReceiveRejected
  <2>9. ASSUME NEW c \in Connections, ReceiveError(c) PROVE A
    BY <2>9 DEF ReceiveError
  <2>10. ASSUME NEW c \in Connections, ReceivePing(c) PROVE A
    BY <2>10 DEF ReceivePing
  <2>11. ASSUME NEW c \in Connections, NEW s \in Sessions, ReceiveOpen(c, s) PROVE A
    BY <2>11 DEF ReceiveOpen
  <2>12. ASSUME NEW c \in Connections, OpenFails(c) PROVE A
    BY <2>12 DEF OpenFails, ReaderFails
  <2>13. ASSUME NEW c \in Connections, OpenRegisters(c) PROVE A
    BY <2>13, ConstantsAssumption DEF OpenRegisters
  <2>14. ASSUME NEW c \in Connections, Reply(c) PROVE A
    BY <2>14 DEF Reply
  <2>15. ASSUME NEW c \in Connections, ReaderBreaks(c) PROVE A
    BY <2>15 DEF ReaderBreaks
  <2>16. ASSUME NEW c \in Connections, ReaderEnds(c) PROVE A
    BY <2>16 DEF ReaderEnds
  <2>17. ASSUME NEW c \in Connections, ReceiveDetach(c) PROVE A
    BY <2>17 DEF ReceiveDetach
  <2>18. ASSUME NEW c \in Connections, HandleDetach(c) PROVE A
    <3>1. CASE Owned(c, target[c])
      BY <2>18, <3>1, ConstantsAssumption DEF HandleDetach, Release, Owned
    <3>2. CASE ~Owned(c, target[c])
      BY <2>18, <3>2, ConstantsAssumption DEF HandleDetach
    <3> QED
      BY <2>18, <3>1, <3>2
  <2>19. ASSUME NEW c \in Connections, ReceiveClose(c) PROVE A
    BY <2>19 DEF ReceiveClose
  <2>20. ASSUME NEW c \in Connections, HandleClose(c) PROVE A
    BY <2>20 DEF HandleClose
  <2>21. ASSUME NEW c \in Connections, CloseReturns(c) PROVE A
    BY <2>21 DEF CloseReturns
  <2>22. ASSUME NEW c \in Connections, HandleExpired(c) PROVE A
    BY <2>22 DEF HandleExpired
  <2>23. ASSUME NEW c \in Connections, ExpiredFails(c) PROVE A
    BY <2>23 DEF ExpiredFails
  <2>24. ASSUME NEW c \in Connections, NEW s \in Sessions, ReceiveReopen(c, s)
        PROVE  A
    <3>1. CASE ReopenClaims(c, s)
      BY <2>24, <3>1, ConstantsAssumption DEF ReceiveReopen, ReopenClaims, Reopenable
    <3>2. CASE ReopenRefused(c)
      BY <2>24, <3>2, ConstantsAssumption DEF ReceiveReopen, ReopenRefused
    <3> QED
      BY <2>24, <3>1, <3>2 DEF ReceiveReopen
  <2>25. ASSUME NEW c \in Connections, ReopenResizes(c) PROVE A
    BY <2>25 DEF ReopenResizes
  <2>26. ASSUME NEW c \in Connections, ReopenRejected(c) PROVE A
    BY <2>26 DEF ReopenRejected
  <2>27. ASSUME NEW c \in Connections, ReplayChecks(c) PROVE A
    BY <2>27 DEF ReplayChecks
  <2>28. ASSUME NEW c \in Connections, ReplaySends(c) PROVE A
    BY <2>28 DEF ReplaySends
  <2>29. ASSUME NEW c \in Connections, ReopenReleased(c) PROVE A
    BY <2>29, ConstantsAssumption DEF ReopenReleased, Release, Replays
  <2>30. ASSUME NEW k \in Credentials, CredentialExpires(k) PROVE A
    BY <2>30 DEF CredentialExpires
  <2>31. ASSUME NEW c \in Connections, AuthorizationEnds(c) PROVE A
    BY <2>31 DEF AuthorizationEnds
  <2>32. ASSUME NEW c \in Connections, AuthorizationFails(c) PROVE A
    BY <2>32 DEF AuthorizationFails
  <2>33. ASSUME NEW s \in Sessions, SessionExpires(s) PROVE A
    BY <2>33 DEF SessionExpires
  <2>34. ASSUME NEW s \in Sessions, ExpirerEnds(s) PROVE A
    BY <2>34 DEF ExpirerEnds
  <2>35. ASSUME NEW s \in Sessions, CopyReads(s) PROVE A
    BY <2>35 DEF CopyReads
  <2>36. ASSUME NEW s \in Sessions, CopySends(s) PROVE A
    BY <2>36 DEF CopySends
  <2>37. ASSUME NEW s \in Sessions, CopyDetaches(s) PROVE A
    BY <2>37, ConstantsAssumption DEF CopyDetaches, Release
  <2>38. ASSUME NEW s \in Sessions, CopyEnds(s) PROVE A
    BY <2>38 DEF CopyEnds
  <2>39. ASSUME NEW s \in Sessions, CopyStops(s) PROVE A
    BY <2>39 DEF CopyStops
  <2>40. ASSUME NEW g \in Goroutines, NEW s \in Sessions, CloseBegins(g, s) PROVE A
    BY <2>40 DEF CloseBegins, Fence, InActive, SessionsOf
  <2>41. ASSUME NEW s \in Sessions, CloseRemoves(s) PROVE A
    BY <2>41 DEF CloseRemoves
  <2>42. ASSUME NEW s \in Sessions, CloseLooks(s) PROVE A
    BY <2>42 DEF CloseLooks
  <2>43. ASSUME NEW s \in Sessions, CloseNotifies(s) PROVE A
    BY <2>43 DEF CloseNotifies
  <2>44. ASSUME NEW g \in Goroutines, CloseReturned(g) PROVE A
    BY <2>44 DEF CloseReturned
  <2>45. ASSUME NEW k \in Credentials, RevokeMarks(k) PROVE A
    BY <2>45 DEF RevokeMarks
  <2>46. ASSUME NEW k \in Credentials, RevokeFences(k) PROVE A
    BY <2>46 DEF RevokeFences, Fence, InActive, SessionsOf
  <2>47. ASSUME NEW k \in Credentials, NEW c \in Connections, RevokeFails(k, c)
        PROVE  A
    BY <2>47 DEF RevokeFails
  <2>48. ASSUME NEW k \in Credentials, RevokeFailed(k) PROVE A
    BY <2>48 DEF RevokeFailed
  <2>49. ASSUME NEW k \in Credentials, RevokeProceeds(k) PROVE A
    BY <2>49 DEF RevokeProceeds
  <2>50. ASSUME StopMarks PROVE A
    BY <2>50 DEF StopMarks
  <2>51. ASSUME StopFences PROVE A
    BY <2>51 DEF StopFences, Fence, InActive, SessionsOf
  <2>52. ASSUME StopProceeds PROVE A
    BY <2>52 DEF StopProceeds
  <2>53. ASSUME NEW c \in Connections, StopShutsDown(c) PROVE A
    BY <2>53 DEF StopShutsDown
  <2> QED
    BY <1>0, <2>1, <2>2, <2>3, <2>4, <2>5, <2>6, <2>7, <2>8, <2>9, <2>10, <2>11,
       <2>12, <2>13, <2>14, <2>15, <2>16, <2>17, <2>18, <2>19, <2>20, <2>21,
       <2>22, <2>23, <2>24, <2>25, <2>26, <2>27, <2>28, <2>29, <2>30, <2>31,
       <2>32, <2>33, <2>34, <2>35, <2>36, <2>37, <2>38, <2>39, <2>40, <2>41,
       <2>42, <2>43, <2>44, <2>45, <2>46, <2>47, <2>48, <2>49, <2>50, <2>51,
       <2>52, <2>53 DEF Next, Environment, Agent, OpenSettles, ReadLoop,
       Teardown, AuthorizationLoop, CopyOutput, ExpireManaged, FinishClose,
       Closing, RevokeCredential, StopEndpoint
<1>1. IInv /\ [Next]_vars => [A]_vars
  BY <1>0
<1> QED
  BY Safe, <1>1, PTL DEF Spec, OnlyTheHolderLetsGo

-----------------------------------------------------------------------------
(* Close leaves nothing behind.                                            *)

(* No frame of the agent's goes out before a connection is made.           *)
LEMMA NewSendsNothing ==
  ASSUME NEW c, NEW m, AfterSend(c, m) # {}
  PROVE  link[c] # "NEW"
BY DEF AfterSend, NextConnection, NextSession, Successors, ConnectionTable

LEMMA SendsWhenLinked ==
  ASSUME TypeInv, NEW c, NEW m, Written(c, m) \/ SendFails(c, m)
  PROVE  /\ link' = link
         /\ \A d \in Connections : /\ shut'[d] = "up" => shut[d] = "up"
                                   /\ link[d] = "NEW" => shut'[d] = shut[d]
<1> USE DEF TypeInv, TypeOK, DownTypeOK, LinkTypeOK
<1>1. CASE Written(c, m)
  BY <1>1 DEF Written
<1>2. CASE Refused(c, m)
  BY <1>2 DEF Refused
<1>3. CASE Lost(c, m)
  <2>1. link[c] # "NEW"
    BY <1>3, NewSendsNothing DEF Lost
  <2> QED BY <1>3, <2>1 DEF Lost, StartShutdown
<1> QED BY <1>1, <1>2, <1>3 DEF SendFails

(* No client's frame does anything to the session before that.             *)
LEMMA NewReceivesNothing ==
  \A w, d, m : NextSession("NEW", w, d, m) = {}
BY DEF NextSession

LEMMA StepNew == TypeInv /\ NewIsIdle /\ [Next]_vars => NewIsIdle'
<1> SUFFICES ASSUME TypeInv, NewIsIdle, [Next]_vars PROVE NewIsIdle'
  OBVIOUS
<1> USE DEF TypeInv, TypeOK, LinkTypeOK, DownTypeOK, ReaderTypeOK, HostTypeOK, NewIsIdle,
            linkVars, downVars, readerVars, hostVars, StartFail, StartShutdown, Registered,
            IsDone
<1>1. ASSUME NEW c \in Connections, Connect(c) PROVE NewIsIdle'
  BY <1>1 DEF Connect
<1>2. ASSUME NEW c \in Connections, ConnectionLost(c) PROVE NewIsIdle'
  BY <1>2 DEF ConnectionLost
<1>3. ASSUME NEW c \in Connections, RecoverableFailure(c) PROVE NewIsIdle'
  BY <1>3 DEF RecoverableFailure
<1>4. ASSUME NEW c \in Connections, FailReports(c) PROVE NewIsIdle'
  BY <1>4 DEF FailReports
<1>5. ASSUME NEW c \in Connections, FailShutsDown(c) PROVE NewIsIdle'
  BY <1>5 DEF FailShutsDown
<1>6. ASSUME NEW c \in Connections, Disconnected(c) PROVE NewIsIdle'
  BY <1>6 DEF Disconnected
<1>7. ASSUME NEW c \in Connections, ShutdownEnds(c) PROVE NewIsIdle'
  BY <1>7 DEF ShutdownEnds
<1>8. ASSUME NEW c \in Connections, ReceiveRejected(c) PROVE NewIsIdle'
  BY <1>8 DEF ReceiveRejected, ReaderFails
<1>9. ASSUME NEW c \in Connections, ReceiveError(c) PROVE NewIsIdle'
  BY <1>9 DEF ReceiveError, ReaderFails
<1>10. ASSUME NEW c \in Connections, ReceivePing(c) PROVE NewIsIdle'
  BY <1>10 DEF ReceivePing, Become
<1>11. ASSUME NEW c \in Connections, NEW s \in Sessions, ReceiveOpen(c, s) PROVE NewIsIdle'
  BY <1>11, NewReceivesNothing DEF ReceiveOpen, Receives, OpenReserves, OpenRefused, ReaderFails, Become
<1>12. ASSUME NEW c \in Connections, OpenFails(c) PROVE NewIsIdle'
  BY <1>12 DEF OpenFails, ReaderFails
<1>13. ASSUME NEW c \in Connections, OpenRegisters(c) PROVE NewIsIdle'
  BY <1>13 DEF OpenRegisters, Become
<1>14. ASSUME NEW c \in Connections, Reply(c) PROVE NewIsIdle'
  BY <1>14, SendsWhenLinked DEF Reply, Become, ReplyTo
<1>15. ASSUME NEW c \in Connections, ReaderBreaks(c) PROVE NewIsIdle'
  BY <1>15 DEF ReaderBreaks, ReaderFails
<1>16. ASSUME NEW c \in Connections, ReaderEnds(c) PROVE NewIsIdle'
  BY <1>16 DEF ReaderEnds, Become
<1>17. ASSUME NEW c \in Connections, ReceiveDetach(c) PROVE NewIsIdle'
  BY <1>17, NewReceivesNothing DEF ReceiveDetach, Receives, Become
<1>18. ASSUME NEW c \in Connections, HandleDetach(c) PROVE NewIsIdle'
  BY <1>18 DEF HandleDetach, Become, ReaderFails
<1>19. ASSUME NEW c \in Connections, ReceiveClose(c) PROVE NewIsIdle'
  BY <1>19, NewReceivesNothing DEF ReceiveClose, Receives, Become
<1>20. ASSUME NEW c \in Connections, HandleClose(c) PROVE NewIsIdle'
  BY <1>20 DEF HandleClose, Become, ReaderFails
<1>21. ASSUME NEW c \in Connections, CloseReturns(c) PROVE NewIsIdle'
  BY <1>21 DEF CloseReturns
<1>22. ASSUME NEW c \in Connections, HandleExpired(c) PROVE NewIsIdle'
  BY <1>22 DEF HandleExpired, Become
<1>23. ASSUME NEW c \in Connections, ExpiredFails(c) PROVE NewIsIdle'
  BY <1>23 DEF ExpiredFails, ReaderFails
<1>24. ASSUME NEW c \in Connections, NEW s \in Sessions, ReceiveReopen(c, s) PROVE NewIsIdle'
  BY <1>24, NewReceivesNothing DEF ReceiveReopen, Receives, ReopenClaims, ReopenRefused, ReaderFails, Become
<1>25. ASSUME NEW c \in Connections, ReopenResizes(c) PROVE NewIsIdle'
  BY <1>25 DEF ReopenResizes, Become
<1>26. ASSUME NEW c \in Connections, ReopenRejected(c) PROVE NewIsIdle'
  BY <1>26 DEF ReopenRejected, ReaderFails
<1>27. ASSUME NEW c \in Connections, ReplayChecks(c) PROVE NewIsIdle'
  BY <1>27 DEF ReplayChecks, Become
<1>28. ASSUME NEW c \in Connections, ReplaySends(c) PROVE NewIsIdle'
  BY <1>28, SendsWhenLinked DEF ReplaySends, Become
<1>29. ASSUME NEW c \in Connections, ReopenReleased(c) PROVE NewIsIdle'
  BY <1>29 DEF ReopenReleased, Become
<1>30. ASSUME NEW k \in Credentials, CredentialExpires(k) PROVE NewIsIdle'
  BY <1>30 DEF CredentialExpires
<1>31. ASSUME NEW c \in Connections, AuthorizationEnds(c) PROVE NewIsIdle'
  BY <1>31 DEF AuthorizationEnds
<1>32. ASSUME NEW c \in Connections, AuthorizationFails(c) PROVE NewIsIdle'
  BY <1>32 DEF AuthorizationFails
<1>33. ASSUME NEW s \in Sessions, SessionExpires(s) PROVE NewIsIdle'
  BY <1>33 DEF SessionExpires
<1>34. ASSUME NEW s \in Sessions, ExpirerEnds(s) PROVE NewIsIdle'
  BY <1>34 DEF ExpirerEnds
<1>35. ASSUME NEW s \in Sessions, CopyReads(s) PROVE NewIsIdle'
  BY <1>35 DEF CopyReads
<1>36. ASSUME NEW s \in Sessions, CopySends(s) PROVE NewIsIdle'
  BY <1>36, SendsWhenLinked DEF CopySends
<1>37. ASSUME NEW s \in Sessions, CopyDetaches(s) PROVE NewIsIdle'
  BY <1>37 DEF CopyDetaches
<1>38. ASSUME NEW s \in Sessions, CopyEnds(s) PROVE NewIsIdle'
  BY <1>38 DEF CopyEnds
<1>39. ASSUME NEW s \in Sessions, CopyStops(s) PROVE NewIsIdle'
  BY <1>39 DEF CopyStops
<1>40. ASSUME NEW g \in Goroutines, NEW s \in Sessions, CloseBegins(g, s) PROVE NewIsIdle'
  BY <1>40 DEF CloseBegins
<1>41. ASSUME NEW s \in Sessions, CloseRemoves(s) PROVE NewIsIdle'
  BY <1>41 DEF CloseRemoves
<1>42. ASSUME NEW s \in Sessions, CloseLooks(s) PROVE NewIsIdle'
  BY <1>42 DEF CloseLooks
<1>43. ASSUME NEW s \in Sessions, CloseNotifies(s) PROVE NewIsIdle'
  BY <1>43, SendsWhenLinked DEF CloseNotifies
<1>44. ASSUME NEW g \in Goroutines, CloseReturned(g) PROVE NewIsIdle'
  BY <1>44 DEF CloseReturned
<1>45. ASSUME NEW k \in Credentials, RevokeMarks(k) PROVE NewIsIdle'
  BY <1>45 DEF RevokeMarks
<1>46. ASSUME NEW k \in Credentials, RevokeFences(k) PROVE NewIsIdle'
  BY <1>46 DEF RevokeFences
<1>47. ASSUME NEW k \in Credentials, NEW c \in Connections, RevokeFails(k, c) PROVE NewIsIdle'
  BY <1>47 DEF RevokeFails
<1>48. ASSUME NEW k \in Credentials, RevokeFailed(k) PROVE NewIsIdle'
  BY <1>48 DEF RevokeFailed
<1>49. ASSUME NEW k \in Credentials, RevokeProceeds(k) PROVE NewIsIdle'
  BY <1>49 DEF RevokeProceeds
<1>50. ASSUME StopMarks PROVE NewIsIdle'
  BY <1>50 DEF StopMarks
<1>51. ASSUME StopFences PROVE NewIsIdle'
  BY <1>51 DEF StopFences
<1>52. ASSUME StopProceeds PROVE NewIsIdle'
  BY <1>52 DEF StopProceeds
<1>53. ASSUME NEW c \in Connections, StopShutsDown(c) PROVE NewIsIdle'
  BY <1>53 DEF StopShutsDown
<1>54. CASE UNCHANGED vars
  BY <1>54 DEF vars
<1> QED
  BY <1>1, <1>2, <1>3, <1>4, <1>5, <1>6, <1>7, <1>8, <1>9, <1>10, <1>11,
     <1>12, <1>13, <1>14, <1>15, <1>16, <1>17, <1>18, <1>19, <1>20, <1>21,
     <1>22, <1>23, <1>24, <1>25, <1>26, <1>27, <1>28, <1>29, <1>30, <1>31,
     <1>32, <1>33, <1>34, <1>35, <1>36, <1>37, <1>38, <1>39, <1>40, <1>41,
     <1>42, <1>43, <1>44, <1>45, <1>46, <1>47, <1>48, <1>49, <1>50, <1>51,
     <1>52, <1>53, <1>54 DEF Next,
     Environment, Agent, OpenSettles, ReadLoop, Teardown, AuthorizationLoop, CopyOutput,
     ExpireManaged, FinishClose, Closing, RevokeCredential, StopEndpoint

(* Nobody else works on the list of sessions that Close has.               *)
LEMMA StopIsAlone ==
  /\ Stop \in Goroutines
  /\ \A c : Reader(c) # Stop /\ Shutdown(c) # Stop /\ Authorization(c) # Stop
  /\ \A s : Copy(s) # Stop /\ Expire(s) # Stop
  /\ \A k : Revoke(k) # Stop
BY DEF Goroutines, Stop, Reader, Shutdown, Authorization, Copy, Expire, Revoke

LEMMA StepStop ==
  TypeInv /\ NothingOutlivesTheFence /\ NewIsIdle /\ StopSeesAll /\ StopIsClean /\ [Next]_vars
    => StopSeesAll' /\ StopIsClean'
<1> DEFINE Clean == StopSeesAll /\ StopIsClean
<1> SUFFICES ASSUME TypeInv, NothingOutlivesTheFence, NewIsIdle, Clean, [Next]_vars
             PROVE  Clean'
  OBVIOUS
<1> USE DEF TypeInv, TypeOK, RegistryTypeOK, WaitTypeOK, LinkTypeOK, DownTypeOK, ReaderTypeOK,
            HostTypeOK, NamesTarget, NothingOutlivesTheFence, NewIsIdle, StopSeesAll, StopIsClean,
            endpointVars, fenceFlags, attachVars, registryVars, waitVars, linkVars,
            downVars, readerVars, hostVars, StartFail, StartShutdown, Registered, IsDone,
            InActive
<1>1. ASSUME NEW c \in Connections, Connect(c) PROVE Clean'
  BY <1>1 DEF Connect
<1>2. ASSUME NEW c \in Connections, ConnectionLost(c) PROVE Clean'
  BY <1>2 DEF ConnectionLost
<1>3. ASSUME NEW c \in Connections, RecoverableFailure(c) PROVE Clean'
  BY <1>3 DEF RecoverableFailure
<1>4. ASSUME NEW c \in Connections, FailReports(c) PROVE Clean'
  BY <1>4 DEF FailReports
<1>5. ASSUME NEW c \in Connections, FailShutsDown(c) PROVE Clean'
  BY <1>5 DEF FailShutsDown
<1>6. ASSUME NEW c \in Connections, Disconnected(c) PROVE Clean'
  BY <1>6, StopIsAlone DEF Disconnected, Release
<1>7. ASSUME NEW c \in Connections, ShutdownEnds(c) PROVE Clean'
  BY <1>7 DEF ShutdownEnds
<1>8. ASSUME NEW c \in Connections, ReceiveRejected(c) PROVE Clean'
  BY <1>8 DEF ReceiveRejected, ReaderFails
<1>9. ASSUME NEW c \in Connections, ReceiveError(c) PROVE Clean'
  BY <1>9 DEF ReceiveError, ReaderFails
<1>10. ASSUME NEW c \in Connections, ReceivePing(c) PROVE Clean'
  BY <1>10 DEF ReceivePing, Become
<1>11. ASSUME NEW c \in Connections, NEW s \in Sessions, ReceiveOpen(c, s) PROVE Clean'
  BY <1>11 DEF ReceiveOpen, Receives, OpenReserves, OpenRefused, ReaderFails, Become
<1>12. ASSUME NEW c \in Connections, OpenFails(c) PROVE Clean'
  BY <1>12 DEF OpenFails, ReaderFails
<1>13. ASSUME NEW c \in Connections, OpenRegisters(c) PROVE Clean'
  BY <1>13 DEF OpenRegisters, Become, AdmissionError
<1>14. ASSUME NEW c \in Connections, Reply(c) PROVE Clean'
  BY <1>14, SendsWhenLinked DEF Reply, Become
<1>15. ASSUME NEW c \in Connections, ReaderBreaks(c) PROVE Clean'
  BY <1>15 DEF ReaderBreaks, ReaderFails
<1>16. ASSUME NEW c \in Connections, ReaderEnds(c) PROVE Clean'
  BY <1>16 DEF ReaderEnds, Become
<1>17. ASSUME NEW c \in Connections, ReceiveDetach(c) PROVE Clean'
  BY <1>17 DEF ReceiveDetach, Receives, Become
<1>18. ASSUME NEW c \in Connections, HandleDetach(c) PROVE Clean'
  BY <1>18 DEF HandleDetach, Become, ReaderFails, Release
<1>19. ASSUME NEW c \in Connections, ReceiveClose(c) PROVE Clean'
  BY <1>19 DEF ReceiveClose, Receives, Become
<1>20. ASSUME NEW c \in Connections, HandleClose(c) PROVE Clean'
  BY <1>20, StopIsAlone DEF HandleClose, Become, ReaderFails
<1>21. ASSUME NEW c \in Connections, CloseReturns(c) PROVE Clean'
  BY <1>21 DEF CloseReturns
<1>22. ASSUME NEW c \in Connections, HandleExpired(c) PROVE Clean'
  BY <1>22, StopIsAlone DEF HandleExpired, Become
<1>23. ASSUME NEW c \in Connections, ExpiredFails(c) PROVE Clean'
  BY <1>23 DEF ExpiredFails, ReaderFails
<1>24. ASSUME NEW c \in Connections, NEW s \in Sessions, ReceiveReopen(c, s) PROVE Clean'
  BY <1>24 DEF ReceiveReopen, Receives, ReopenClaims, ReopenRefused, ReaderFails, Become
<1>25. ASSUME NEW c \in Connections, ReopenResizes(c) PROVE Clean'
  BY <1>25, StopIsAlone DEF ReopenResizes, Become
<1>26. ASSUME NEW c \in Connections, ReopenRejected(c) PROVE Clean'
  BY <1>26 DEF ReopenRejected, ReaderFails
<1>27. ASSUME NEW c \in Connections, ReplayChecks(c) PROVE Clean'
  BY <1>27 DEF ReplayChecks, Become
<1>28. ASSUME NEW c \in Connections, ReplaySends(c) PROVE Clean'
  BY <1>28, SendsWhenLinked DEF ReplaySends, Become
<1>29. ASSUME NEW c \in Connections, ReopenReleased(c) PROVE Clean'
  BY <1>29 DEF ReopenReleased, Become, Release
<1>30. ASSUME NEW k \in Credentials, CredentialExpires(k) PROVE Clean'
  BY <1>30 DEF CredentialExpires
<1>31. ASSUME NEW c \in Connections, AuthorizationEnds(c) PROVE Clean'
  BY <1>31, StopIsAlone DEF AuthorizationEnds
<1>32. ASSUME NEW c \in Connections, AuthorizationFails(c) PROVE Clean'
  BY <1>32 DEF AuthorizationFails
<1>33. ASSUME NEW s \in Sessions, SessionExpires(s) PROVE Clean'
  BY <1>33, StopIsAlone DEF SessionExpires
<1>34. ASSUME NEW s \in Sessions, ExpirerEnds(s) PROVE Clean'
  BY <1>34 DEF ExpirerEnds
<1>35. ASSUME NEW s \in Sessions, CopyReads(s) PROVE Clean'
  BY <1>35 DEF CopyReads
<1>36. ASSUME NEW s \in Sessions, CopySends(s) PROVE Clean'
  BY <1>36, SendsWhenLinked DEF CopySends
<1>37. ASSUME NEW s \in Sessions, CopyDetaches(s) PROVE Clean'
  BY <1>37 DEF CopyDetaches, Release
<1>38. ASSUME NEW s \in Sessions, CopyEnds(s) PROVE Clean'
  BY <1>38, StopIsAlone DEF CopyEnds
<1>39. ASSUME NEW s \in Sessions, CopyStops(s) PROVE Clean'
  BY <1>39 DEF CopyStops
<1>40. ASSUME NEW g \in Goroutines, NEW s \in Sessions, CloseBegins(g, s) PROVE Clean'
  BY <1>40 DEF CloseBegins, Fence
<1>41. ASSUME NEW s \in Sessions, CloseRemoves(s) PROVE Clean'
  BY <1>41 DEF CloseRemoves
<1>42. ASSUME NEW s \in Sessions, CloseLooks(s) PROVE Clean'
  BY <1>42 DEF CloseLooks
<1>43. ASSUME NEW s \in Sessions, CloseNotifies(s) PROVE Clean'
  BY <1>43, SendsWhenLinked DEF CloseNotifies
<1>44. ASSUME NEW g \in Goroutines, CloseReturned(g) PROVE Clean'
  BY <1>44 DEF CloseReturned
<1>45. ASSUME NEW k \in Credentials, RevokeMarks(k) PROVE Clean'
  BY <1>45 DEF RevokeMarks
<1>46. ASSUME NEW k \in Credentials, RevokeFences(k) PROVE Clean'
  BY <1>46, StopIsAlone DEF RevokeFences, Fence
<1>47. ASSUME NEW k \in Credentials, NEW c \in Connections, RevokeFails(k, c) PROVE Clean'
  BY <1>47 DEF RevokeFails
<1>48. ASSUME NEW k \in Credentials, RevokeFailed(k) PROVE Clean'
  BY <1>48 DEF RevokeFailed
<1>49. ASSUME NEW k \in Credentials, RevokeProceeds(k) PROVE Clean'
  BY <1>49 DEF RevokeProceeds
<1>50. ASSUME StopMarks PROVE Clean'
  BY <1>50 DEF StopMarks
<1>51. ASSUME StopFences PROVE Clean'
  BY <1>51, StopIsAlone DEF StopFences, Fence
<1>52. ASSUME StopProceeds PROVE Clean'
  BY <1>52 DEF StopProceeds
<1>53. ASSUME NEW c \in Connections, StopShutsDown(c) PROVE Clean'
  BY <1>53 DEF StopShutsDown
<1>54. CASE UNCHANGED vars
  BY <1>54 DEF vars
<1> QED
  BY <1>1, <1>2, <1>3, <1>4, <1>5, <1>6, <1>7, <1>8, <1>9, <1>10, <1>11,
     <1>12, <1>13, <1>14, <1>15, <1>16, <1>17, <1>18, <1>19, <1>20, <1>21,
     <1>22, <1>23, <1>24, <1>25, <1>26, <1>27, <1>28, <1>29, <1>30, <1>31,
     <1>32, <1>33, <1>34, <1>35, <1>36, <1>37, <1>38, <1>39, <1>40, <1>41,
     <1>42, <1>43, <1>44, <1>45, <1>46, <1>47, <1>48, <1>49, <1>50, <1>51,
     <1>52, <1>53, <1>54 DEF Next,
     Environment, Agent, OpenSettles, ReadLoop, Teardown, AuthorizationLoop, CopyOutput,
     ExpireManaged, FinishClose, Closing, RevokeCredential, StopEndpoint

(* When Close has finished the sessions it fenced, no terminal runs, and   *)
(* when it returns, no connection is left: what it found it has closed, and*)
(* nothing connects or opens behind its snapshots.                         *)
THEOREM CloseIsClean == Spec => []StopIsClean
<1> DEFINE Clean == NewIsIdle /\ StopSeesAll /\ StopIsClean
<1>1. Init => Clean
  BY DEF Init, NewIsIdle, StopSeesAll, StopIsClean, Registered
<1>2. IInv /\ Clean /\ [Next]_vars => Clean'
  BY StepNew, StepStop DEF IInv, TypeInv
<1>3. Clean => StopIsClean
  OBVIOUS
<1> HIDE DEF Clean
<1> QED
  BY Safe, <1>1, <1>2, <1>3, PTL DEF Spec


-----------------------------------------------------------------------------
(* The life of a session as SessionLife promises it.                       *)
LifeStep == [Life!Next]_(Life!vars)

(* Where a session is for its client, and who has it, does not change.     *)
LEMMA LifeStutters ==
  ASSUME UNCHANGED <<owner, shuttingDown, registryRevoked>>,
         \A s \in Sessions : Phase(s)' = Phase(s) /\ (Phase(s) # "absent" => creator'[s] = creator[s])
  PROVE  LifeStep
<1>1. [s \in Sessions |-> Phase(s)]' = [s \in Sessions |-> Phase(s)]
  OBVIOUS
<1>2. [s \in Sessions |-> IF Phase(s) = "absent" THEN NoConnection ELSE creator[s]]'
        = [s \in Sessions |-> IF Phase(s) = "absent" THEN NoConnection ELSE creator[s]]
  OBVIOUS
<1> QED
  BY <1>1, <1>2 DEF LifeStep, Life!vars

(* Letting go of at most one session is leaving it.                        *)
LEMMA LifeLeaves ==
  ASSUME TypeInv, NEW S \in SUBSET Sessions, \A s, t \in S : s = t, Release(S),
         \A s \in S : life[s] = "active" /\ owner[s] # NoConnection,
         UNCHANGED <<shuttingDown, registryRevoked, life, creator>>
  PROVE  LifeStep
<1> USE DEF TypeInv, TypeOK, AttachTypeOK, Release
<1>1. CASE S = {}
  <2>1. owner' = owner
    BY <1>1
  <2> QED
    BY <2>1, LifeStutters DEF Phase
<1>2. CASE S # {}
  <2>1. PICK s \in Sessions : S = {s}
    BY <1>2
  <2>2. owner' = [owner EXCEPT ![s] = NoConnection]
    BY <2>1
  <2>3. Life!Leave(s)
    BY <2>1, <2>2 DEF Life!Leave, Phase
  <2> QED
    BY <2>3 DEF LifeStep, Life!Next
<1> QED
  BY <1>1, <1>2

(* Fencing sessions ends them.                                             *)
LEMMA LifeEnds ==
  ASSUME TypeInv, OnlyRunningIsHeld, NEW g, NEW S \in SUBSET Sessions, NEW notify,
         Fence(g, S, notify), creator' = creator
  PROVE  Life!Ends(S)
<1> USE DEF TypeInv, TypeOK, RegistryTypeOK, AttachTypeOK, OnlyRunningIsHeld, Fence
<1>1. \A s \in Sessions :
        Phase(s)' = IF s \in S /\ Phase(s) = "running" THEN "closed" ELSE Phase(s)
  BY DEF Phase, Over
<1>2. owner' = [s \in Sessions |-> IF s \in S THEN NoConnection ELSE owner[s]]
  OBVIOUS
<1>3. [s \in Sessions |-> Phase(s)]'
        = [s \in Sessions |-> IF s \in S /\ [t \in Sessions |-> Phase(t)][s] = "running"
                              THEN "closed" ELSE [t \in Sessions |-> Phase(t)][s]]
  BY <1>1
<1>4. [s \in Sessions |-> IF Phase(s) = "absent" THEN NoConnection ELSE creator[s]]'
        = [s \in Sessions |-> IF Phase(s) = "absent" THEN NoConnection ELSE creator[s]]
  BY <1>1
<1> QED
  BY <1>2, <1>3, <1>4 DEF Life!Ends


(* Every step of the registry is one of the promise, or none.              *)
LEMMA StepLife == IInv /\ [Next]_vars => LifeStep
<1> SUFFICES ASSUME IInv, [Next]_vars
             PROVE  LifeStep
  OBVIOUS
<1> USE DEF IInv, endpointVars, fenceFlags, attachVars, registryVars
<1>1. ASSUME NEW c \in Connections, Connect(c) PROVE LifeStep
  BY <1>1, LifeStutters DEF Connect, Phase
<1>2. ASSUME NEW c \in Connections, ConnectionLost(c) PROVE LifeStep
  BY <1>2, LifeStutters DEF ConnectionLost, Phase
<1>3. ASSUME NEW c \in Connections, RecoverableFailure(c) PROVE LifeStep
  BY <1>3, LifeStutters DEF RecoverableFailure, Phase
<1>4. ASSUME NEW c \in Connections, FailReports(c) PROVE LifeStep
  BY <1>4, LifeStutters DEF FailReports, Phase
<1>5. ASSUME NEW c \in Connections, FailShutsDown(c) PROVE LifeStep
  BY <1>5, LifeStutters DEF FailShutsDown, Phase
<1>6. ASSUME NEW c \in Connections, Disconnected(c) PROVE LifeStep
  <2>1. CASE destroy[c]
    BY <1>6, <2>1, LifeStutters DEF Disconnected, Phase
  <2>2. CASE ~destroy[c]
    <3> DEFINE mine == {s \in Sessions : InActive(s) /\ owner[s] = c}
    <3>1. \A s, t \in mine : s = t
      BY ConstantsAssumption DEF OneSessionPerConnection
    <3>2. \A s \in mine : life[s] = "active" /\ owner[s] # NoConnection
      BY ConstantsAssumption DEF OnlyRunningIsHeld
    <3>3. Release(mine) /\ UNCHANGED <<shuttingDown, registryRevoked, life, creator>>
      BY <1>6, <2>2 DEF Disconnected
    <3> HIDE DEF mine
    <3>4. mine \in SUBSET Sessions
      BY DEF mine
    <3> QED
      BY <3>1, <3>2, <3>3, <3>4, LifeLeaves DEF TypeInv
  <2> QED
    BY <2>1, <2>2
<1>7. ASSUME NEW c \in Connections, ShutdownEnds(c) PROVE LifeStep
  BY <1>7, LifeStutters DEF ShutdownEnds, Phase
<1>8. ASSUME NEW c \in Connections, ReceiveRejected(c) PROVE LifeStep
  BY <1>8, LifeStutters DEF ReceiveRejected, Phase
<1>9. ASSUME NEW c \in Connections, ReceiveError(c) PROVE LifeStep
  BY <1>9, LifeStutters DEF ReceiveError, Phase
<1>10. ASSUME NEW c \in Connections, ReceivePing(c) PROVE LifeStep
  BY <1>10, LifeStutters DEF ReceivePing, Phase
<1>11. ASSUME NEW c \in Connections, NEW s \in Sessions, ReceiveOpen(c, s) PROVE LifeStep
  <2>1. CASE OpenReserves(c, s)
    <3>1. life' = [life EXCEPT ![s] = "pending"] /\ creator' = [creator EXCEPT ![s] = c]
          /\ life[s] = "unused"
      BY <2>1 DEF OpenReserves
    <3>2. \A t \in Sessions :
            Phase(t)' = Phase(t) /\ (Phase(t) # "absent" => creator'[t] = creator[t])
      BY <3>1 DEF Phase, Over, TypeOK, RegistryTypeOK
    <3> QED
      BY <1>11, <3>2, LifeStutters DEF ReceiveOpen
  <2>2. CASE OpenRefused(c)
    BY <1>11, <2>2, LifeStutters DEF ReceiveOpen, OpenRefused, Phase
  <2> QED
    BY <1>11, <2>1, <2>2 DEF ReceiveOpen
<1>12. ASSUME NEW c \in Connections, OpenFails(c) PROVE LifeStep
  <2>1. life[target[c]] = "pending" /\ life' = [life EXCEPT ![target[c]] = "failed"]
        /\ UNCHANGED <<owner, shuttingDown, registryRevoked, creator>>
    BY <1>12 DEF OpenFails, OpeningIsPending
  <2>2. \A t \in Sessions : Phase(t)' = Phase(t)
    BY <2>1 DEF Phase, Over, TypeOK, RegistryTypeOK
  <2> QED
    BY <2>1, <2>2, LifeStutters
<1>13. ASSUME NEW c \in Connections, OpenRegisters(c) PROVE LifeStep
  <2> PICK s \in Sessions : s = target[c]
    BY <1>13 DEF OpenRegisters, NamesTarget
  <2>1. /\ reader[c] = "opening" /\ ~AdmissionError(c)
        /\ life' = [life EXCEPT ![s] = "active"] /\ owner' = [owner EXCEPT ![s] = c]
        /\ UNCHANGED <<shuttingDown, registryRevoked, creator>>
    BY <1>13 DEF OpenRegisters
  <2>2. life[s] = "pending" /\ creator[s] = c
    BY <2>1 DEF OpeningIsPending
  <2>3. \A t \in Sessions : owner[t] # c
    BY <2>1, <2>2, ConstantsAssumption DEF HolderAsked, OnlyRunningIsHeld
  <2>4. Life!Admitted(c)
    BY <2>1, <2>3 DEF Life!Admitted, AdmissionError
  <2>5. \A t \in Sessions : Phase(t)' = IF t = s THEN "running" ELSE Phase(t)
    BY <2>1, <2>2 DEF Phase, TypeOK, RegistryTypeOK
  <2>6. [t \in Sessions |-> Phase(t)]' = [[t \in Sessions |-> Phase(t)] EXCEPT ![s] = "running"]
    BY <2>5
  <2>7. [t \in Sessions |-> IF Phase(t) = "absent" THEN NoConnection ELSE creator[t]]'
          = [[t \in Sessions |-> IF Phase(t) = "absent" THEN NoConnection ELSE creator[t]]
                EXCEPT ![s] = c]
    BY <2>1, <2>2, <2>5
  <2>8. Phase(s) = "absent"
    BY <2>2 DEF Phase, Over
  <2>9. Life!Open(c, s)
    BY <2>1, <2>2, <2>4, <2>6, <2>7, <2>8 DEF Life!Open
  <2> QED
    BY <2>9 DEF LifeStep, Life!Next
<1>14. ASSUME NEW c \in Connections, Reply(c) PROVE LifeStep
  BY <1>14, LifeStutters DEF Reply, Phase
<1>15. ASSUME NEW c \in Connections, ReaderBreaks(c) PROVE LifeStep
  BY <1>15, LifeStutters DEF ReaderBreaks, Phase
<1>16. ASSUME NEW c \in Connections, ReaderEnds(c) PROVE LifeStep
  BY <1>16, LifeStutters DEF ReaderEnds, Phase
<1>17. ASSUME NEW c \in Connections, ReceiveDetach(c) PROVE LifeStep
  BY <1>17, LifeStutters DEF ReceiveDetach, Phase
<1>18. ASSUME NEW c \in Connections, HandleDetach(c) PROVE LifeStep
  <2>1. CASE Owned(c, target[c])
    <3>1. Release({target[c]}) /\ UNCHANGED <<shuttingDown, registryRevoked, life, creator>>
      BY <1>18, <2>1 DEF HandleDetach
    <3>2. target[c] \in Sessions
      BY <1>18, <2>1 DEF HandleDetach, NamesTarget
    <3> QED
      BY <2>1, <3>1, <3>2, LifeLeaves, ConstantsAssumption DEF Owned, TypeInv
  <2>2. CASE ~Owned(c, target[c])
    BY <1>18, <2>2, LifeStutters DEF HandleDetach, Phase
  <2> QED
    BY <2>1, <2>2
<1>19. ASSUME NEW c \in Connections, ReceiveClose(c) PROVE LifeStep
  BY <1>19, LifeStutters DEF ReceiveClose, Phase
<1>20. ASSUME NEW c \in Connections, HandleClose(c) PROVE LifeStep
  BY <1>20, LifeStutters DEF HandleClose, Phase
<1>21. ASSUME NEW c \in Connections, CloseReturns(c) PROVE LifeStep
  BY <1>21, LifeStutters DEF CloseReturns, Phase
<1>22. ASSUME NEW c \in Connections, HandleExpired(c) PROVE LifeStep
  BY <1>22, LifeStutters DEF HandleExpired, Phase
<1>23. ASSUME NEW c \in Connections, ExpiredFails(c) PROVE LifeStep
  BY <1>23, LifeStutters DEF ExpiredFails, Phase
<1>24. ASSUME NEW c \in Connections, NEW s \in Sessions, ReceiveReopen(c, s) PROVE LifeStep
  <2>1. CASE ReopenClaims(c, s)
    <3>1. /\ Reopenable(c, s) /\ owner' = [owner EXCEPT ![s] = c]
          /\ UNCHANGED <<shuttingDown, registryRevoked, life, creator>>
      BY <1>24, <2>1 DEF ReceiveReopen, ReopenClaims
    <3>2. wire[c] = "NONE"
      BY <1>24, OnlyFromNone DEF ReceiveReopen, Receives
    <3>3. \A t \in Sessions : owner[t] # c
      BY <3>2 DEF HolderAsked
    <3>4. Life!Admitted(c)
      BY <3>1, <3>3 DEF Life!Admitted, Reopenable, AdmissionError
    <3>5. Life!Reopen(c, s)
      BY <3>1, <3>4 DEF Life!Reopen, Reopenable, Phase
    <3> QED
      BY <3>5 DEF LifeStep, Life!Next
  <2>2. CASE ReopenRefused(c)
    BY <1>24, <2>2, LifeStutters DEF ReceiveReopen, ReopenRefused, Phase
  <2> QED
    BY <1>24, <2>1, <2>2 DEF ReceiveReopen
<1>25. ASSUME NEW c \in Connections, ReopenResizes(c) PROVE LifeStep
  BY <1>25, LifeStutters DEF ReopenResizes, Phase
<1>26. ASSUME NEW c \in Connections, ReopenRejected(c) PROVE LifeStep
  BY <1>26, LifeStutters DEF ReopenRejected, Phase
<1>27. ASSUME NEW c \in Connections, ReplayChecks(c) PROVE LifeStep
  BY <1>27, LifeStutters DEF ReplayChecks, Phase
<1>28. ASSUME NEW c \in Connections, ReplaySends(c) PROVE LifeStep
  BY <1>28, LifeStutters DEF ReplaySends, Phase
<1>29. ASSUME NEW c \in Connections, ReopenReleased(c) PROVE LifeStep
  <2> DEFINE S == {s \in {target[c]} : Replays(c, s)}
  <2>1. Release(S) /\ UNCHANGED <<shuttingDown, registryRevoked, life, creator>>
    BY <1>29 DEF ReopenReleased
  <2>2. target[c] \in Sessions
    BY <1>29 DEF ReopenReleased, NamesTarget
  <2>3. \A s \in S : life[s] = "active" /\ owner[s] # NoConnection
    BY ConstantsAssumption DEF Replays
  <2>4. S \in SUBSET Sessions /\ \A s, t \in S : s = t
    BY <2>2
  <2> HIDE DEF S
  <2> QED
    BY <2>1, <2>3, <2>4, LifeLeaves DEF TypeInv
<1>30. ASSUME NEW k \in Credentials, CredentialExpires(k) PROVE LifeStep
  BY <1>30, LifeStutters DEF CredentialExpires, Phase
<1>31. ASSUME NEW c \in Connections, AuthorizationEnds(c) PROVE LifeStep
  BY <1>31, LifeStutters DEF AuthorizationEnds, Phase
<1>32. ASSUME NEW c \in Connections, AuthorizationFails(c) PROVE LifeStep
  BY <1>32, LifeStutters DEF AuthorizationFails, Phase
<1>33. ASSUME NEW s \in Sessions, SessionExpires(s) PROVE LifeStep
  BY <1>33, LifeStutters DEF SessionExpires, Phase
<1>34. ASSUME NEW s \in Sessions, ExpirerEnds(s) PROVE LifeStep
  BY <1>34, LifeStutters DEF ExpirerEnds, Phase
<1>35. ASSUME NEW s \in Sessions, CopyReads(s) PROVE LifeStep
  BY <1>35, LifeStutters DEF CopyReads, Phase
<1>36. ASSUME NEW s \in Sessions, CopySends(s) PROVE LifeStep
  BY <1>36, LifeStutters DEF CopySends, Phase
<1>37. ASSUME NEW s \in Sessions, CopyDetaches(s) PROVE LifeStep
  <2>1. CASE life[s] = "active" /\ owner[s] = sendTo[s] /\ owner[s] # NoConnection
    <3>1. {s1 \in {s} : life[s] = "active" /\ owner[s] = sendTo[s]} = {s}
      BY <2>1
    <3>2. Release({s}) /\ UNCHANGED <<shuttingDown, registryRevoked, life, creator>>
      BY <1>37, <3>1 DEF CopyDetaches
    <3> QED
      BY <2>1, <3>2, LifeLeaves DEF TypeInv
  <2>2. CASE ~(life[s] = "active" /\ owner[s] = sendTo[s] /\ owner[s] # NoConnection)
    <3>1. owner' = owner /\ UNCHANGED <<shuttingDown, registryRevoked, life, creator>>
      BY <1>37, <2>2 DEF CopyDetaches, Release, TypeOK, AttachTypeOK
    <3> QED
      BY <3>1, LifeStutters DEF Phase
  <2> QED
    BY <2>1, <2>2
<1>38. ASSUME NEW s \in Sessions, CopyEnds(s) PROVE LifeStep
  BY <1>38, LifeStutters DEF CopyEnds, Phase
<1>39. ASSUME NEW s \in Sessions, CopyStops(s) PROVE LifeStep
  BY <1>39, LifeStutters DEF CopyStops, Phase
<1>40. ASSUME NEW g \in Goroutines, NEW s \in Sessions, CloseBegins(g, s) PROVE LifeStep
  <2>1. Life!Ends({s})
    BY <1>40, LifeEnds DEF CloseBegins, TypeInv
  <2>2. Life!Close(s)
    BY <1>40, <2>1 DEF CloseBegins, Life!Close
  <2> QED
    BY <2>2 DEF LifeStep, Life!Next
<1>41. ASSUME NEW s \in Sessions, CloseRemoves(s) PROVE LifeStep
  <2>1. \A t \in Sessions : Phase(t)' = Phase(t)
    BY <1>41 DEF CloseRemoves, Phase, Over, TypeOK, RegistryTypeOK
  <2> QED
    BY <1>41, <2>1, LifeStutters DEF CloseRemoves
<1>42. ASSUME NEW s \in Sessions, CloseLooks(s) PROVE LifeStep
  <2>1. \A t \in Sessions : Phase(t)' = Phase(t)
    BY <1>42 DEF CloseLooks, Phase, Over, TypeOK, RegistryTypeOK
  <2> QED
    BY <1>42, <2>1, LifeStutters DEF CloseLooks
<1>43. ASSUME NEW s \in Sessions, CloseNotifies(s) PROVE LifeStep
  <2>1. \A t \in Sessions : Phase(t)' = Phase(t)
    BY <1>43 DEF CloseNotifies, Phase, Over, TypeOK, RegistryTypeOK
  <2> QED
    BY <1>43, <2>1, LifeStutters DEF CloseNotifies
<1>44. ASSUME NEW g \in Goroutines, CloseReturned(g) PROVE LifeStep
  BY <1>44, LifeStutters DEF CloseReturned, Phase
<1>45. ASSUME NEW k \in Credentials, RevokeMarks(k) PROVE LifeStep
  BY <1>45, LifeStutters DEF RevokeMarks, Phase
<1>46. ASSUME NEW k \in Credentials, RevokeFences(k) PROVE LifeStep
  <2> DEFINE Of == {s \in Sessions : Phase(s) = "running" /\ CredentialOf[creator[s]] = k}
  <2>1. /\ registryRevoked' = registryRevoked \cup {k}
        /\ Fence(Revoke(k), SessionsOf(k), FALSE)
        /\ UNCHANGED <<shuttingDown, creator>>
    BY <1>46 DEF RevokeFences
  <2>2. Fence(Revoke(k), Of, FALSE)
    <3>1. {s \in SessionsOf(k) : life[s] = "active"} = {s \in Of : life[s] = "active"}
      BY DEF SessionsOf, InActive, Phase
    <3> QED
      BY <2>1, <3>1 DEF Fence
  <2>3. Of = {s \in Sessions :
                /\ [t \in Sessions |-> Phase(t)][s] = "running"
                /\ CredentialOf[[t \in Sessions |->
                     IF Phase(t) = "absent" THEN NoConnection ELSE creator[t]][s]] = k}
    OBVIOUS
  <2> HIDE DEF Of
  <2>4. Life!Ends(Of)
    BY <2>1, <2>2, LifeEnds DEF TypeInv, Of
  <2>5. (IF shuttingDown THEN Credentials ELSE registryRevoked)'
          = (IF shuttingDown THEN Credentials ELSE registryRevoked) \cup {k}
    BY <2>1
  <2>6. Life!Bar(k)
    BY <2>3, <2>4, <2>5 DEF Life!Bar
  <2> QED
    BY <2>6 DEF LifeStep, Life!Next
<1>47. ASSUME NEW k \in Credentials, NEW c \in Connections, RevokeFails(k, c) PROVE LifeStep
  BY <1>47, LifeStutters DEF RevokeFails, Phase
<1>48. ASSUME NEW k \in Credentials, RevokeFailed(k) PROVE LifeStep
  BY <1>48, LifeStutters DEF RevokeFailed, Phase
<1>49. ASSUME NEW k \in Credentials, RevokeProceeds(k) PROVE LifeStep
  BY <1>49, LifeStutters DEF RevokeProceeds, Phase
<1>50. ASSUME StopMarks PROVE LifeStep
  BY <1>50, LifeStutters DEF StopMarks, Phase
<1>51. ASSUME StopFences PROVE LifeStep
  <2> DEFINE all == {s \in Sessions : InActive(s)}
  <2>1. shuttingDown' = TRUE /\ Fence(Stop, all, FALSE) /\ creator' = creator
    BY <1>51 DEF StopFences
  <2>2. {s \in all : life[s] = "active"} = {s \in Sessions : life[s] = "active"}
    BY DEF InActive
  <2>3. Fence(Stop, Sessions, FALSE)
    BY <2>1, <2>2 DEF Fence
  <2>4. Life!Ends(Sessions)
    BY <2>1, <2>3, LifeEnds DEF TypeInv
  <2>5. Life!Stop
    BY <2>1, <2>4 DEF Life!Stop
  <2> QED
    BY <2>5 DEF LifeStep, Life!Next
<1>52. ASSUME StopProceeds PROVE LifeStep
  BY <1>52, LifeStutters DEF StopProceeds, Phase
<1>53. ASSUME NEW c \in Connections, StopShutsDown(c) PROVE LifeStep
  BY <1>53, LifeStutters DEF StopShutsDown, Phase
<1>54. ASSUME UNCHANGED vars PROVE LifeStep
  BY <1>54, LifeStutters DEF vars, Phase
<1> QED
  BY <1>1, <1>2, <1>3, <1>4, <1>5, <1>6, <1>7, <1>8, <1>9, <1>10, <1>11,
     <1>12, <1>13, <1>14, <1>15, <1>16, <1>17, <1>18, <1>19, <1>20, <1>21,
     <1>22, <1>23, <1>24, <1>25, <1>26, <1>27, <1>28, <1>29, <1>30, <1>31,
     <1>32, <1>33, <1>34, <1>35, <1>36, <1>37, <1>38, <1>39, <1>40, <1>41,
     <1>42, <1>43, <1>44, <1>45, <1>46, <1>47, <1>48, <1>49, <1>50, <1>51,
     <1>52, <1>53, <1>54 DEF Next,
     Environment, Agent, OpenSettles, ReadLoop, Teardown, AuthorizationLoop, CopyOutput,
     ExpireManaged, FinishClose, Closing, RevokeCredential, StopEndpoint

(* The registry implements SessionLife: whatever its goroutines do, for a  *)
(* client a session is opened, left, taken back by its own, and closed as  *)
(* the promise says, and barring a credential or stopping ends at once     *)
(* what it must.                                                           *)
THEOREM LivesAsPromised == Spec => SessionsLiveAsPromised
<1>1. Init => Life!Init
  BY DEF Init, Life!Init, Phase, Over
<1>2. IInv /\ [Next]_vars => [Life!Next]_(Life!vars)
  BY StepLife DEF LifeStep
<1> QED
  BY Safe, <1>1, <1>2, PTL DEF Spec, SessionsLiveAsPromised, Life!Spec

=============================================================================
