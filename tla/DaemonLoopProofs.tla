-------------------------- MODULE DaemonLoopProofs --------------------------
(***************************************************************************)
(* Theorems of DaemonLoop, for any clients, any threads that shut the      *)
(* daemon down, and any of the transport servers.                          *)
(***************************************************************************)
EXTENDS DaemonLoop, TLAPS

LEMMA TypeInit == Init => TypeOK
BY DEF Init, InitSocket, InitThreads, InitConnection, TypeOK, Listener

LEMMA ClientTyped ==
    ASSUME TypeOK, NEW c \in Client, Connect(c) \/ Speak(c) \/ Leave(c)
    PROVE  TypeOK'
<1>1. CASE Connect(c) BY <1>1 DEF TypeOK, Connect, server, flags, loopVars, stoppers
<1>2. CASE Speak(c) BY <1>2 DEF TypeOK, Speak, server, flags, loopVars, stoppers
<1>3. CASE Leave(c) BY <1>3 DEF TypeOK, Leave, server, flags, loopVars, stoppers
<1> QED BY <1>1, <1>2, <1>3

(* What Step leaves to an action to say.                                   *)
LEMMA StepTyped ==
    ASSUME TypeOK, NEW l, NEW h, Step(l, h),
           l \in {"test", "assert", "wait", "accept", "process", "deny", "handle", "greet",
                  "request", "ended"},
           h \in {None, "normal", "error"}
    PROVE  /\ kind' \in Kinds /\ {mustshutdown, loopstopped, transport}' \subseteq BOOLEAN
           /\ sweeper' \in {"runs", "told", "ended"}
           /\ loop' \in {"out", "begin", "test", "assert", "wait", "accept", "process",
                         "deny", "handle", "greet", "request", "ended"}
           /\ how' \in {None, "normal", "error"}
BY DEF TypeOK, Step, End, Goto

LEMMA LoopTyped ==
    ASSUME TypeOK, EnterLoop \/ LoopStep \/ ReceiveTimesOut
    PROVE  TypeOK'
<1> USE DEF server, clients, stoppers
<1>1. CASE EnterLoop BY <1>1 DEF EnterLoop, TypeOK, Goto
<1>2. CASE BeginLoop BY <1>2 DEF BeginLoop, TypeOK, Goto, End
<1>3. CASE TestLoop BY <1>3, StepTyped DEF TestLoop, TypeOK
<1>4. CASE NothingHappens \/ AssertSocket
  BY <1>4, StepTyped DEF NothingHappens, AssertSocket, TypeOK
<1>5. CASE SelectListener BY <1>5, StepTyped DEF SelectListener, TypeOK
<1>6. CASE AcceptFails BY <1>6, StepTyped DEF AcceptFails, TypeOK
<1>7. CASE Accept BY <1>7, StepTyped DEF Accept, TypeOK, Backlog
<1>8. CASE ProcessJob BY <1>8, StepTyped DEF ProcessJob, TypeOK
<1>9. CASE Deny BY <1>9, StepTyped DEF Deny, TypeOK
<1>10. CASE SelectEvents BY <1>10, StepTyped DEF SelectEvents, TypeOK, Readable
<1>11. CASE EventsDone BY <1>11, StepTyped DEF EventsDone, TypeOK
<1>12. CASE HandleListener BY <1>12, StepTyped DEF HandleListener, TypeOK, Backlog
<1>13. CASE Greet BY <1>13, StepTyped DEF Greet, TypeOK, AfterMessage, Speaks
<1>14. CASE RequestReturns BY <1>14, StepTyped DEF RequestReturns, TypeOK
<1>15. ASSUME NEW c \in Client, Request(c) PROVE TypeOK'
  <2>1. peer' \in [Client -> {"quiet", "spoken", "gone", "spokenGone"}]
    BY <1>15 DEF Request, AfterMessage, TypeOK
  <2>2. ready' \subseteq Client \cup {Listener} /\ UNCHANGED <<server, hand, fate>>
    BY <1>15 DEF Request, TypeOK
  <2>3. CASE UNCHANGED <<within, stoppers>> /\ \E l \in {"handle", "test"} : Step(l, None)
    BY <2>1, <2>2, <2>3, StepTyped DEF TypeOK
  <2>4. ASSUME Step("request", None),
               NEW s \in Stopper, NEW o \in {"shutdown", "close"}, CallFrom(s, o), within' = s
        PROVE  TypeOK'
    <3>1. spc' \in [Stopper -> {"out", "must", "flag", "release", "join", "test", "close",
                               "unset", "must2", "find", "forget", "await",
                               "returned", "raised"}]
      BY <2>4 DEF CallFrom, TypeOK
    <3>2. part' \in [Stopper -> {"shutdown", "close"}] BY <2>4 DEF CallFrom, TypeOK
    <3> QED BY <2>1, <2>2, <2>4, <3>1, <3>2, StepTyped DEF TypeOK
  <2>5. Request(c) =>
          \/ UNCHANGED <<within, stoppers>> /\ \E l \in {"handle", "test"} : Step(l, None)
          \/ /\ Step("request", None)
             /\ \E s \in Stopper, o \in {"shutdown", "close"} : CallFrom(s, o) /\ within' = s
    BY DEF Request
  <2> QED BY <1>15, <2>3, <2>4, <2>5
<1>16. ASSUME NEW c \in Client, Disconnect(c) PROVE TypeOK'
  <2>1. UNCHANGED <<hand, within, peer, stoppers>> BY <1>16 DEF Disconnect
  <2>2. fate' \in [Client -> {"none", "backlog", "held", "served", "refused", "dropped"}]
        /\ ready' \subseteq Client \cup {Listener}
    BY <1>16 DEF Disconnect, TypeOK
  <2>3. UNCHANGED server \/ (/\ shutting_down' = TRUE /\ sock' = "none"
                           /\ UNCHANGED <<selectorOpen, housekeeper, poolOpen>>)
    BY <1>16 DEF Disconnect
  <2>4. \E l \in {"handle", "ended", "test"}, h \in {None, "error"} : Step(l, h)
    BY <1>16 DEF Disconnect
  <2> QED BY <2>1, <2>2, <2>3, <2>4, StepTyped DEF TypeOK
<1>17. CASE ReceiveTimesOut BY <1>17, StepTyped DEF ReceiveTimesOut, TypeOK
<1> QED BY <1>1, <1>2, <1>3, <1>4, <1>5, <1>6, <1>7, <1>8, <1>9, <1>10, <1>11, <1>12,
           <1>13, <1>14, <1>15, <1>16, <1>17 DEF LoopStep

LEMMA ShutdownTyped ==
    ASSUME TypeOK, NEW s \in Stopper,
           ShutdownStep(s) \/ (\E o \in {"shutdown", "close"} : Call(s, o))
    PROVE  TypeOK'
<1> USE DEF TypeOK, Go, Free, flags, server, clients, loopVars
<1>1. CASE MustShutdown(s)
  <2>1. mustshutdown' = TRUE /\ UNCHANGED <<Free, transport, server, sweeper, part>>
    BY <1>1 DEF MustShutdown
  <2>2. \E to \in {"flag", "must2"} : spc' = [spc EXCEPT ![s] = to] BY <1>1 DEF MustShutdown
  <2>3. spc' \in [Stopper -> {"out", "must", "flag", "release", "join", "test", "close",
                             "unset", "must2", "find", "forget", "await",
                             "returned", "raised"}]
    BY <2>2
  <2>4. loopstopped' = loopstopped BY <1>1 DEF MustShutdown
  <2> QED BY <2>1, <2>3, <2>4
<1>2. CASE FlagShutdown(s)
  <2>1. UNCHANGED <<Free, flags, sock, selectorOpen, housekeeper, poolOpen, sweeper, part>>
    BY <1>2 DEF FlagShutdown
  <2>2. shutting_down' \in {TRUE, shutting_down} BY <1>2 DEF FlagShutdown
  <2>3. \E to \in {"release", "raised"} : spc' = [spc EXCEPT ![s] = to] BY <1>2 DEF FlagShutdown
  <2>4. spc' \in [Stopper -> {"out", "must", "flag", "release", "join", "test", "close",
                             "unset", "must2", "find", "forget", "await",
                             "returned", "raised"}]
    BY <2>3
  <2>5. mustshutdown' = mustshutdown /\ loopstopped' = loopstopped /\ transport' = transport
    BY <2>1
  <2>6. UNCHANGED <<Free, sock, selectorOpen, housekeeper, poolOpen, sweeper, part>> BY <2>1
  <2>7. {mustshutdown, loopstopped, transport, shutting_down}' \subseteq BOOLEAN BY <2>2, <2>5
  <2> QED BY <2>4, <2>5, <2>6, <2>7
<1>3. CASE Release(s) BY <1>3 DEF Release
<1>4. CASE Join(s)
  <2>1. UNCHANGED <<Free, flags, shutting_down, sock, selectorOpen, poolOpen, sweeper, part>>
    BY <1>4 DEF Join
  <2>2. housekeeper' \in BOOLEAN BY <1>4 DEF Join
  <2>3. \E to \in {"test", "raised"} : spc' = [spc EXCEPT ![s] = to] BY <1>4 DEF Join
  <2> QED BY <2>1, <2>2, <2>3
<1>5. CASE TestSocket(s) BY <1>5 DEF TestSocket
<1>6. CASE CloseSocket(s) BY <1>6 DEF CloseSocket
<1>7. CASE UnsetSocket(s) BY <1>7 DEF UnsetSocket
<1>8. CASE MustClose(s) BY <1>8 DEF MustClose
<1>9. CASE FindTransport(s) BY <1>9 DEF FindTransport
<1>10. CASE ForgetTransport(s) BY <1>10 DEF ForgetTransport
<1>11. CASE Await(s) BY <1>11 DEF Await
<1>12. ASSUME NEW o \in {"shutdown", "close"}, Call(s, o) PROVE TypeOK'
  BY <1>12 DEF Call, CallFrom
<1> QED BY <1>1, <1>2, <1>3, <1>4, <1>5, <1>6, <1>7, <1>8, <1>9, <1>10, <1>11, <1>12
        DEF ShutdownStep

(* Every variable keeps its type (DaemonLoop's TypeOK).                    *)
THEOREM TypeCorrect == Spec => []TypeOK
<1>1. ASSUME TypeOK, [Next]_vars PROVE TypeOK'
  <2>1. CASE HousekeeperEnds
    BY <1>1, <2>1 DEF HousekeeperEnds, TypeOK, flags, server, loopVars, clients, stoppers
  <2>2. CASE UNCHANGED vars
    BY <1>1, <2>2 DEF vars, TypeOK, flags, server, loopVars, clients, stoppers
  <2> QED BY <1>1, <2>1, <2>2, ClientTyped, LoopTyped, ShutdownTyped DEF Next
<1> QED BY <1>1, TypeInit, PTL DEF Spec

-----------------------------------------------------------------------------
(* What a server holds has been released: what shutdown is for.            *)
Shut ==
    /\ sock = "none"
    /\ kind = "thread" => sweeper = "ended" /\ ~poolOpen
    /\ kind = "multiplex" => ~selectorOpen

(* The order of close(): the housekeeper has ended before its attribute is *)
(* unset, which happens before the socket is looked at; and transportServer*)
(* is unset by a thread that has closed it.                                *)
ReleaseInv ==
    /\ kind = "thread" /\ ~housekeeper => sweeper = "ended"
    /\ \A s \in Stopper :
        /\ spc[s] \in {"test", "close", "unset"} =>
              /\ kind = "thread" => ~housekeeper
              /\ kind = "multiplex" => ~selectorOpen
        /\ spc[s] = "join" => kind = "thread"
        /\ spc[s] = "unset" => sock \in {"closed", "none"} \/ kind = "existing"
        /\ spc[s] = "forget" => Shut
        /\ spc[s] \in {"await", "returned"} => ~transport
    /\ ~transport => Shut

LEMMA ReleaseInit == Init => ReleaseInv
BY DEF Init, InitSocket, InitThreads, InitConnection, ReleaseInv

(* None of the loop's steps touches what the invariant is about, except    *)
(* that the last client of an existing connection shuts its server down    *)
(* and a request may call shutdown.                                        *)
LEMMA LoopReleases ==
    ASSUME TypeOK, ReleaseInv, EnterLoop \/ LoopStep \/ ReceiveTimesOut
    PROVE  ReleaseInv'
<1> USE DEF server, stoppers, ReleaseInv, Shut, Step, Goto, End
<1>1. CASE EnterLoop BY <1>1 DEF EnterLoop
<1>2. CASE BeginLoop BY <1>2 DEF BeginLoop
<1>3. CASE TestLoop BY <1>3 DEF TestLoop
<1>4. CASE NothingHappens \/ AssertSocket BY <1>4 DEF NothingHappens, AssertSocket
<1>5. CASE SelectListener BY <1>5 DEF SelectListener
<1>6. CASE AcceptFails BY <1>6 DEF AcceptFails
<1>7. CASE Accept BY <1>7 DEF Accept
<1>8. CASE ProcessJob BY <1>8 DEF ProcessJob
<1>9. CASE Deny BY <1>9 DEF Deny
<1>10. CASE SelectEvents BY <1>10 DEF SelectEvents
<1>11. CASE EventsDone BY <1>11 DEF EventsDone
<1>12. CASE HandleListener BY <1>12 DEF HandleListener
<1>13. CASE Greet BY <1>13 DEF Greet
<1>14. CASE RequestReturns BY <1>14 DEF RequestReturns, clients
<1>15. ASSUME NEW c \in Client, Request(c) PROVE ReleaseInv'
  <2>1. UNCHANGED <<server, kind, transport, sweeper>> BY <1>15 DEF Request
  <2>2. CASE UNCHANGED stoppers BY <2>1, <2>2
  <2>3. ASSUME NEW s \in Stopper, NEW o \in {"shutdown", "close"}, CallFrom(s, o)
        PROVE  ReleaseInv'
    BY <2>1, <2>3 DEF CallFrom, TypeOK
  <2>4. UNCHANGED stoppers \/ \E s \in Stopper, o \in {"shutdown", "close"} : CallFrom(s, o)
    BY <1>15 DEF Request
  <2> QED BY <2>2, <2>3, <2>4
<1>16. ASSUME NEW c \in Client, Disconnect(c) PROVE ReleaseInv'
  <2>1. /\ UNCHANGED <<kind, transport, sweeper, stoppers>>
        /\ \/ UNCHANGED server
           \/ /\ kind = "existing" /\ sock' = "none" /\ UNCHANGED <<selectorOpen, housekeeper, poolOpen>>
    BY <1>16 DEF Disconnect
  <2> QED BY <2>1
<1>17. CASE ReceiveTimesOut BY <1>17 DEF ReceiveTimesOut
<1> QED BY <1>1, <1>2, <1>3, <1>4, <1>5, <1>6, <1>7, <1>8, <1>9, <1>10, <1>11, <1>12,
           <1>13, <1>14, <1>15, <1>16, <1>17 DEF LoopStep

LEMMA ShutdownReleases ==
    ASSUME TypeOK, ReleaseInv, NEW s \in Stopper,
           ShutdownStep(s) \/ (\E o \in {"shutdown", "close"} : Call(s, o))
    PROVE  ReleaseInv'
<1> USE DEF TypeOK, ReleaseInv, Shut, Go, Free, flags, server, loopVars
<1>1. CASE MustShutdown(s)
  <2>1. mustshutdown' = TRUE /\ UNCHANGED <<Free, transport, server, sweeper, part>>
    BY <1>1 DEF MustShutdown
  <2>2. PICK to \in {"flag", "must2"} : spc' = [spc EXCEPT ![s] = to] BY <1>1 DEF MustShutdown
  <2>3. \A r \in Stopper : spc'[r] = to \/ spc'[r] = spc[r] BY <2>2
  <2>4. loopstopped' = loopstopped BY <1>1 DEF MustShutdown
  <2> QED BY <2>1, <2>3, <2>4
<1>2. CASE FlagShutdown(s)
  <2>1. UNCHANGED <<Free, flags, sock, selectorOpen, housekeeper, poolOpen, sweeper, part>>
    BY <1>2 DEF FlagShutdown
  <2>2. shutting_down' \in {TRUE, shutting_down} BY <1>2 DEF FlagShutdown
  <2>3. PICK to \in {"release", "raised"} : spc' = [spc EXCEPT ![s] = to] BY <1>2 DEF FlagShutdown
  <2>4. \A r \in Stopper : spc'[r] = to \/ spc'[r] = spc[r] BY <2>3
  <2> QED BY <2>1, <2>2, <2>4
<1>3. CASE Release(s) BY <1>3 DEF Release
<1>4. CASE Join(s)
  <2>1. CASE Go(s, "join", "test") /\ sweeper = "ended" /\ housekeeper' = FALSE
    BY <1>4, <2>1 DEF Join
  <2>2. CASE Go(s, "join", "raised") /\ UNCHANGED housekeeper
    BY <1>4, <2>2 DEF Join
  <2> QED BY <1>4, <2>1, <2>2, Zenon DEF Join
<1>5. CASE TestSocket(s) BY <1>5 DEF TestSocket
<1>6. CASE CloseSocket(s) BY <1>6 DEF CloseSocket
<1>7. CASE UnsetSocket(s) BY <1>7 DEF UnsetSocket
<1>8. CASE MustClose(s) BY <1>8 DEF MustClose
<1>9. CASE FindTransport(s) BY <1>9 DEF FindTransport
<1>10. CASE ForgetTransport(s) BY <1>10 DEF ForgetTransport
<1>11. CASE Await(s) BY <1>11 DEF Await
<1>12. ASSUME NEW o \in {"shutdown", "close"}, Call(s, o) PROVE ReleaseInv'
  BY <1>12 DEF Call, CallFrom
<1> QED BY <1>1, <1>2, <1>3, <1>4, <1>5, <1>6, <1>7, <1>8, <1>9, <1>10, <1>11, <1>12
        DEF ShutdownStep

(* A shutdown or close that has returned has released what the server held *)
(* (DaemonLoop's Released).                                                *)
THEOREM ShutdownReleasesAll == Spec => []Released
<1>1. ASSUME TypeOK, ReleaseInv, [Next]_vars PROVE ReleaseInv'
  <2> USE DEF flags, server, loopVars, clients, stoppers
  <2>1. CASE HousekeeperEnds
    BY <1>1, <2>1 DEF HousekeeperEnds, ReleaseInv, Shut
  <2>2. CASE UNCHANGED vars
    BY <1>1, <2>2 DEF vars, ReleaseInv, Shut
  <2>3. ASSUME NEW c \in Client, Connect(c) \/ Speak(c) \/ Leave(c) PROVE ReleaseInv'
    BY <1>1, <2>3 DEF Connect, Speak, Leave, ReleaseInv, Shut
  <2> QED BY <1>1, <2>1, <2>2, <2>3, LoopReleases, ShutdownReleases DEF Next
<1>2. TypeOK /\ ReleaseInv => Released BY DEF ReleaseInv, Released, Shut
<1> QED BY <1>1, <1>2, ReleaseInit, TypeCorrect, PTL DEF Spec

-----------------------------------------------------------------------------
(* What the refinement needs: the client in hand waits, and nothing of the *)
(* server is taken down before somebody has asked for it.                  *)
Untouched ==
    /\ ~mustshutdown /\ transport /\ ~shutting_down
    /\ sock = "open" /\ selectorOpen /\ poolOpen

ServiceInv ==
    /\ loop \in {"process", "deny", "greet"} => hand \in Client /\ fate[hand] = "held"
    /\ Asked \/ Untouched

Fates == [c \in Client |-> Outcome(fate[c])]

LEMMA ServiceInit == Init => ServiceInv /\ Service!Init
<1> SUFFICES ASSUME Init PROVE ServiceInv /\ Service!Init OBVIOUS
<1>1. ServiceInv BY DEF Init, InitSocket, InitThreads, InitConnection, ServiceInv, Untouched
<1>2. Phase = "idle" BY DEF Init, InitSocket, InitThreads, InitConnection, Phase
<1>3. Asked = FALSE BY DEF Init, InitSocket, InitThreads, InitConnection, Asked
<1>4. Fates \in [Client -> {"none", "served"}] BY DEF Init, InitSocket, InitThreads, InitConnection, Fates, Outcome
<1> QED BY <1>1, <1>2, <1>3, <1>4 DEF Service!Init, Fates

LEMMA OneFate ==
    ASSUME TypeOK, NEW c \in Client, NEW f, fate' = [fate EXCEPT ![c] = f]
    PROVE  Fates' = [Fates EXCEPT ![c] = Outcome(f)]
BY DEF TypeOK, Fates

LEMMA SameFates == ASSUME UNCHANGED fate PROVE UNCHANGED Fates
BY DEF Fates

(* The kinds of step that the abstract daemon allows.                      *)
LEMMA Stutter ==
    ASSUME UNCHANGED <<Phase, Asked, Fates>> PROVE [Service!Next]_(Service!vars)
BY DEF Service!vars, Fates

LEMMA AskStep ==
    ASSUME Asked', UNCHANGED <<Phase, Fates>> PROVE Service!Next
<1>1. Asked' = TRUE BY DEF Asked
<1> QED BY <1>1 DEF Service!Next, Service!Ask, Fates

LEMMA ClientStep ==
    ASSUME NEW c \in Client, UNCHANGED Phase, NEW f, Fates' = [Fates EXCEPT ![c] = f],
           \/ f = "waiting" /\ Fates[c] = "none" /\ UNCHANGED Asked
           \/ f = "served" /\ Fates[c] = "waiting" /\ Phase = "serving" /\ UNCHANGED Asked
           \/ /\ f = "dismissed" /\ Fates[c] \in {"waiting", "served"}
              /\ Phase = "serving" /\ (Asked => Asked')
    PROVE  Service!Next
<1>1. CASE f = "waiting" /\ Fates[c] = "none" /\ UNCHANGED Asked
  BY <1>1 DEF Service!Next, Service!Arrive, Fates
<1>2. CASE f = "served" /\ Fates[c] = "waiting" /\ Phase = "serving" /\ UNCHANGED Asked
  BY <1>2 DEF Service!Next, Service!Serve, Fates
<1>3. CASE /\ f = "dismissed" /\ Fates[c] \in {"waiting", "served"}
           /\ Phase = "serving" /\ (Asked => Asked')
  <2>1. Asked' \in {Asked, TRUE} BY <1>3 DEF Asked
  <2>2. Service!Dismiss(c) BY <1>3, <2>1 DEF Service!Dismiss, Fates
  <2> QED BY <2>2 DEF Service!Next
<1> QED BY <1>1, <1>2, <1>3

LEMMA StopStep ==
    ASSUME Phase # "stopped", Phase' = "stopped", UNCHANGED Asked,
           \/ Asked /\ UNCHANGED Fates
           \/ \E c \in Client :
                /\ Fates' = [Fates EXCEPT ![c] = "dismissed"]
                /\ Fates[c] = "waiting" \/ (Asked /\ Fates[c] = "served")
    PROVE  Service!Next
BY DEF Service!Next, Service!Stop, Fates

(* Who has asked.                                                          *)
LEMMA AskedSame ==
    ASSUME UNCHANGED <<kind, spc, sock>> PROVE UNCHANGED Asked
BY DEF Asked

LEMMA AskedBySome ==
    ASSUME NEW s \in Stopper, spc[s] # "out" PROVE Asked
BY DEF Asked

LEMMA ClientServes ==
    ASSUME TypeOK, ServiceInv, NEW c \in Client, Connect(c) \/ Speak(c) \/ Leave(c)
    PROVE  ServiceInv' /\ [Service!Next]_(Service!vars)
<1> USE DEF server, flags, loopVars, stoppers
<1>0. /\ UNCHANGED <<kind, spc, sock, loop, hand, mustshutdown, transport>>
      /\ UNCHANGED <<shutting_down, selectorOpen, poolOpen>>
  BY DEF Connect, Speak, Leave
<1>1. UNCHANGED Asked BY <1>0, AskedSame
<1>2. UNCHANGED Phase BY <1>0 DEF Phase
<1>3. UNCHANGED Untouched BY <1>0 DEF Untouched
<1>4. CASE Connect(c)
  <2>1. fate[c] = "none" /\ fate' = [fate EXCEPT ![c] = "backlog"] BY <1>4 DEF Connect
  <2>2. Fates' = [Fates EXCEPT ![c] = "waiting"] BY <2>1, OneFate DEF Outcome
  <2>3. Fates[c] = "none" BY <2>1 DEF Fates, Outcome
  <2>4. ServiceInv' BY <1>0, <1>1, <1>3, <2>1 DEF ServiceInv, TypeOK
  <2> QED BY <1>1, <1>2, <2>2, <2>3, <2>4, ClientStep
<1>5. CASE UNCHANGED fate
  <2>1. ServiceInv' BY <1>0, <1>1, <1>3, <1>5 DEF ServiceInv
  <2> QED BY <1>1, <1>2, <1>5, <2>1, SameFates, Stutter
<1> QED BY <1>4, <1>5 DEF Speak, Leave

(* Steps of the loop that neither end it nor touch a client's fate.        *)
LEMMA LoopStutters ==
    ASSUME TypeOK, ServiceInv, UNCHANGED <<kind, spc, server, transport, fate>>,
           Phase' = Phase, mustshutdown' = FALSE \/ UNCHANGED mustshutdown,
           loop' \in {"process", "deny", "greet"} => loop \in {"process", "deny", "greet"} /\ hand' = hand
    PROVE  ServiceInv' /\ [Service!Next]_(Service!vars)
<1>1. UNCHANGED Asked BY AskedSame DEF server
<1>2. ServiceInv'
  <2>1. CASE mustshutdown' = FALSE BY <1>1, <2>1 DEF ServiceInv, Untouched, server
  <2>2. CASE UNCHANGED mustshutdown
    <3>1. UNCHANGED Untouched BY <2>2 DEF Untouched, server
    <3> QED BY <1>1, <3>1 DEF ServiceInv
  <2> QED BY <2>1, <2>2
<1> QED BY <1>1, <1>2, SameFates, Stutter

(* The loop ends because it was asked to.                                  *)
LEMMA LoopStops ==
    ASSUME TypeOK, ServiceInv, UNCHANGED <<kind, spc, server, transport, fate>>,
           UNCHANGED mustshutdown, Asked, loop # "ended", loop' = "ended"
    PROVE  ServiceInv' /\ [Service!Next]_(Service!vars)
<1>1. UNCHANGED Asked BY AskedSame DEF server
<1>2. ServiceInv' BY <1>1 DEF ServiceInv
<1>3. Phase # "stopped" /\ Phase' = "stopped" BY DEF Phase
<1> QED BY <1>1, <1>2, <1>3, SameFates, StopStep

(* The loop decides what becomes of one client.                            *)
LEMMA LoopServes ==
    ASSUME TypeOK, ServiceInv, NEW c \in Client, NEW f,
           UNCHANGED <<kind, spc, server, transport, mustshutdown>>,
           fate' = [fate EXCEPT ![c] = f],
           loop \notin {"out", "begin", "ended"}, loop' \notin {"out", "begin"},
           loop' \in {"process", "deny", "greet"} => hand' = c /\ f = "held",
           \/ f = "held" /\ fate[c] = "backlog" /\ loop' # "ended"
           \/ f = "served" /\ fate[c] = "held" /\ loop' # "ended"
           \/ f \in {"refused", "dropped"} /\ fate[c] \in {"backlog", "held"}
           \/ f = "dropped" /\ fate[c] = "served" /\ (loop' = "ended" => Asked)
    PROVE  ServiceInv' /\ [Service!Next]_(Service!vars)
<1>1. UNCHANGED Asked BY AskedSame DEF server
<1>2. Asked' \/ Untouched' BY <1>1 DEF ServiceInv, Untouched, server
<1>3. fate'[c] = f BY DEF TypeOK
<1>4. ServiceInv' BY <1>2, <1>3 DEF ServiceInv
<1>5. Fates' = [Fates EXCEPT ![c] = Outcome(f)] BY OneFate
<1>6. Fates[c] = Outcome(fate[c]) BY DEF Fates
<1>7. Phase = "serving" BY DEF Phase, TypeOK
<1>8. CASE f = "held"
  <2>1. fate[c] = "backlog" BY <1>8
  <2>2. Outcome(f) = Outcome(fate[c]) BY <2>1, <1>8 DEF Outcome
  <2>3. UNCHANGED Fates BY <1>5, <1>6, <2>2 DEF Fates
  <2>4. UNCHANGED Phase BY <1>8, <1>7 DEF Phase
  <2> QED BY <1>1, <1>4, <2>3, <2>4, Stutter
<1>9. CASE f # "held" /\ loop' # "ended"
  <2>1. UNCHANGED Phase BY <1>9, <1>7 DEF Phase
  <2>2. \/ Outcome(f) = "served" /\ Fates[c] = "waiting"
        \/ Outcome(f) = "dismissed" /\ Fates[c] \in {"waiting", "served"}
    BY <1>9, <1>6 DEF Outcome
  <2> QED BY <1>1, <1>4, <1>5, <1>7, <2>1, <2>2, ClientStep
<1>10. CASE f # "held" /\ loop' = "ended"
  <2>1. Phase' = "stopped" BY <1>10 DEF Phase
  <2>2. Outcome(f) = "dismissed" /\ (Fates[c] = "waiting" \/ (Asked /\ Fates[c] = "served"))
    BY <1>10, <1>6 DEF Outcome
  <2> QED BY <1>1, <1>4, <1>5, <1>7, <2>1, <2>2, StopStep
<1> QED BY <1>8, <1>9, <1>10

LEMMA LoopImplements ==
    ASSUME TypeOK, ServiceInv, EnterLoop \/ LoopStep \/ ReceiveTimesOut
    PROVE  ServiceInv' /\ [Service!Next]_(Service!vars)
<1> USE DEF server, stoppers, clients, Goto, End, Step
<1>1. CASE EnterLoop
  <2>1. UNCHANGED Phase BY <1>1 DEF EnterLoop, Phase
  <2> QED BY <1>1, <2>1, LoopStutters DEF EnterLoop
<1>2. CASE BeginLoop
  <2>1. CASE transport
    <3>1. UNCHANGED <<kind, spc, server, transport, mustshutdown, fate, hand>> /\ loop' = "test"
      BY <1>2, <2>1 DEF BeginLoop
    <3>2. Phase = "idle" /\ Phase' = "serving" BY <1>2, <3>1 DEF BeginLoop, Phase
    <3>3. UNCHANGED Asked BY <3>1, AskedSame
    <3>4. UNCHANGED Fates BY <3>1, SameFates
    <3>5. ServiceInv' BY <3>1, <3>3 DEF ServiceInv, Untouched
    <3> QED BY <3>2, <3>3, <3>4, <3>5 DEF Service!Next, Service!Start, Fates
  <2>2. CASE ~transport
    <3>1. Asked BY <2>2 DEF ServiceInv, Untouched
    <3> QED BY <1>2, <2>2, <3>1, LoopStops DEF BeginLoop
  <2> QED BY <2>1, <2>2
<1>3. CASE TestLoop
  <2>1. CASE Continues
    <3>1. UNCHANGED Phase BY <1>3, <2>1 DEF TestLoop, Phase
    <3> QED BY <1>3, <2>1, <3>1, LoopStutters DEF TestLoop
  <2>2. CASE ~Continues
    <3>1. Asked BY <2>2 DEF ServiceInv, Untouched, Continues
    <3> QED BY <1>3, <2>2, <3>1, LoopStops DEF TestLoop
  <2> QED BY <2>1, <2>2
<1>0. CASE AssertSocket
  <2>1. CASE Step("wait", None)
    <3>1. UNCHANGED Phase BY <1>0, <2>1 DEF AssertSocket, Phase
    <3> QED BY <1>0, <2>1, <3>1, LoopStutters DEF AssertSocket
  <2>2. CASE sock = "none" /\ Step("ended", "error")
    <3>1. Asked BY <2>2 DEF ServiceInv, Untouched
    <3> QED BY <1>0, <2>2, <3>1, LoopStops DEF AssertSocket
  <2> QED BY <1>0, <2>1, <2>2 DEF AssertSocket
<1>4. CASE NothingHappens
  <2>1. CASE kind = "multiplex" /\ ~selectorOpen
    <3>1. Asked BY <2>1 DEF ServiceInv, Untouched
    <3> QED BY <1>4, <2>1, <3>1, LoopStops DEF NothingHappens
  <2>2. CASE ~(kind = "multiplex" /\ ~selectorOpen)
    <3>1. UNCHANGED Phase BY <1>4, <2>2 DEF NothingHappens, Phase
    <3> QED BY <1>4, <2>2, <3>1, LoopStutters DEF NothingHappens
  <2> QED BY <2>1, <2>2
<1>5. CASE SelectListener
  <2>1. UNCHANGED Phase BY <1>5 DEF SelectListener, Phase
  <2> QED BY <1>5, <2>1, LoopStutters DEF SelectListener
<1>6. CASE AcceptFails
  <2>1. Asked BY <1>6 DEF AcceptFails, ServiceInv, Untouched
  <2>2. CASE loop' = "ended" BY <1>6, <2>1, <2>2, LoopStops DEF AcceptFails
  <2>3. CASE loop' = "test"
    <3>1. UNCHANGED Phase BY <1>6, <2>3 DEF AcceptFails, Phase
    <3> QED BY <1>6, <2>1, <2>3, <3>1, LoopStutters DEF AcceptFails
  <2> QED BY <1>6, <2>2, <2>3 DEF AcceptFails
<1>7. CASE Accept
  <2>1. CASE loop' = "test" /\ UNCHANGED fate
    <3>1. UNCHANGED Phase BY <1>7, <2>1 DEF Accept, Phase
    <3> QED BY <1>7, <2>1, <3>1, LoopStutters DEF Accept
  <2>2. ASSUME NEW c \in Backlog,
               \/ fate' = [fate EXCEPT ![c] = "dropped"] /\ loop' = "test"
               \/ fate' = [fate EXCEPT ![c] = "held"] /\ loop' = "process" /\ hand' = c
        PROVE  ServiceInv' /\ [Service!Next]_(Service!vars)
    <3>1. c \in Client /\ fate[c] = "backlog" BY <2>2 DEF Backlog
    <3>2. UNCHANGED <<kind, spc, server, transport, mustshutdown>> BY <1>7 DEF Accept
    <3>3. loop = "accept" BY <1>7 DEF Accept
    <3>4. CASE fate' = [fate EXCEPT ![c] = "dropped"] /\ loop' = "test"
      BY <3>1, <3>2, <3>3, <3>4, LoopServes
    <3>5. CASE fate' = [fate EXCEPT ![c] = "held"] /\ loop' = "process" /\ hand' = c
      BY <3>1, <3>2, <3>3, <3>5, LoopServes
    <3> QED BY <2>2, <3>4, <3>5
  <2> QED BY <1>7, <2>1, <2>2 DEF Accept
<1>8. ASSUME ProcessJob \/ Deny \/ Greet
      PROVE  ServiceInv' /\ [Service!Next]_(Service!vars)
  <2>1. hand \in Client /\ fate[hand] = "held"
    BY <1>8 DEF ServiceInv, ProcessJob, Deny, Greet
  <2>2. UNCHANGED <<kind, spc, server, transport, mustshutdown>>
    BY <1>8 DEF ProcessJob, Deny, Greet
  <2>3. loop \in {"process", "deny", "greet"} BY <1>8 DEF ProcessJob, Deny, Greet
  <2>4. \/ \E f \in {"served", "refused", "dropped"} :
             /\ fate' = [fate EXCEPT ![hand] = f]
             /\ loop' \in {"test", "handle", "ended"} /\ (f = "served" => loop' # "ended")
        \/ loop' = "deny" /\ loop = "process" /\ UNCHANGED <<fate, hand>>
    BY <1>8 DEF ProcessJob, Deny, Greet
  <2>5. CASE loop' = "deny" /\ loop = "process" /\ UNCHANGED <<fate, hand>>
    <3>1. UNCHANGED Phase BY <2>5 DEF Phase
    <3> QED BY <2>2, <2>5, <3>1, LoopStutters
  <2>6. ASSUME NEW f \in {"served", "refused", "dropped"},
               fate' = [fate EXCEPT ![hand] = f],
               loop' \in {"test", "handle", "ended"}, f = "served" => loop' # "ended"
        PROVE  ServiceInv' /\ [Service!Next]_(Service!vars)
    BY <2>1, <2>2, <2>3, <2>6, LoopServes
  <2> QED BY <2>4, <2>5, <2>6
<1>9. CASE SelectEvents \/ EventsDone
  <2>1. UNCHANGED Phase BY <1>9 DEF SelectEvents, EventsDone, Phase
  <2> QED BY <1>9, <2>1, LoopStutters DEF SelectEvents, EventsDone
<1>10. CASE HandleListener
  <2>1. UNCHANGED <<kind, spc, server, transport, mustshutdown>> /\ loop = "handle"
    BY <1>10 DEF HandleListener
  <2>2. CASE sock # "open"
    <3>1. Asked BY <2>2 DEF ServiceInv, Untouched
    <3> QED BY <1>10, <2>1, <2>2, <3>1, LoopStops DEF HandleListener
  <2>3. CASE sock = "open"
    <3>1. PICK c \in Backlog :
            fate' = [fate EXCEPT ![c] = "held"] /\ hand' = c /\ loop' = "greet"
      BY <1>10, <2>3 DEF HandleListener
    <3>2. c \in Client /\ fate[c] = "backlog" BY DEF Backlog
    <3> QED BY <2>1, <3>1, <3>2, LoopServes
  <2> QED BY <2>2, <2>3
<1>11. CASE RequestReturns
  <2>1. UNCHANGED Phase BY <1>11 DEF RequestReturns, Phase
  <2> QED BY <1>11, <2>1, LoopStutters DEF RequestReturns
<1>12. ASSUME NEW c \in Client, Request(c)
       PROVE  ServiceInv' /\ [Service!Next]_(Service!vars)
  <2>1. /\ UNCHANGED <<kind, server, transport, mustshutdown, hand, fate>>
        /\ loop \in {"handle", "wait"} /\ loop' \in {"handle", "test", "request"}
    BY <1>12 DEF Request
  <2>2. UNCHANGED Phase BY <2>1 DEF Phase
  <2>3. CASE UNCHANGED spc
    BY <2>1, <2>2, <2>3, LoopStutters
  <2>4. ASSUME NEW s \in Stopper, NEW o \in {"shutdown", "close"}, CallFrom(s, o)
        PROVE  ServiceInv' /\ [Service!Next]_(Service!vars)
    <3>1. spc'[s] # "out" BY <2>4 DEF CallFrom, TypeOK
    <3>2. Asked' BY <3>1 DEF Asked
    <3>3. ServiceInv' BY <2>1, <3>2 DEF ServiceInv
    <3> QED BY <2>1, <2>2, <3>2, <3>3, SameFates, AskStep
  <2>5. UNCHANGED spc \/ \E s \in Stopper, o \in {"shutdown", "close"} : CallFrom(s, o)
    BY <1>12 DEF Request
  <2> QED BY <2>3, <2>4, <2>5
<1>13. ASSUME NEW c \in Client, Disconnect(c)
       PROVE  ServiceInv' /\ [Service!Next]_(Service!vars)
  <2>1. /\ UNCHANGED <<kind, spc, transport, mustshutdown, hand>>
        /\ fate[c] = "served" /\ fate' = [fate EXCEPT ![c] = "dropped"]
    BY <1>13 DEF Disconnect
  <2>0. CASE kind = "existing" /\ loop' = "ended"
    <3>1. UNCHANGED server /\ loop = "wait" /\ sock = "none" BY <1>13, <2>0 DEF Disconnect
    <3>2. Asked BY <2>0, <3>1 DEF Asked
    <3> QED BY <2>0, <2>1, <3>1, <3>2, LoopServes
  <2>2. CASE kind = "existing" /\ loop' # "ended"
    <3>1. loop = "wait" /\ loop' = "test" /\ sock' = "none" BY <1>13, <2>2 DEF Disconnect
    <3>2. Asked' BY <2>1, <2>2, <3>1 DEF Asked
    <3>3. ServiceInv' BY <3>1, <3>2 DEF ServiceInv
    <3>4. Phase = "serving" /\ UNCHANGED Phase BY <3>1 DEF Phase
    <3>5. Fates' = [Fates EXCEPT ![c] = "dismissed"] /\ Fates[c] = "served"
      BY <2>1, OneFate DEF Fates, Outcome
    <3> QED BY <3>2, <3>3, <3>4, <3>5, ClientStep
  <2>3. CASE kind # "existing"
    <3>1. /\ UNCHANGED server /\ loop = "handle" /\ loop' \in {"handle", "ended"}
          /\ loop' = "ended" => ~selectorOpen
      BY <1>13, <2>3 DEF Disconnect
    <3>2. loop' = "ended" => Asked BY <3>1 DEF ServiceInv, Untouched
    <3> QED BY <2>1, <3>1, <3>2, LoopServes
  <2> QED BY <2>0, <2>2, <2>3
<1>14. CASE ReceiveTimesOut
  <2>1. UNCHANGED <<kind, spc, server, transport, mustshutdown>>
    BY <1>14 DEF ReceiveTimesOut
  <2>2. CASE loop = "wait" /\ loop' = "test" /\ UNCHANGED <<fate, hand>>
    <3>1. UNCHANGED Phase BY <2>2 DEF Phase
    <3> QED BY <2>1, <2>2, <3>1, LoopStutters
  <2>3. CASE /\ loop \in {"deny", "greet"} /\ loop' \in {"test", "handle"}
             /\ \E f \in {"refused", "dropped"} : fate' = [fate EXCEPT ![hand] = f]
    <3>1. hand \in Client /\ fate[hand] = "held" BY <2>3 DEF ServiceInv
    <3> QED BY <2>1, <2>3, <3>1, LoopServes
  <2> QED BY <1>14, <2>2, <2>3 DEF ReceiveTimesOut
<1> QED BY <1>0, <1>1, <1>2, <1>3, <1>4, <1>5, <1>6, <1>7, <1>8, <1>9, <1>10, <1>11, <1>12,
           <1>13, <1>14 DEF LoopStep

(* The steps of a thread that shuts the daemon down have been asked for.   *)
LEMMA ShutdownImplements ==
    ASSUME TypeOK, ServiceInv, NEW s \in Stopper,
           ShutdownStep(s) \/ (\E o \in {"shutdown", "close"} : Call(s, o))
    PROVE  ServiceInv' /\ [Service!Next]_(Service!vars)
<1>1. /\ UNCHANGED <<loop, hand, fate>>
      /\ spc'[s] # "out"
  <2> USE DEF TypeOK, Go, Free, loopVars, clients
  <2>1. CASE MustShutdown(s) \/ FlagShutdown(s) \/ Release(s) \/ Join(s)
    BY <2>1 DEF MustShutdown, FlagShutdown, Release, Join
  <2>2. CASE TestSocket(s) \/ CloseSocket(s) \/ UnsetSocket(s) \/ MustClose(s)
    BY <2>2 DEF TestSocket, CloseSocket, UnsetSocket, MustClose
  <2>3. CASE FindTransport(s) \/ ForgetTransport(s) \/ Await(s)
    BY <2>3 DEF FindTransport, ForgetTransport, Await
  <2>4. ASSUME NEW o \in {"shutdown", "close"}, Call(s, o)
        PROVE  UNCHANGED <<loop, hand, fate>> /\ spc'[s] # "out"
    BY <2>4 DEF Call, CallFrom
  <2> QED BY <2>1, <2>2, <2>3, <2>4 DEF ShutdownStep
<1>2. Asked' BY <1>1 DEF Asked
<1>3. ServiceInv' BY <1>1, <1>2 DEF ServiceInv
<1>4. UNCHANGED Phase BY <1>1 DEF Phase
<1> QED BY <1>1, <1>2, <1>3, <1>4, SameFates, AskStep

(* Every step of the daemon is a step of DaemonService or stutters: the    *)
(* safety part of DaemonLoop's ServesUntilAsked.                           *)
THEOREM ImplementsService == Spec => Service!Init /\ [][Service!Next]_(Service!vars)
<1>1. ASSUME TypeOK, ServiceInv, [Next]_vars
      PROVE  ServiceInv' /\ [Service!Next]_(Service!vars)
  <2>1. ASSUME UNCHANGED <<loop, hand, fate, kind, spc, server, flags>>
        PROVE  ServiceInv' /\ [Service!Next]_(Service!vars)
    <3>1. UNCHANGED <<Asked, Phase>> BY <2>1 DEF Asked, Phase, server
    <3>2. UNCHANGED Untouched BY <2>1 DEF Untouched, server, flags
    <3>3. ServiceInv' BY <1>1, <2>1, <3>1, <3>2 DEF ServiceInv
    <3> QED BY <2>1, <3>1, <3>3, SameFates, Stutter
  <2>2. CASE HousekeeperEnds
    BY <2>1, <2>2 DEF HousekeeperEnds, loopVars, clients, stoppers
  <2>3. CASE UNCHANGED vars
    BY <2>1, <2>3 DEF vars, loopVars, clients, stoppers
  <2> QED BY <1>1, <2>2, <2>3, ClientServes, LoopImplements, ShutdownImplements DEF Next
<1> QED BY <1>1, ServiceInit, TypeCorrect, PTL DEF Spec

(* For any clients and callers of shutdown, on each transport server: the  *)
(* invariant of the loop.                                                  *)
THEOREM LoopIsKept == Spec => []LoopInv
<1>1. TypeOK /\ Released => LoopInv
  BY DEF LoopInv
<1> QED
  BY <1>1, TypeCorrect, ShutdownReleasesAll, PTL
=============================================================================
