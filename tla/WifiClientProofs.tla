---------------------------- MODULE WifiClientProofs ----------------------------
(***************************************************************************)
(* No order of events, resets and start-up steps strands the station, for  *)
(* any number of resets and any length of the event queue.                 *)
(***************************************************************************)
EXTENDS WifiClient, TLAPS

Names == {"STA_START", "STA_DISCONNECTED", "STA_GOT_IP"}

TypeInv ==
  /\ pc \in 1 .. LoopPc
  /\ registered \in BOOLEAN
  /\ radio \in {"off", "idle", "connecting", "linked", "leased"}
  /\ events \in Seq(Names)

\* What the order of Steps buys: from the registration to the loop, and
\* whenever the radio runs, the handler is there to be told.
ListensFirst ==
  /\ pc \in 6 .. LoopPc - 1 => registered
  /\ radio # "off" => registered

\* An event is under way that makes the client connect.
Connects(q) ==
  \E i \in 1 .. Len(q) : q[i] \in {"STA_START", "STA_DISCONNECTED"}

WifiInv == TypeInv /\ ListensFirst /\ (radio = "idle" => Connects(events))

----------------------------------------------------------------------------
(* The queue.                                                              *)

LEMMA AppendedConnects ==
  ASSUME NEW q \in Seq(Names), NEW e \in {"STA_START", "STA_DISCONNECTED"}
  PROVE  Append(q, e) \in Seq(Names) /\ Connects(Append(q, e))
<1>1. Append(q, e) \in Seq(Names)
  BY DEF Names
<1>2. /\ Len(q) + 1 \in 1 .. Len(Append(q, e))
      /\ Append(q, e)[Len(q) + 1] = e
  BY DEF Names
<1> QED BY <1>1, <1>2 DEF Connects

LEMMA AppendKeeps ==
  ASSUME NEW q \in Seq(Names), NEW e \in Names, Connects(q)
  PROVE  Connects(Append(q, e))
<1>1. PICK i \in 1 .. Len(q) : q[i] \in {"STA_START", "STA_DISCONNECTED"}
  BY DEF Connects
<1>2. i \in 1 .. Len(Append(q, e)) /\ Append(q, e)[i] = q[i]
  OBVIOUS
<1> QED BY <1>1, <1>2 DEF Connects

LEMMA EmptyQueue == <<>> \in Seq(Names)
OBVIOUS

LEMMA TailKeeps ==
  ASSUME NEW q \in Seq(Names), q # <<>>, Connects(q),
         Head(q) \notin {"STA_START", "STA_DISCONNECTED"}
  PROVE  Connects(Tail(q))
<1>1. PICK i \in 1 .. Len(q) : q[i] \in {"STA_START", "STA_DISCONNECTED"}
  BY DEF Connects
<1>2. i # 1
  BY <1>1
<1>3. i - 1 \in 1 .. Len(Tail(q)) /\ Tail(q)[i - 1] = q[i]
  BY <1>2
<1> QED BY <1>1, <1>3 DEF Connects

LEMMA StepNames ==
  /\ LoopPc = 10
  /\ \A i \in 1 .. 10 :
       /\ Steps[i] = "handlers" <=> i = 5
       /\ Steps[i] = "group" <=> i = 6
       /\ Steps[i] = "radio" <=> i = 7
       /\ Steps[i] = "wait" <=> i = 8
       /\ Steps[i] = "snmp" <=> i = 9
       /\ Steps[i] \in {"config", "nvs", "netif", "station"} <=> i \in 1 .. 4
BY DEF LoopPc, Steps

----------------------------------------------------------------------------
(* The invariant.                                                          *)

\* With the radio off and the main task at its first step nothing is owed.
LEMMA AtBoot ==
  ASSUME pc = 1, registered = FALSE, radio = "off", events = <<>>
  PROVE  WifiInv
<1>1. 1 \in 1 .. LoopPc /\ 1 \notin 6 .. LoopPc - 1
  BY StepNames
<1>2. TypeInv
  BY <1>1, EmptyQueue DEF TypeInv
<1>3. ListensFirst
  BY <1>1 DEF ListensFirst
<1> QED BY <1>2, <1>3 DEF WifiInv

LEMMA WifiInit == Init => WifiInv
BY AtBoot DEF Init, RamInit

LEMMA WifiStep == WifiInv /\ [Next]_vars => WifiInv'
<1> SUFFICES ASSUME WifiInv, [Next]_vars PROVE WifiInv'
  OBVIOUS
<1> USE StepNames DEF WifiInv, TypeInv, ListensFirst
<1>1. CASE EraseNvs
  BY <1>1 DEF EraseNvs, startVars, linkVars
<1>2. CASE Proceed
  BY <1>2 DEF Proceed, At, startVars, linkVars
<1>3. CASE RegisterHandlers
  BY <1>3 DEF RegisterHandlers, At, linkVars
<1>4. CASE CreateGroup
  BY <1>4 DEF CreateGroup, At, linkVars
<1>5. CASE StartFails
  BY <1>5 DEF StartFails, startVars, linkVars
<1>6. CASE StartRadio
  <2>1. events' \in Seq(Names) /\ Connects(events')
    BY <1>6, AppendedConnects DEF StartRadio
  <2>2. registered /\ registered' = registered
    BY <1>6 DEF StartRadio, At
  <2> QED BY <1>6, <2>1, <2>2 DEF StartRadio, At
<1>7. CASE WaitEnds
  BY <1>7 DEF WaitEnds, At, startVars, linkVars
<1>8. CASE StartSnmp
  BY <1>8 DEF StartSnmp, At, linkVars
<1>9. CASE Reset
  <2>1. pc' = 1 /\ registered' = FALSE /\ radio' = "off" /\ events' = <<>>
    BY <1>9 DEF Reset
  <2>2. 1 \in 1 .. LoopPc /\ 1 \notin 6 .. LoopPc - 1
    OBVIOUS
  <2> QED BY <2>1, <2>2, EmptyQueue
<1>10. CASE Dispatch
  <2>1. events' \in Seq(Names) /\ Head(events) \in Names
    BY <1>10 DEF Dispatch
  <2>2. pc' = pc /\ registered' = registered
    BY <1>10 DEF Dispatch, bootVars, startVars
  <2>3. CASE ~registered
    BY <1>10, <2>1, <2>2, <2>3 DEF Dispatch
  <2>4. CASE registered /\ Head(events) \in {"STA_START", "STA_DISCONNECTED"}
    <3>1. radio' = "connecting"
      BY <1>10, <2>4 DEF Dispatch, OnStart, OnDisconnected
    <3> QED BY <2>1, <2>2, <2>4, <3>1
  <2>5. CASE registered /\ Head(events) = "STA_GOT_IP"
    <3>1. radio' = radio
      BY <1>10, <2>5 DEF Dispatch, OnGotIp
    <3>2. radio = "idle" => Connects(events')
      BY <1>10, <2>5, TailKeeps DEF Dispatch
    <3> QED BY <2>1, <2>2, <2>5, <3>1, <3>2
  <2> QED BY <2>1, <2>3, <2>4, <2>5 DEF Names
<1>11. CASE Associate
  BY <1>11 DEF Associate, bootVars, startVars
<1>12. CASE Disconnect
  <2>1. events' \in Seq(Names) /\ Connects(events')
    BY <1>12, AppendedConnects DEF Disconnect, Post
  <2> QED BY <1>12, <2>1 DEF Disconnect, bootVars, startVars
<1>13. CASE Lease
  BY <1>13 DEF Lease, bootVars, startVars
<1>14. CASE PostIp
  <2>1. events' = Append(events, "STA_GOT_IP") /\ "STA_GOT_IP" \in Names
    BY <1>14 DEF PostIp, Post, Names
  <2>2. events' \in Seq(Names)
    BY <2>1
  <2>3. Connects(events) => Connects(events')
    BY <2>1, AppendKeeps
  <2> QED BY <1>14, <2>2, <2>3 DEF PostIp, bootVars, startVars
<1>15. CASE LoseLease
  BY <1>15 DEF LoseLease, bootVars, startVars
<1>16. CASE ApChanges
  BY <1>16 DEF ApChanges, bootVars, startVars, linkVars
<1>17. CASE UNCHANGED vars
  BY <1>17 DEF vars, bootVars, startVars, linkVars
<1> QED BY <1>1, <1>2, <1>3, <1>4, <1>5, <1>6, <1>7, <1>8, <1>9, <1>10, <1>11,
           <1>12, <1>13, <1>14, <1>15, <1>16, <1>17 DEF Next, MainTask, Station

----------------------------------------------------------------------------
\* wifi_client_event_handler() and wifi_client_start(): an idle station always
\* has an event under way that makes the client connect again, and a handler
\* registered for it, through any number of resets and lost links.
THEOREM NeverStrandedAlways == Spec => []NeverStranded
<1>1. WifiInv => NeverStranded
  BY DEF WifiInv, ListensFirst, NeverStranded, Connects
<1> QED BY WifiInit, WifiStep, <1>1, PTL DEF Spec
==============================================================================
