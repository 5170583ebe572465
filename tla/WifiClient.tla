------------------------------ MODULE WifiClient ------------------------------
(***************************************************************************)
(* The start of the firmware (app_main() of main.c up to its loop) and the *)
(* Wi-Fi client (wifi_client.c): the main task goes through                *)
(* wifi_client_start(), waits a bounded time for a connection and goes on, *)
(* while the event task runs the client's handler.                         *)
(*                                                                         *)
(* ESP-IDF, the station and the access point are external.  The station    *)
(* posts its events to one queue; the address comes from another task,     *)
(* which can post it after the link has gone.  An attempt to connect that  *)
(* fails and a link that goes are both told by a DISCONNECTED event.       *)
(***************************************************************************)
EXTENDS Naturals, Sequences

CONSTANTS
  MaxResets,    \* bound: resets, by a failed ESP_ERROR_CHECK() or a power loss
  MaxEvents     \* bound: the event queue

ASSUME WifiAssumption == MaxResets \in Nat /\ MaxEvents \in Nat \ {0}

VARIABLES
  pc,               \* the main task's place in Steps
  credentials,      \* whether the build's SSID and password are valid
  nvs,              \* the NVS partition: ok, or stale until it is erased
  s_wifi_started,
  registered,       \* whether the handler is registered
  group,            \* whether s_wifi_event_group exists
  connected,        \* WIFI_CONNECTED_BIT
  snmp,             \* whether snmp_agent_start() created the task
  radio,            \* the station: off, idle, connecting, linked or leased
  granted,          \* whether the news of an address is still to be posted
  events,           \* the event queue
  ap,               \* whether the access point is there
  resets

flashVars == <<credentials, nvs>>
startVars == <<s_wifi_started, registered, group, snmp>>
bootVars == <<flashVars, startVars, pc>>
linkVars == <<connected, radio, granted, events>>
airVars == <<ap, resets>>
vars == <<bootVars, linkVars, airVars>>

----------------------------------------------------------------------------
(* The main task.                                                          *)

\* What the start would be with the radio on before anyone listens.
StepsRadioFirst ==
  <<"config", "nvs", "netif", "station", "radio", "handlers", "group", "wait",
    "snmp", "loop">>

\* wifi_client_start(), snmp_agent_start(), the loop.
Steps ==
  <<"config", "nvs", "netif", "station", "handlers", "group", "radio", "wait",
    "snmp", "loop">>

At(step) == Steps[pc] = step
LoopPc == Len(Steps)

RamInit ==
  /\ pc = 1
  /\ s_wifi_started = FALSE /\ registered = FALSE /\ group = FALSE
  /\ connected = FALSE /\ snmp = FALSE
  /\ radio = "off" /\ granted = FALSE
  /\ events = <<>>

Init ==
  /\ RamInit
  /\ credentials \in BOOLEAN
  /\ nvs \in {"ok", "stale"}
  /\ ap \in BOOLEAN
  /\ resets = 0

\* A partition that is full or of another version is erased, and opened again.
EraseNvs ==
  /\ At("nvs")
  /\ nvs = "stale"
  /\ nvs' = "ok"
  /\ UNCHANGED <<credentials, pc, startVars, linkVars, airVars>>

\* Steps that succeed or end in a reset.
Proceed ==
  /\ \/ At("config") /\ credentials
     \/ At("nvs") /\ nvs = "ok"
     \/ At("netif")
     \/ At("station")
  /\ pc' = pc + 1
  /\ UNCHANGED <<flashVars, startVars, linkVars, airVars>>

RegisterHandlers ==
  /\ At("handlers")
  /\ registered' = TRUE
  /\ pc' = pc + 1
  /\ UNCHANGED <<flashVars, s_wifi_started, group, snmp, linkVars, airVars>>

CreateGroup ==
  /\ At("group")
  /\ group' = TRUE
  /\ pc' = pc + 1
  /\ UNCHANGED <<flashVars, s_wifi_started, registered, snmp, linkVars, airVars>>

\* An SSID or password that cannot be, no station interface or no event group:
\* wifi_client_start() fails and the agent is left out.
StartFails ==
  /\ (At("config") /\ ~credentials) \/ At("station") \/ At("group")
  /\ pc' = LoopPc
  /\ UNCHANGED <<flashVars, startVars, linkVars, airVars>>

StartRadio ==
  /\ At("radio")
  /\ radio' = "idle"
  /\ events' = Append(events, "STA_START")
  /\ s_wifi_started' = TRUE
  /\ pc' = pc + 1
  /\ UNCHANGED <<flashVars, registered, group, snmp, connected, granted, airVars>>

\* What the wait would be without its timeout.
WaitForever ==
  /\ At("wait")
  /\ connected
  /\ pc' = pc + 1
  /\ UNCHANGED <<flashVars, startVars, linkVars, airVars>>

\* xEventGroupWaitBits() returns with the bit set, or after its timeout.
WaitEnds ==
  /\ At("wait")
  /\ pc' = pc + 1
  /\ UNCHANGED <<flashVars, startVars, linkVars, airVars>>

\* The loop begins whether the agent's task could be created or not.
StartSnmp ==
  /\ At("snmp")
  /\ snmp' \in BOOLEAN
  /\ pc' = pc + 1
  /\ UNCHANGED <<flashVars, s_wifi_started, registered, group, linkVars, airVars>>

\* RAM is lost, flash is kept, or left half written.
Reset ==
  /\ resets < MaxResets
  /\ resets' = resets + 1
  /\ pc' = 1
  /\ s_wifi_started' = FALSE /\ registered' = FALSE /\ group' = FALSE
  /\ connected' = FALSE /\ snmp' = FALSE
  /\ radio' = "off" /\ granted' = FALSE
  /\ events' = <<>>
  /\ nvs' \in {nvs, "stale"}
  /\ UNCHANGED <<credentials, ap>>

----------------------------------------------------------------------------
(* The event task.                                                         *)

\* What the handler would be if it left the bit set, and if it never set it.
OnDisconnectedKeepBit == radio' = "connecting" /\ UNCHANGED connected
OnGotIpUnheard == UNCHANGED <<connected, radio>>

\* The branches of wifi_client_event_handler().
OnStart == radio' = "connecting" /\ UNCHANGED connected
OnDisconnected ==
  /\ connected' = (connected /\ ~group)
  /\ radio' = "connecting"
OnGotIp == connected' = (connected \/ group) /\ UNCHANGED radio

\* An event for which no handler is registered is dropped.
Dispatch ==
  /\ events # <<>>
  /\ events' = Tail(events)
  /\ CASE ~registered -> UNCHANGED <<connected, radio>>
       [] registered /\ Head(events) = "STA_START" -> OnStart
       [] registered /\ Head(events) = "STA_DISCONNECTED" -> OnDisconnected
       [] registered /\ Head(events) = "STA_GOT_IP" -> OnGotIp
  /\ UNCHANGED <<bootVars, granted, airVars>>

----------------------------------------------------------------------------
(* The station and the access point.                                       *)

Post(event) == Len(events) < MaxEvents /\ events' = Append(events, event)

Associate ==
  /\ radio = "connecting"
  /\ ap
  /\ radio' = "linked"
  /\ UNCHANGED <<bootVars, connected, granted, events, airVars>>

\* An attempt fails, or the link goes.
Disconnect ==
  /\ radio \in {"connecting", "linked", "leased"}
  /\ ~ap
  /\ radio' = "idle"
  /\ Post("STA_DISCONNECTED")
  /\ UNCHANGED <<bootVars, connected, granted, airVars>>

Lease ==
  /\ radio = "linked"
  /\ ap
  /\ radio' = "leased"
  /\ granted' = TRUE
  /\ UNCHANGED <<bootVars, connected, events, airVars>>

PostIp ==
  /\ granted
  /\ granted' = FALSE
  /\ Post("STA_GOT_IP")
  /\ UNCHANGED <<bootVars, connected, radio, airVars>>

\* The client does not ask to be told when an address is lost.
LoseLease ==
  /\ radio = "leased"
  /\ radio' = "linked"
  /\ UNCHANGED <<bootVars, connected, granted, events, airVars>>

ApChanges ==
  /\ ap' = ~ap
  /\ UNCHANGED <<bootVars, linkVars, resets>>

----------------------------------------------------------------------------
MainTask == \/ EraseNvs \/ Proceed \/ RegisterHandlers \/ CreateGroup \/ StartFails
            \/ StartRadio \/ WaitEnds \/ StartSnmp
Station == Associate \/ Disconnect \/ Lease \/ PostIp

Next == MainTask \/ Reset \/ Dispatch \/ Station \/ LoseLease \/ ApChanges

Spec == Init /\ [][Next]_vars

\* Tasks that are ready run, and the station carries on what it has begun; it
\* tells of a failed attempt in the end.
FairSpec ==
  /\ Spec
  /\ WF_vars(MainTask) /\ WF_vars(Dispatch)
  /\ WF_vars(Associate) /\ WF_vars(Disconnect)
  /\ WF_vars(Lease) /\ WF_vars(PostIp)

----------------------------------------------------------------------------
\* The station never rests without an event under way that makes the client
\* connect again: no order of events, resets and start-up steps strands it.
NeverStranded ==
  radio = "idle" =>
    registered /\ \E i \in 1 .. Len(events) :
                    events[i] \in {"STA_START", "STA_DISCONNECTED"}

\* The main task reaches its loop, whatever becomes of the network: a UPS is
\* watched without one.
LoopReached == <>[](pc = LoopPc)

\* "Background reconnect remains active": once the access point stays, a started
\* client is connected, and stays so.
Reconnects ==
  <>[](ap /\ s_wifi_started) => <>[](connected /\ radio \in {"linked", "leased"})

\* When the access point stays away the bit is cleared for good, even by an
\* address that is told after the link went.
BitFollowsLink == <>[]~ap => <>[]~connected
==============================================================================
