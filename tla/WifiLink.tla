------------------------------ MODULE WifiLink ------------------------------
(***************************************************************************)
(* The Wi-Fi station (wifi.c): the driver's events, the quick retries, the *)
(* timer of the slow ones, and the event group the boot waits on.  Time is *)
(* counted in units of 5 s.                                                *)
(***************************************************************************)
EXTENDS Integers

CONSTANTS FastRetries,  \* WIFI_FAST_RETRY_LIMIT (5)
          MaxDrops,     \* bound: times the access point goes
          Refuses       \* may esp_wifi_connect fail without an event?

VARIABLES
  apThere,   \* [up, drops]: is the access point there?
  wifiLink,  \* what the driver does: "off", "idle", "connecting", "joined" or "up"
  wifiRetry, \* s_retry_num, up to three over the limit
  wifiTimer, \* units until the retry timer fires, Unarmed if it is not armed
  wifiState  \* [connected, bits]: s_sta_connected and the event group

wifiVars == <<apThere, wifiLink, wifiRetry, wifiTimer, wifiState>>

Unarmed == 99
MaxRetry == FastRetries + 4

Init == /\ apThere \in [up : BOOLEAN, drops : {0}]
        /\ wifiLink = "off"
        /\ wifiRetry = 0
        /\ wifiTimer = Unarmed
        /\ wifiState = [connected |-> FALSE, bits |-> {}]

\* esp_wifi_connect: an attempt ends in one event, a refused one in none.
Connect == \/ wifiLink' = "connecting"
           \/ Refuses /\ wifiLink' = "idle"

\* wifi_init_sta, with or without credentials; a part of it may fail.
InitSta == /\ wifiLink = "off"
           /\ \/ Connect /\ UNCHANGED wifiState
              \/ /\ wifiLink' = "idle"
                 /\ wifiState' = [wifiState EXCEPT !.bits = {"fail"}]
              \/ UNCHANGED <<wifiLink, wifiState>>
           /\ wifiRetry' = 0
           /\ UNCHANGED <<apThere, wifiTimer>>

\* Mutant: the pause doubles on and on.
MutDelay(n) == 2 ^ (n - FastRetries)

\* schedule_retry: 10 s, 20 s, and no more than 30 s.
Delay(n) == CASE n <= FastRetries -> 1 [] n = FastRetries + 1 -> 2
              [] n = FastRetries + 2 -> 4 [] OTHER -> 6

\* Mutant: after the quick retries nobody tries again.
MutRetry(n) == IF n <= FastRetries THEN Connect /\ UNCHANGED wifiTimer
               ELSE wifiLink' = "idle" /\ UNCHANGED wifiTimer

\* The quick retries, then the timer, which is left alone if it is armed.
Retry(n) == IF n <= FastRetries THEN Connect /\ UNCHANGED wifiTimer
            ELSE /\ wifiLink' = "idle"
                 /\ wifiTimer' = IF wifiTimer = Unarmed THEN Delay(n) ELSE wifiTimer

\* WIFI_EVENT_STA_DISCONNECTED: an attempt failed or the link broke.
Disconnected ==
    /\ wifiLink \in {"connecting", "joined", "up"}
    /\ ~apThere.up
    /\ wifiState' = [connected |-> FALSE, bits |-> wifiState.bits \ {"connected"}]
    /\ wifiRetry' = IF wifiRetry < MaxRetry THEN wifiRetry + 1 ELSE MaxRetry
    /\ Retry(wifiRetry + 1)
    /\ UNCHANGED apThere

Joined == /\ wifiLink = "connecting" /\ apThere.up
          /\ wifiLink' = "joined"
          /\ UNCHANGED <<apThere, wifiRetry, wifiTimer, wifiState>>

\* IP_EVENT_STA_GOT_IP.
GotIp == /\ wifiLink = "joined"
         /\ wifiLink' = "up"
         /\ wifiRetry' = 0
         /\ wifiState' = [connected |-> TRUE, bits |-> {"connected"}]
         /\ UNCHANGED <<apThere, wifiTimer>>

Time == /\ wifiTimer \in 1..6
        /\ wifiTimer' = wifiTimer - 1
        /\ UNCHANGED <<apThere, wifiLink, wifiRetry, wifiState>>

\* Mutant: the timer starts over instead of connecting.
MutTimerFires == /\ wifiTimer = 0
                 /\ wifiTimer' = Delay(wifiRetry)
                 /\ UNCHANGED <<apThere, wifiLink, wifiRetry, wifiState>>

\* retry_timer_callback.
TimerFires == /\ wifiTimer = 0
              /\ wifiTimer' = Unarmed
              /\ IF wifiState.connected THEN UNCHANGED wifiLink ELSE Connect
              /\ UNCHANGED <<apThere, wifiRetry, wifiState>>

ApChanges == /\ apThere.drops < MaxDrops
             /\ apThere' = [up |-> ~apThere.up, drops |-> apThere.drops + 1]
             /\ UNCHANGED <<wifiLink, wifiRetry, wifiTimer, wifiState>>

Driver == Disconnected \/ Joined \/ GotIp
Next == InitSta \/ Driver \/ Time \/ TimerFires \/ ApChanges

Spec == Init /\ [][Next]_wifiVars /\ WF_wifiVars(Driver) /\ WF_wifiVars(Time \/ TimerFires)

-----------------------------------------------------------------------------
(* Properties.                                                             *)

TypeOK == /\ wifiLink \in {"off", "idle", "connecting", "joined", "up"}
          /\ wifiRetry \in 0..MaxRetry
          /\ wifiTimer \in 0..6 \cup {Unarmed}
          /\ wifiState.connected <=> wifiLink = "up"

Started == wifiLink # "off" /\ "fail" \notin wifiState.bits

\* Once the station was started something is always under way: it is connected,
\* an attempt will be answered, or the timer will fire.
SomethingUnderWay == (Started /\ wifiLink = "idle") => wifiTimer # Unarmed

\* An access point that stays is found again, however often it went and for
\* however long.
WifiRecovers == <>[](Started /\ apThere.up) => <>[](wifiState.connected)

=============================================================================
