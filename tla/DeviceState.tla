------------------------------ MODULE DeviceState ------------------------------
(***************************************************************************)
(* What the device believes and shows (app_core.c, receiver_state.c, the   *)
(* session events of airplay_service.c): the boot, the network monitor     *)
(* that takes over from it and reads the Wi-Fi every two seconds, and the  *)
(* RTSP client task, which reports the session of one client.  Both tasks  *)
(* write the flags of the receiver through the same setters, each under    *)
(* the lock; what lies between two setters is open to the other task.      *)
(*                                                                         *)
(* A handler is the sequence of the operations it has left to do.  What a  *)
(* change of clients does to the events is AirplaySession's, what the      *)
(* playback worker makes of the flags SpeakerOwner's.                      *)
(***************************************************************************)
EXTENDS Integers, Sequences

CONSTANT Faults  \* of "early drop", "late event" and "voice fails": what may happen

VARIABLES
  devNet,      \* wifi_is_connected
  devFlags,    \* the flags of receiver_state_snapshot_t that are set
  devShown,    \* what the screen was last told
  devTold,     \* what the voice controller was last told: is AirPlay active?
  devUp,       \* which of "airplay", "voice" and the callback "hook" are in place
  devMain,     \* what boot and monitor have left to do
  devHad,      \* had_network, "yes" or "no", "unread" until the monitor has started
  devClient,   \* what the client task has left to do
  devSession   \* the session of the client: "none", "establishing" or "streaming"

devVars == <<devNet, devFlags, devShown, devTold, devUp, devMain, devHad, devClient, devSession>>

-----------------------------------------------------------------------------
(* The state of the receiver.                                              *)

\* choose_state: the first flag of this order that is set, else "boot".
Order == <<"faulted", "config", "recovering", "streaming", "establishing",
           "discoverable", "network">>

Chosen(flags) == IF flags = {} THEN "boot"
                 ELSE LET least == CHOOSE i \in 1..7 : /\ Order[i] \in flags
                                                       /\ \A j \in 1..(i - 1) : Order[j] \notin flags
                      IN Order[least]

SessionFlags == {"establishing", "streaming"}

\* Mutant: a session that begins to stream is still one being established.
MutCleared(flag, on) ==
    CASE on /\ flag = "config"       -> {"network", "discoverable", "recovering"} \cup SessionFlags
      [] on /\ flag = "network"      -> {"config"}
      [] on /\ flag = "establishing" -> {"discoverable", "streaming"}
      [] on /\ flag = "streaming"    -> {"discoverable", "recovering"}
      [] on /\ flag = "recovering"   -> {"discoverable"} \cup SessionFlags
      [] ~on /\ flag = "network"     -> {"discoverable"} \cup SessionFlags
      [] ~on /\ flag = "discoverable" -> SessionFlags
      [] OTHER                       -> {}

\* The flags that a setter clears beside its own.
Cleared(flag, on) ==
    CASE on /\ flag = "config"       -> {"network", "discoverable", "recovering"} \cup SessionFlags
      [] on /\ flag = "network"      -> {"config"}
      [] on /\ flag = "establishing" -> {"discoverable", "streaming"}
      [] on /\ flag = "streaming"    -> {"discoverable", "establishing", "recovering"}
      [] on /\ flag = "recovering"   -> {"discoverable"} \cup SessionFlags
      [] ~on /\ flag = "network"     -> {"discoverable"} \cup SessionFlags
      [] ~on /\ flag = "discoverable" -> SessionFlags
      [] OTHER                       -> {}

\* receiver_state_set_<flag>.
After(flag, on) == (devFlags \ (Cleared(flag, on) \cup {flag})) \cup (IF on THEN {flag} ELSE {})

-----------------------------------------------------------------------------
(* The handlers, as the operations they do one after another.              *)

On(flag) == <<"set", flag, TRUE>>
Off(flag) == <<"set", flag, FALSE>>
Tell(active) == <<"tell", active>>
Push == <<"push">>
Reconcile == <<"reconcile">>
Start == << <<"start airplay">>, <<"start voice">>, Reconcile>>

\* Mutant: the discoverable flag does not come back with the end of a session.
MutEvent(e) == CASE e = "connected"    -> <<On("establishing"), Tell(TRUE), Push>>
                 [] e = "playing"      -> <<On("streaming"), Tell(TRUE), Push>>
                 [] e = "paused"       -> <<Off("streaming"), On("establishing"), Tell(TRUE), Push>>
                 [] e = "disconnected" -> <<Off("streaming"), Off("establishing"), Tell(FALSE), Push>>

\* on_airplay_event.
Event(e) == CASE e = "connected"    -> <<On("establishing"), Tell(TRUE), Push>>
              [] e = "playing"      -> <<On("streaming"), Tell(TRUE), Push>>
              [] e = "paused"       -> <<Off("streaming"), On("establishing"), Tell(TRUE), Push>>
              [] e = "disconnected" -> <<Off("streaming"), Off("establishing"),
                                         On("discoverable"), Tell(FALSE), Push>>

\* app_core_run up to the monitor, by how far it gets.
BootWays == {<<Push, On("faulted"), Push, <<"halt">> >>,
             <<Push, On("config"), Off("network"), Push, <<"halt">> >>,
             <<Push, <<"wait">>, <<"monitor">> >>}

Connected == <<On("network")>> \o Start \o <<Push>>
GivenUp == <<On("recovering"), Push>>

\* Mutant: the voice controller is told again only when the services start.
MutRound(had, has, started) ==
    << <<"set", "network", has>>, Push>>
    \o (CASE has /\ ~had             -> <<Off("config"), Off("recovering")>> \o Start
          [] ~has /\ had             -> <<On("recovering"), <<"stop voice">>, <<"stop airplay">> >>
          [] has /\ had /\ ~started  -> Start
          [] OTHER                   -> <<>>)

\* What one reading of the monitor does, after a reading of `had'.
Round(had, has, started) ==
    << <<"set", "network", has>>, Push, Reconcile>>
    \o (CASE has /\ ~had             -> <<Off("config"), Off("recovering")>> \o Start
          [] ~has /\ had             -> <<On("recovering"), <<"stop voice">>, <<"stop airplay">> >>
          [] has /\ had /\ ~started  -> Start
          [] OTHER                   -> <<>>)

-----------------------------------------------------------------------------
Init == /\ devNet \in BOOLEAN
        /\ devFlags = {} /\ devShown = "boot"
        /\ devTold = FALSE
        /\ devUp = {}
        /\ devMain \in BootWays
        /\ devHad = "unread"
        /\ devClient = <<>> /\ devSession = "none"

\* push_screen_ui_state and reconcile_voice_mode take a snapshot, which the other
\* task may outdate before it is used.
Left(op, rest) == CASE op[1] = "push"      -> << <<"show", Chosen(devFlags)>> >> \o rest
                    [] op[1] = "reconcile" -> << <<"report", devFlags \cap SessionFlags # {}>> >> \o rest
                    [] OTHER               -> rest

\* The operations both tasks have.
Common(op) ==
    \/ /\ op[1] \in {"push", "reconcile"}
       /\ UNCHANGED <<devFlags, devShown, devTold>>
    \/ /\ op[1] = "set"
       /\ devFlags' = After(op[2], op[3])
       /\ UNCHANGED <<devShown, devTold>>
    \/ /\ op[1] = "show"
       /\ devShown' = op[2]
       /\ UNCHANGED <<devFlags, devTold>>
    \/ /\ op[1] = "report" \/ (op[1] = "tell" /\ "hook" \in devUp)
       /\ devTold' = op[2]
       /\ UNCHANGED <<devFlags, devShown>>
    \/ /\ op[1] = "tell" /\ "hook" \notin devUp
       /\ UNCHANGED <<devFlags, devShown, devTold>>

\* Mutant: a failed start is not shown as a recovery, and not taken for one.
MutStartAirplay(rest) == \/ /\ devUp' = devUp \cup {"airplay", "hook"}
                            /\ devMain' = <<On("discoverable")>> \o rest
                         \/ "airplay" \notin devUp /\ UNCHANGED devUp /\ devMain' = rest

\* start_airplay_services with airplay_service_start: it may fail on the board,
\* the pipeline, mDNS or the server.  A service that was started is left as it is.
StartAirplay(rest) ==
    \/ /\ "airplay" \in devUp
       /\ devUp' = devUp \cup {"hook"}
       /\ devMain' = rest
    \/ /\ "airplay" \notin devUp
       /\ devUp' = devUp \cup {"airplay"}
       /\ devMain' = <<On("discoverable"), Off("recovering"), Off("recovering"), <<"hook">> >> \o rest
    \/ /\ "airplay" \notin devUp
       /\ UNCHANGED devUp
       /\ devMain' = <<On("recovering")>> \o rest

\* start_voice_services: the board or the voice itself may fail.
StartVoice(rest) == /\ devMain' = rest
                    /\ \/ devUp' = devUp \cup {"voice"}
                       \/ "voice fails" \in Faults /\ UNCHANGED devUp

\* airplay_service_stop ends the session, whose last event may come later.
StopAirplay(rest) ==
    /\ devUp' = devUp \ {"airplay"}
    /\ IF "airplay" \in devUp
       THEN /\ devMain' = <<Off("discoverable"), Off("establishing"), Off("streaming"), Tell(FALSE)>>
                          \o rest
            /\ devSession' = "none"
            /\ devClient' = devClient \o (IF devSession = "none" THEN <<>> ELSE Event("disconnected"))
       ELSE devMain' = rest /\ UNCHANGED <<devSession, devClient>>

\* Mutant: a network that does not come is not taken for a loss.
MutWaited(rest) == \/ devNet /\ devMain' = Connected \o rest
                   \/ ~devNet /\ devMain' = rest

\* wifi_wait_connected: 30 s, and what follows.
Waited(rest) == \/ devNet /\ devMain' = Connected \o rest
                \/ ~devNet /\ devMain' = GivenUp \o rest

Word(has) == IF has THEN "yes" ELSE "no"

\* The monitor starts: its first reading is only noted.
FirstRead == devHad' = Word(devNet)

\* One operation of the boot or of the monitor.
Main ==
    /\ devMain # <<>>
    /\ LET op == Head(devMain)
           rest == Tail(devMain)
       IN \/ /\ Common(op)
             /\ devMain' = Left(op, rest)
             /\ UNCHANGED <<devUp, devHad, devClient, devSession>>
          \/ /\ op[1] = "wait"
             /\ Waited(rest)
             /\ UNCHANGED <<devFlags, devShown, devTold, devUp, devHad, devClient, devSession>>
          \/ /\ op[1] = "monitor"
             /\ FirstRead
             /\ devMain' = << <<"set", "network", devNet>>, Push>>
             /\ UNCHANGED <<devFlags, devShown, devTold, devUp, devClient, devSession>>
          \/ /\ op[1] = "start airplay"
             /\ StartAirplay(rest)
             /\ UNCHANGED <<devFlags, devShown, devTold, devHad, devClient, devSession>>
          \/ /\ op[1] = "hook"
             /\ devUp' = devUp \cup {"hook"}
             /\ devMain' = rest
             /\ UNCHANGED <<devFlags, devShown, devTold, devHad, devClient, devSession>>
          \/ /\ op[1] = "start voice"
             /\ StartVoice(rest)
             /\ UNCHANGED <<devFlags, devShown, devTold, devHad, devClient, devSession>>
          \/ /\ op[1] = "stop voice"
             /\ devUp' = devUp \ {"voice"}
             /\ devMain' = rest
             /\ UNCHANGED <<devFlags, devShown, devTold, devHad, devClient, devSession>>
          \/ /\ op[1] = "stop airplay"
             /\ StopAirplay(rest)
             /\ UNCHANGED <<devFlags, devShown, devTold, devHad>>
    /\ UNCHANGED devNet

\* network_monitor_task, two seconds after its last round.
Monitor == /\ devHad # "unread" /\ devMain = <<>>
           /\ devMain' = Round(devHad = "yes", devNet, "airplay" \in devUp)
           /\ devHad' = Word(devNet)
           /\ UNCHANGED <<devNet, devFlags, devShown, devTold, devUp, devClient, devSession>>

\* One operation of the client task.
Client == /\ devClient # <<>>
          /\ Common(Head(devClient))
          /\ devClient' = Left(Head(devClient), Tail(devClient))
          /\ UNCHANGED <<devNet, devUp, devMain, devHad, devSession>>

\* The client: it connects, plays and pauses while the network carries its
\* requests, and may go at any time.
Session(from, to, e) ==
    /\ devClient = <<>>
    /\ devSession \in from
    /\ \/ e = "disconnected"
       \/ devNet /\ (devHad # "no" \/ "late event" \in Faults)
    /\ "airplay" \in devUp
    /\ devSession' = to
    /\ devClient' = Event(e)
    /\ UNCHANGED <<devNet, devFlags, devShown, devTold, devUp, devMain, devHad>>

\* The Wi-Fi comes and goes.  Without the faults it only comes before the monitor
\* has started, and neither goes while an event of the client is being handled,
\* nor carries a request while the monitor takes the services down.
Wifi == /\ devNet => /\ devHad # "unread" \/ "early drop" \in Faults
                     /\ devClient = <<>> \/ "late event" \in Faults
        /\ devNet' = ~devNet
        /\ UNCHANGED <<devFlags, devShown, devTold, devUp, devMain, devHad, devClient, devSession>>

Next == \/ Main \/ Monitor \/ Client \/ Wifi
        \/ Session({"none"}, "establishing", "connected")
        \/ Session({"establishing"}, "streaming", "playing")
        \/ Session({"streaming"}, "establishing", "paused")
        \/ Session({"establishing", "streaming"}, "none", "disconnected")

\* The tasks run, and a service that can be started again and again starts.
Spec == /\ Init /\ [][Next]_devVars
        /\ WF_devVars(Main \/ Monitor) /\ WF_devVars(Client)
        /\ SF_devVars(Main /\ "airplay" \notin devUp /\ "airplay" \in devUp')

-----------------------------------------------------------------------------
(* Properties.                                                             *)

TypeOK == /\ devFlags \subseteq {Order[i] : i \in 1..7}
          /\ devShown \in {Order[i] : i \in 1..7} \cup {"boot"}
          /\ devUp \subseteq {"airplay", "voice", "hook"}
          /\ ~(SessionFlags \subseteq devFlags)

Monitored == devHad # "unread"

\* Whatever came before, screen and voice come to know what lasts: nobody is
\* connected, a client stays in its session, or the network does not come back.
Cases == {"idle", "lost"} \cup SessionFlags
Lasts(c) == CASE c = "idle" -> Monitored /\ devNet /\ devSession = "none"
              [] c = "lost" -> Monitored /\ ~devNet
              [] OTHER      -> devNet /\ devSession = c
Known(c) == CASE c = "idle" -> devShown = "discoverable" /\ ~devTold
              [] c = "lost" -> devShown = "recovering"
              [] OTHER      -> devShown = c /\ (Monitored => devTold)
StateFollows == \A c \in Cases : <>[]Lasts(c) => <>[]Known(c)

\* It is not told that AirPlay is over while a client is there.
VoiceUndisturbed == [][devTold /\ ~devTold' => devSession = "none" \/ ~devNet]_devVars

\* While the network stays the voice service runs.
VoiceServed == <>[](devNet /\ Monitored) => <>[]("voice" \in devUp)

=============================================================================
