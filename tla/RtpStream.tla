-------------------------------- MODULE RtpStream --------------------------------
(***************************************************************************)
(* The tasks of the realtime stream (audio_stream_realtime.c) and who      *)
(* starts and stops them (audio_receiver.c): the RTSP task, and in a       *)
(* teardown of the services the monitor as well.  The tasks have static    *)
(* stacks; a stop sleeps for a fixed time and goes on, whether they have   *)
(* ended or not, and an ANNOUNCE replaces the decoder at any time.         *)
(***************************************************************************)
EXTENDS Integers

CONSTANT Faults  \* of those of AllFaults: what may happen

\* The data socket fails, the stacks were not allocated, two tasks stop and start
\* the stream.
AllFaults == {"socket", "no stack", "two callers"}

VARIABLES
  strRunning,  \* stream->running
  strSockets,  \* the open ones of "data" and "control"
  strTask,     \* of "data" and "control": "none", "waits", "works" or "ends"
  strHandles,  \* the ones of task_handle and control_task_handle that are set
  strLate,     \* (history) the tasks that were alive when a stop went on
  strDecoder,  \* is there a decoder?
  strCaller    \* of each caller, where it is, and what it does after a stop

strVars == <<strRunning, strSockets, strTask, strHandles, strLate, strDecoder, strCaller>>

Tasks == {"data", "control"}
Callers == IF "two callers" \in Faults THEN {1, 2} ELSE {1}
Calls == {"format", "begin", "halt"}
Stages == {"close", "wait data", "wait control"}
After == {"idle", "open", "destroy"}

Init == /\ strRunning = FALSE
        /\ strSockets = {} /\ strHandles = {} /\ strLate = {}
        /\ strTask = [t \in Tasks |-> "none"]
        /\ strDecoder = FALSE
        /\ strCaller = [c \in Callers |-> [at |-> "idle", next |-> "idle"]]

At(c, label) == strCaller[c].at = label
Goto(c, label) == strCaller' = [strCaller EXCEPT ![c].at = label]

\* The calls: audio_receiver_set_format, audio_receiver_start and
\* audio_receiver_stop, at any time.
Call(c) == /\ At(c, "idle")
           /\ \E call \in Calls : Goto(c, call)
           /\ UNCHANGED <<strRunning, strSockets, strTask, strHandles, strLate, strDecoder>>

\* The decoder goes, and the new one may not be made.
Format(c) == /\ At(c, "format")
             /\ strDecoder' \in BOOLEAN
             /\ Goto(c, "idle")
             /\ UNCHANGED <<strRunning, strSockets, strTask, strHandles, strLate>>

\* audio_receiver_start stops a stream that runs, audio_receiver_stop as well.
StopThen(c, op) == strCaller' = [strCaller EXCEPT
                       ![c] = [at |-> IF strRunning THEN "close" ELSE op, next |-> op]]

Stopping(c) == /\ \/ At(c, "begin") /\ StopThen(c, "open")
                  \/ At(c, "halt") /\ StopThen(c, "destroy")
               /\ UNCHANGED <<strRunning, strSockets, strTask, strHandles, strLate, strDecoder>>

\* Mutant: the tasks are given no time.
MutWaitsAfter(c) == strCaller[c].next

WaitsAfter(c) == "wait data"

\* realtime_stop, unless another caller has stopped the stream meanwhile.
Close(c) == /\ At(c, "close") /\ strRunning
            /\ strRunning' = FALSE
            /\ strSockets' = {}
            /\ Goto(c, WaitsAfter(c))
            /\ UNCHANGED <<strTask, strHandles, strLate, strDecoder>>

CloseNothing(c) == /\ At(c, "close") /\ ~strRunning
                   /\ Goto(c, strCaller[c].next)
                   /\ UNCHANGED <<strRunning, strSockets, strTask, strHandles, strLate, strDecoder>>

\* 200 ms for the data task and 100 ms for the control task, if their handle is
\* set; then it is cleared whether the task has ended or not.
Wait(t) == IF t = "data" THEN "wait data" ELSE "wait control"

Waited(c, t) == /\ At(c, Wait(t))
                /\ strHandles' = strHandles \ {t}
                /\ strLate' = IF strTask[t] = "none" THEN strLate ELSE strLate \cup {t}
                /\ Goto(c, IF t = "data" THEN "wait control" ELSE strCaller[c].next)
                /\ UNCHANGED <<strRunning, strSockets, strTask, strDecoder>>

Destroy(c) == /\ At(c, "destroy")
              /\ strDecoder' = FALSE
              /\ Goto(c, "idle")
              /\ UNCHANGED <<strRunning, strSockets, strTask, strHandles, strLate>>

\* Mutant: a control socket that cannot be bound leaves the data socket open.
MutOpened == {{"data"}}

\* The sockets an attempt to start may leave open when it fails: none when the
\* control socket cannot be bound, or the data task not be made, but both
\* without a stack.
Opened == {{}} \cup (IF "no stack" \in Faults THEN {Tasks} ELSE {})

\* realtime_start.
OpenFails(c) == /\ At(c, "open") /\ ~strRunning
                /\ strSockets' \in Opened
                /\ Goto(c, "idle")
                /\ UNCHANGED <<strRunning, strTask, strHandles, strLate, strDecoder>>

\* Without its task the control socket is closed again.  A task made on the stack
\* of one that is alive is undefined: the model goes on with the new one alone.
Open(c) == /\ At(c, "open") /\ ~strRunning
           /\ strRunning' = TRUE
           /\ \E made \in {{"data"}, Tasks} :
                 /\ strSockets' = made
                 /\ strHandles' = strHandles \cup made
                 /\ strTask' = [t \in Tasks |-> IF t \in made THEN "waits" ELSE strTask[t]]
                 /\ strLate' = strLate \ made
           /\ Goto(c, "idle")
           /\ UNCHANGED strDecoder

\* A stream that another caller has started meanwhile is left as it is.
OpenRuns(c) == /\ At(c, "open") /\ strRunning
               /\ Goto(c, "idle")
               /\ UNCHANGED <<strRunning, strSockets, strTask, strHandles, strLate, strDecoder>>

-----------------------------------------------------------------------------
(* The tasks.                                                              *)

\* A packet comes; the data task decodes it.
Packet == /\ strTask["data"] = "waits" /\ "data" \in strSockets
          /\ strTask' = [strTask EXCEPT !["data"] = "works"]
          /\ UNCHANGED <<strRunning, strSockets, strHandles, strLate, strDecoder, strCaller>>

Decoded == /\ strTask["data"] = "works"
           /\ strTask' = [strTask EXCEPT !["data"] = "waits"]
           /\ UNCHANGED <<strRunning, strSockets, strHandles, strLate, strDecoder, strCaller>>

\* The loop ends when the stream is stopped or the socket fails; the handle is
\* cleared before the task is gone.
Leave(t) == /\ strTask[t] = "waits"
            /\ ~strRunning \/ t \notin strSockets \/ "socket" \in Faults
            /\ strHandles' = strHandles \ {t}
            /\ strTask' = [strTask EXCEPT ![t] = "ends"]
            /\ UNCHANGED <<strRunning, strSockets, strLate, strDecoder, strCaller>>

Gone(t) == /\ strTask[t] = "ends"
           /\ strTask' = [strTask EXCEPT ![t] = "none"]
           /\ strLate' = strLate \ {t}
           /\ UNCHANGED <<strRunning, strSockets, strHandles, strDecoder, strCaller>>

Acts(c) == \/ Format(c) \/ Stopping(c) \/ Close(c) \/ CloseNothing(c) \/ Destroy(c)
           \/ OpenFails(c) \/ Open(c) \/ OpenRuns(c)
           \/ \E t \in Tasks : Waited(c, t)

Next == \/ \E c \in Callers : Call(c) \/ Acts(c)
        \/ Packet \/ Decoded
        \/ \E t \in Tasks : Leave(t) \/ Gone(t)

Spec == /\ Init /\ [][Next]_strVars
        /\ \A c \in Callers : WF_strVars(Acts(c))
        /\ WF_strVars(Decoded)
        /\ \A t \in Tasks : WF_strVars(Leave(t)) /\ WF_strVars(Gone(t))

-----------------------------------------------------------------------------
(* Properties.                                                             *)

Idle == \A c \in Callers : At(c, "idle")

\* Some stop has still to wait for the task.
Awaited(t) == \E c \in Callers : At(c, "wait data") \/ At(c, Wait(t))

\* A task may outlive the stop of its stream in two ways: the stop went on without
\* it, or has still to wait for it (seen by the second of two callers only).
Left(t) == strTask[t] = "none" \/ t \in strLate \/ Awaited(t)

\* Between two calls, a stopped stream has no handle and no task but one that its
\* stop went on without, and no socket unless a start without stacks left them;
\* one that runs has the tasks of its sockets, if none can fail and no second
\* caller has cleared their handles.
StateAgrees == Idle =>
    /\ ~strRunning => strHandles = {} /\ \A t \in Tasks : Left(t)
    /\ ~strRunning /\ "no stack" \notin Faults => strSockets = {}
    /\ strRunning /\ {"socket", "two callers"} \cap Faults = {} =>
          /\ strHandles = strSockets
          /\ \A t \in strSockets : strTask[t] \in {"waits", "works"}

\* A task whose stack a new one takes has gone, or the stop before did not wait
\* long enough: it never happens that no stop has waited.
TakesFreeStack == \A t \in Tasks : (~strRunning /\ strRunning' /\ t \in strSockets') => Left(t)
StackFree == [][TakesFreeStack]_strVars

\* The decoder that decodes a packet goes in three ways only: by an ANNOUNCE while
\* the stream runs, after a stop that went on without the data task, or by the
\* second of two callers, who has started the stream meanwhile.
KeepsDecoder == strTask["data"] = "works" /\ strTask'["data"] = "works" =>
    \/ strDecoder' = strDecoder
    \/ strRunning /\ \E c \in Callers : At(c, "format")
    \/ ~strRunning /\ Left("data")
    \/ strRunning /\ "two callers" \in Faults
DecoderStays == [][KeepsDecoder]_strVars

\* A stop comes back, and leaves no task but one it went on without.
Stops(c) == At(c, "halt")
Stopped(c) == At(c, "idle") /\ \A t \in Tasks : Left(t)
StopEnds == \A c \in Callers : Stops(c) ~> Stopped(c)

=============================================================================
