----------------------------- MODULE WeatherWatch -----------------------------
(***************************************************************************)
(* From the sky to the park: the weather service's monitoring thread, the   *)
(* handler that streams its status, the mount server's WeatherClient thread *)
(* that reads the stream and parks the mount, and the client's stop().      *)
(* A stream ends by its 30 s deadline, by TryCancel() or with the service,   *)
(* and what was pushed before it ended may not be read any more.            *)
(***************************************************************************)
EXTENDS Naturals, Sequences

CONSTANT
  MaxStream    \* bound on the statuses on their way

ASSUME WeatherAssumption == MaxStream \in Nat \ {0}

VARIABLES
  sky,              \* the severity evaluate() would find now
  current_,         \* current_.alert_level: the service's answer
  stream,           \* the statuses pushed and not yet read
  context,          \* the client's ClientContext: "none", "open", "ended"
  active_stream,    \* active_stream_context_ points to it
  weather_running,  \* running_
  reader,           \* where subscribeLoop() is
  alert_level,      \* alert_level_, and the status being handled
  parked,           \* the mount was parked and has not been unparked since
  weather_stop      \* where stop() is

serviceVars == <<sky, current_>>
linkVars    == <<stream, context>>
clientVars  == <<active_stream, reader, alert_level, parked>>
quitVars    == <<weather_running, weather_stop>>
weatherVars == <<serviceVars, linkVars, clientVars, quitVars>>

\* WARNING and DANGER are treated alike: neither is safe_to_observe.
Severities == {"clear", "caution", "danger"}
Safe(severity) == severity # "danger"

WeatherTypeOK ==
  /\ sky \in Severities /\ current_ \in Severities
  /\ stream \in Seq(Severities) /\ Len(stream) <= MaxStream
  /\ context \in {"none", "open", "ended"}
  /\ active_stream \in BOOLEAN
  /\ weather_running \in BOOLEAN
  /\ reader \in {"subscribe", "publish", "check", "read", "handle", "clear", "ended", "backoff",
                "done"}
  /\ alert_level \in Severities
  /\ parked \in BOOLEAN
  /\ weather_stop \in {"no", "cancel", "join", "done"}

WeatherInit ==
  /\ sky = "clear" /\ current_ = "clear"
  /\ stream = <<>> /\ context = "none" /\ active_stream = FALSE
  /\ weather_running = TRUE
  /\ reader = "subscribe" /\ alert_level = "clear"
  /\ parked = FALSE
  /\ weather_stop = "no"

-----------------------------------------------------------------------------
(* The weather service and the world.                                       *)

SkyChanges(severity) ==
  /\ sky # severity
  /\ sky' = severity
  /\ UNCHANGED <<current_, linkVars, clientVars, quitVars>>

\* An operator unparks the mount.
Unpark ==
  /\ parked
  /\ parked' = FALSE
  /\ UNCHANGED <<serviceVars, linkVars, active_stream, reader, alert_level, quitVars>>

\* Bug: a cycle that finds danger does not reach the update of current_.
CycleBreaks ==
  /\ current_ # sky /\ Safe(sky)
  /\ current_' = sky
  /\ UNCHANGED <<sky, linkVars, clientVars, quitVars>>

\* One monitoring cycle: nobody else reads the sensors, so that the evaluation and the
\* update of current_ under mutex_ are one step.
MonitorCycle ==
  /\ current_ # sky
  /\ current_' = sky
  /\ UNCHANGED <<sky, linkVars, clientVars, quitVars>>

\* forceRead() refreshes the readings a status carries, not its alert level.
PushStatus ==
  /\ context = "open"
  /\ Len(stream) < MaxStream
  /\ stream' = Append(stream, current_)
  /\ UNCHANGED <<serviceVars, context, clientVars, quitVars>>

\* The deadline passes or the service fails.
StreamEnds ==
  /\ context = "open"
  /\ context' = "ended"
  /\ UNCHANGED <<serviceVars, stream, clientVars, quitVars>>

-----------------------------------------------------------------------------
(* WeatherClient::subscribeLoop() and handleStatus().                       *)

ReaderGoes(from, to) == reader = from /\ reader' = to

Subscribe ==
  /\ weather_running
  /\ ReaderGoes("subscribe", "publish")
  /\ context' = "open" /\ stream' = <<>>
  /\ UNCHANGED <<serviceVars, active_stream, alert_level, parked, quitVars>>

\* Bug: the first Read() comes before the first look at running_.
PublishUnchecked ==
  /\ ReaderGoes("publish", "read")
  /\ active_stream' = TRUE
  /\ UNCHANGED <<serviceVars, linkVars, alert_level, parked, quitVars>>

PublishContext ==
  /\ ReaderGoes("publish", "check")
  /\ active_stream' = TRUE
  /\ UNCHANGED <<serviceVars, linkVars, alert_level, parked, quitVars>>

\* The condition of the reading loop: stop() may come between it and Read().
CheckRunning ==
  /\ ReaderGoes("check", IF weather_running THEN "read" ELSE "clear")
  /\ UNCHANGED <<serviceVars, linkVars, active_stream, alert_level, parked, quitVars>>

ReadStatus ==
  /\ stream # <<>>
  /\ ReaderGoes("read", "handle")
  /\ alert_level' = Head(stream) /\ stream' = Tail(stream)
  /\ UNCHANGED <<serviceVars, context, active_stream, parked, quitVars>>

\* Read() blocks as long as the stream lives.
ReadEnds ==
  /\ context = "ended"
  /\ ReaderGoes("read", "clear")
  /\ UNCHANGED <<serviceVars, linkVars, active_stream, alert_level, parked, quitVars>>

\* on_danger_callback_: main() parks the mount, whatever it is doing.
Handle ==
  /\ ReaderGoes("handle", "check")
  /\ parked' = (parked \/ ~Safe(alert_level))
  /\ UNCHANGED <<serviceVars, linkVars, active_stream, alert_level, quitVars>>

\* Bug: the pointer still refers to the context when the iteration destroys it.
ContextLeft ==
  /\ ReaderGoes("clear", "ended")
  /\ UNCHANGED <<serviceVars, linkVars, active_stream, alert_level, parked, quitVars>>

ClearContext ==
  /\ ReaderGoes("clear", "ended")
  /\ active_stream' = FALSE
  /\ UNCHANGED <<serviceVars, linkVars, alert_level, parked, quitVars>>

\* The operator is told of an alert whose stream was lost, and the alert is forgotten.
StreamLost ==
  /\ ReaderGoes("ended", IF weather_running THEN "backoff" ELSE "done")
  /\ alert_level' = IF weather_running THEN "clear" ELSE alert_level
  /\ UNCHANGED <<serviceVars, linkVars, active_stream, parked, quitVars>>

\* The context is destroyed at the end of the iteration.
Backoff ==
  /\ ReaderGoes("backoff", "subscribe")
  /\ context' = "none" /\ stream' = <<>>
  /\ UNCHANGED <<serviceVars, active_stream, alert_level, parked, quitVars>>

LoopLeft ==
  /\ ~weather_running
  /\ ReaderGoes("subscribe", "done")
  /\ UNCHANGED <<serviceVars, linkVars, active_stream, alert_level, parked, quitVars>>

ReaderStep ==
  \/ Subscribe \/ PublishContext \/ CheckRunning \/ ReadStatus \/ ReadEnds \/ Handle
  \/ ClearContext \/ StreamLost \/ Backoff \/ LoopLeft

-----------------------------------------------------------------------------
(* WeatherClient::stop().                                                   *)

StopRunning ==
  /\ weather_stop = "no"
  /\ weather_stop' = "cancel"
  /\ weather_running' = FALSE
  /\ UNCHANGED <<serviceVars, linkVars, clientVars>>

\* TryCancel() under mutex_, if the reader has published its context.
TryCancel ==
  /\ weather_stop = "cancel"
  /\ weather_stop' = "join"
  /\ context' = IF active_stream /\ context = "open" THEN "ended" ELSE context
  /\ UNCHANGED <<serviceVars, stream, clientVars, weather_running>>

\* Bug: the reader is left to end on its own.
ReaderDetached ==
  /\ weather_stop = "join"
  /\ weather_stop' = "done"
  /\ UNCHANGED <<serviceVars, linkVars, clientVars, weather_running>>

ReaderJoined ==
  /\ weather_stop = "join"
  /\ reader = "done"
  /\ weather_stop' = "done"
  /\ UNCHANGED <<serviceVars, linkVars, clientVars, weather_running>>

WeatherStop == StopRunning \/ TryCancel \/ ReaderJoined

WeatherNext ==
  \/ \E severity \in Severities : SkyChanges(severity)
  \/ Unpark \/ MonitorCycle \/ PushStatus \/ StreamEnds
  \/ ReaderStep \/ WeatherStop

WeatherSpec == WeatherInit /\ [][WeatherNext]_weatherVars

-----------------------------------------------------------------------------
\* A sky that stays dangerous parks the mount, through lost streams and stale statuses
\* and also when an operator has unparked it meanwhile, unless the client is stopped.
DangerParks ==
  (sky = "danger" /\ weather_running)
    ~> (parked \/ sky # "danger" \/ ~weather_running)

\* After stop() has returned the weather never moves the mount.
QuietAfterStop == [][weather_stop = "done" /\ parked' => parked]_weatherVars

\* stop() returns without waiting for the stream's deadline, although its TryCancel() may
\* come before the context it is to cancel has been published: the reader then sees
\* running_ before it waits for a status.
ClientStops == (weather_stop # "no") ~> (weather_stop = "done")

\* stop() never cancels a context that the reader has destroyed.
ContextAlive == active_stream => context # "none"

=============================================================================
