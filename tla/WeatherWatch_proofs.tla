-------------------------- MODULE WeatherWatch_proofs --------------------------
(***************************************************************************)
(* The client's stop() never cancels a destroyed context, and the weather    *)
(* never moves the mount after it, for any length of the stream.            *)
(***************************************************************************)
EXTENDS WeatherWatch, TLAPS

\* The context lives from its creation to the end of the iteration, and the pointer is
\* published while the reader works with it only.
ContextInv ==
  /\ reader \notin {"subscribe", "done"} => context # "none"
  /\ active_stream => reader \in {"check", "read", "handle", "clear"}

\* stop() returns after the reader has ended.
JoinInv == weather_stop = "done" => reader = "done"

\* The inductive invariant.
WeatherInv == WeatherTypeOK /\ ContextInv /\ JoinInv

\* What a status that is pushed or read does to the stream.
LEMMA StreamTyped ==
  ASSUME WeatherTypeOK
  PROVE  /\ Len(stream) < MaxStream =>
              /\ Append(stream, current_) \in Seq(Severities)
              /\ Len(Append(stream, current_)) <= MaxStream
         /\ stream # <<>> =>
              /\ Head(stream) \in Severities /\ Tail(stream) \in Seq(Severities)
              /\ Len(Tail(stream)) <= MaxStream
<1>1. stream \in Seq(Severities) /\ current_ \in Severities /\ Len(stream) <= MaxStream
      /\ MaxStream \in Nat
  BY WeatherAssumption DEF WeatherTypeOK
<1> QED BY <1>1

\* No stream is open at first.
LEMMA WeatherInitInv == WeatherInit => WeatherInv
<1> SUFFICES ASSUME WeatherInit PROVE WeatherInv
  OBVIOUS
<1>1. stream \in Seq(Severities) /\ Len(stream) <= MaxStream
  BY WeatherAssumption DEF WeatherInit
<1> QED BY <1>1 DEF WeatherInit, WeatherInv, WeatherTypeOK, ContextInv, JoinInv, Severities

\* A step of the world, the service or the operator preserves the invariant.
LEMMA WorldKeepsWeatherInv ==
  ASSUME WeatherInv,
         \/ \E severity \in Severities : SkyChanges(severity)
         \/ Unpark \/ MonitorCycle \/ PushStatus \/ StreamEnds
  PROVE  WeatherInv'
<1> USE DEF WeatherInv, serviceVars, linkVars, clientVars, quitVars
<1>1. WeatherTypeOK'
  <2>1. CASE PushStatus
    BY <2>1, StreamTyped DEF PushStatus, WeatherTypeOK
  <2>2. CASE \/ \E severity \in Severities : SkyChanges(severity)
             \/ Unpark \/ MonitorCycle \/ StreamEnds
    BY <2>2 DEF SkyChanges, Unpark, MonitorCycle, StreamEnds, WeatherTypeOK
  <2> QED BY <2>1, <2>2
<1>2. ContextInv' /\ JoinInv'
  BY DEF SkyChanges, Unpark, MonitorCycle, PushStatus, StreamEnds, ContextInv, JoinInv
<1> QED BY <1>1, <1>2

\* A step of the reader preserves the invariant.
LEMMA ReaderKeepsWeatherInv == WeatherInv /\ ReaderStep => WeatherInv'
<1> SUFFICES ASSUME WeatherInv, ReaderStep PROVE WeatherInv'
  OBVIOUS
<1> USE DEF WeatherInv, ReaderGoes, serviceVars, linkVars, clientVars, quitVars
<1>1. WeatherTypeOK'
  <2>1. CASE ReadStatus
    BY <2>1, StreamTyped DEF ReadStatus, WeatherTypeOK
  <2>2. CASE Subscribe \/ Backoff
    <3>1. <<>> \in Seq(Severities) /\ Len(<<>>) <= MaxStream
      BY WeatherAssumption
    <3> QED BY <2>2, <3>1 DEF Subscribe, Backoff, WeatherTypeOK
  <2>3. CASE Handle
    <3>1. parked' \in BOOLEAN
      BY <2>3 DEF Handle
    <3> QED BY <2>3, <3>1 DEF Handle, WeatherTypeOK
  <2>4. CASE PublishContext \/ CheckRunning \/ ReadEnds \/ ClearContext \/ StreamLost \/ LoopLeft
    BY <2>4 DEF PublishContext, CheckRunning, ReadEnds, ClearContext, StreamLost, LoopLeft,
                WeatherTypeOK, Severities
  <2> QED BY <2>1, <2>2, <2>3, <2>4 DEF ReaderStep
<1>2. ContextInv' /\ JoinInv'
  BY DEF ReaderStep, Subscribe, PublishContext, CheckRunning, ReadStatus, ReadEnds, Handle,
         ClearContext, StreamLost, Backoff, LoopLeft, ContextInv, JoinInv
<1> QED BY <1>1, <1>2

\* Every step preserves the invariant.
LEMMA WeatherStepInv == WeatherInv /\ [WeatherNext]_weatherVars => WeatherInv'
<1> SUFFICES ASSUME WeatherInv, [WeatherNext]_weatherVars PROVE WeatherInv'
  OBVIOUS
<1>1. CASE WeatherStop
  <2> USE <1>1 DEF WeatherStop, StopRunning, TryCancel, ReaderJoined, serviceVars, linkVars,
                   clientVars
  <2>1. WeatherTypeOK'
    BY DEF WeatherInv, WeatherTypeOK
  <2>2. ContextInv' /\ JoinInv'
    BY DEF WeatherInv, ContextInv, JoinInv
  <2> QED BY <2>1, <2>2 DEF WeatherInv
<1>2. CASE UNCHANGED weatherVars
  BY <1>2 DEF weatherVars, serviceVars, linkVars, clientVars, quitVars, WeatherInv,
              WeatherTypeOK, ContextInv, JoinInv
<1> QED BY <1>1, <1>2, WorldKeepsWeatherInv, ReaderKeepsWeatherInv DEF WeatherNext

\* stop() never cancels a context that the reader has destroyed.
THEOREM WeatherContext == WeatherSpec => []ContextAlive
<1>1. WeatherInv => ContextAlive
  BY DEF WeatherInv, ContextInv, ContextAlive
<1> QED BY WeatherInitInv, WeatherStepInv, <1>1, PTL DEF WeatherSpec

\* After stop() has returned the weather never moves the mount.
THEOREM WeatherQuiet == WeatherSpec => QuietAfterStop
<1>1. ASSUME WeatherInv, [WeatherNext]_weatherVars
      PROVE  [weather_stop = "done" /\ parked' => parked]_weatherVars
  <2>1. SUFFICES ASSUME WeatherNext, weather_stop = "done", parked'
                 PROVE  parked
    BY <1>1
  <2>2. reader = "done"
    BY <1>1, <2>1 DEF WeatherInv, JoinInv
  <2>3. UNCHANGED parked \/ Unpark
    BY <2>1, <2>2
       DEF WeatherNext, SkyChanges, MonitorCycle, PushStatus, StreamEnds, ReaderStep,
           Subscribe, PublishContext, CheckRunning, ReadStatus, ReadEnds, Handle,
           ClearContext, StreamLost, Backoff, LoopLeft, ReaderGoes, WeatherStop,
           StopRunning, TryCancel, ReaderJoined, clientVars
  <2> QED BY <2>1, <2>3 DEF Unpark
<1> QED BY <1>1, WeatherInitInv, WeatherStepInv, PTL DEF WeatherSpec, QuietAfterStop

=============================================================================
