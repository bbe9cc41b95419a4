----------------------------- MODULE Mf7025_proofs -----------------------------
(***************************************************************************)
(* The CAN interface never strands a node's slot and hands a caller another's *)
(* reply only after it was overtaken, for any number of callers; a motor that *)
(* was disabled does not turn, for any failure threshold.                   *)
(***************************************************************************)
EXTENDS CanTransaction, Mf7025Motor, TLAPS

\* A caller that was not overtaken finds its own command, or its own reply, in the slot.
SlotIsMine ==
  \A c \in CanCallers :
    can_caller[c] \in {"claimed", "sent"} /\ ~overtaken[c] =>
      /\ slot.expected_cmd = c
      /\ slot.ok => slot.data = c

\* The inductive invariant of a node's slot.
CanInv == CanTypeOK /\ SlotOwned /\ SlotIsMine /\ OwnAnswer

\* The slot is free at first.
LEMMA CanInitInv == CanInit => CanInv
<1> SUFFICES ASSUME CanInit PROVE CanInv
  OBVIOUS
<1>1. slot \in Slots
  BY DEF CanInit, Slots
<1>2. CanTypeOK
  BY <1>1 DEF CanInit, CanTypeOK
<1>3. SlotOwned /\ SlotIsMine /\ OwnAnswer
  BY DEF CanInit, SlotOwned, SlotIsMine, OwnAnswer
<1> QED BY <1>2, <1>3 DEF CanInv

\* The end of a call: only the caller's answer and, if it frees the slot, its activity
\* change.
LEMMA ReturnKeepsCanInv ==
  ASSUME CanInv, NEW c \in CanCallers, NEW from \in {"waiting", "claimed", "sent"},
         NEW answer \in {"own", "other", "failed"}, ReturnsWith(c, from, answer),
         UNCHANGED <<overtaken, replies, can_running, can_open>>,
         FreeSlot \/ (UNCHANGED slot /\ (slot.active => from = "waiting")),
         answer = "other" => overtaken[c]
  PROVE  CanInv'
<1> USE DEF CanInv, ReturnsWith, CallerGoes
<1>1. /\ slot' \in Slots /\ slot'.expected_cmd = slot.expected_cmd
      /\ slot'.ok = slot.ok /\ slot'.data = slot.data
      /\ slot'.active => slot.active /\ from = "waiting"
  BY DEF CanTypeOK, Slots, FreeSlot
<1>2. /\ can_caller' = [can_caller EXCEPT ![c] = "idle"]
      /\ can_answer' = [can_answer EXCEPT ![c] = answer]
      /\ can_caller[c] = from
  OBVIOUS
<1>3. CanTypeOK'
  BY <1>1, <1>2 DEF CanTypeOK
<1>4. SlotOwned'
  <2>1. ASSUME slot'.active
        PROVE  \E d \in CanCallers : can_caller'[d] \in {"claimed", "sent"}
    <3>1. PICK d \in CanCallers : can_caller[d] \in {"claimed", "sent"}
      BY <1>1, <2>1 DEF SlotOwned
    <3>2. d # c
      BY <1>1, <1>2, <2>1, <3>1
    <3> QED BY <1>2, <3>1, <3>2 DEF CanTypeOK
  <2> QED BY <2>1 DEF SlotOwned
<1>5. SlotIsMine'
  BY <1>1, <1>2 DEF SlotIsMine, CanTypeOK
<1>6. OwnAnswer'
  BY <1>2 DEF OwnAnswer, CanTypeOK
<1> QED BY <1>3, <1>4, <1>5, <1>6

\* A caller's step preserves the invariant.
LEMMA CallKeepsCanInv ==
  ASSUME CanInv, NEW c \in CanCallers, CanCall(c)
  PROVE  CanInv'
<1> USE DEF CanInv, portVars
<1>1. CASE ExecuteCommand(c)
  <2>1. /\ can_caller' = [can_caller EXCEPT ![c] = "waiting"] /\ can_caller[c] = "idle"
        /\ can_answer' = [can_answer EXCEPT ![c] = "none"]
        /\ overtaken' = [overtaken EXCEPT ![c] = FALSE]
        /\ UNCHANGED <<slot, replies, can_running, can_open>>
    BY <1>1 DEF ExecuteCommand, CallerGoes
  <2>2. CanTypeOK'
    BY <2>1 DEF CanTypeOK
  <2>3. SlotOwned' /\ SlotIsMine' /\ OwnAnswer'
    BY <2>1 DEF CanTypeOK, SlotOwned, SlotIsMine, OwnAnswer
  <2> QED BY <2>2, <2>3
<1>2. CASE ClaimSlot(c)
  <2>1. /\ can_caller' = [can_caller EXCEPT ![c] = "claimed"] /\ can_caller[c] = "waiting"
        /\ slot' = [active |-> TRUE, expected_cmd |-> c, ok |-> FALSE, data |-> NoCommand]
        /\ overtaken' = [d \in CanCallers |->
                           overtaken[d] \/ can_caller[d] \in {"claimed", "sent"}]
        /\ UNCHANGED <<can_answer, replies, can_running, can_open>>
    BY <1>2 DEF ClaimSlot, CallerGoes
  <2>2. slot' \in Slots /\ overtaken' \in [CanCallers -> BOOLEAN]
    BY <2>1 DEF Slots, CanTypeOK
  <2>3. CanTypeOK'
    BY <2>1, <2>2 DEF CanTypeOK
  <2>4. SlotOwned' /\ SlotIsMine' /\ OwnAnswer'
    BY <2>1 DEF CanTypeOK, SlotOwned, SlotIsMine, OwnAnswer
  <2> QED BY <2>3, <2>4
<1>3. CASE GiveUp(c)
  BY <1>3, ReturnKeepsCanInv DEF GiveUp
<1>4. CASE SendFrame(c)
  <2>1. /\ can_caller' = [can_caller EXCEPT ![c] = "sent"] /\ can_caller[c] = "claimed"
        /\ replies' \subseteq CanCallers
        /\ UNCHANGED <<slot, can_answer, overtaken, can_running, can_open>>
    BY <1>4 DEF SendFrame, CallerGoes, CanTypeOK
  <2>2. CanTypeOK'
    BY <2>1 DEF CanTypeOK
  <2>3. SlotOwned' /\ SlotIsMine' /\ OwnAnswer'
    BY <2>1 DEF CanTypeOK, SlotOwned, SlotIsMine, OwnAnswer
  <2> QED BY <2>2, <2>3
<1>5. CASE SendFails(c)
  BY <1>5, ReturnKeepsCanInv DEF SendFails
<1>6. CASE Answered(c)
  <2> DEFINE answer == IF ~slot.ok THEN "failed" ELSE IF slot.data = c THEN "own" ELSE "other"
  <2>1. /\ ~slot.active /\ ReturnsWith(c, "sent", answer)
        /\ UNCHANGED <<slot, overtaken, replies, can_running, can_open>>
    BY <1>6 DEF Answered
  <2>2. answer \in {"own", "other", "failed"} /\ (answer = "other" => overtaken[c])
    BY <2>1 DEF ReturnsWith, CallerGoes, SlotIsMine, CanTypeOK
  <2> HIDE DEF answer
  <2> QED BY <2>1, <2>2, ReturnKeepsCanInv
<1>7. CASE TimesOut(c)
  BY <1>7, ReturnKeepsCanInv DEF TimesOut
<1> QED BY <1>1, <1>2, <1>3, <1>4, <1>5, <1>6, <1>7 DEF CanCall

\* A step of the reader, and opening and closing, preserve the invariant.
LEMMA PortKeepsCanInv ==
  ASSUME CanInv, (\E c \in CanCallers : ReaderRoutes(c)) \/ CanClose \/ CanOpen
  PROVE  CanInv'
<1> USE DEF CanInv, callVars, portVars
<1>1. ASSUME NEW c \in CanCallers, ReaderRoutes(c) PROVE CanInv'
  <2>1. /\ UNCHANGED <<can_caller, can_answer, overtaken, can_running, can_open>>
        /\ replies' \subseteq CanCallers
    BY <1>1 DEF ReaderRoutes, CanTypeOK
  <2>2. CASE slot.active /\ slot.expected_cmd = c
    <3>1. slot' = [slot EXCEPT !.active = FALSE, !.ok = TRUE, !.data = c]
      BY <1>1, <2>2 DEF ReaderRoutes
    <3>2. /\ slot' \in Slots /\ ~slot'.active /\ slot'.data = c
          /\ slot'.expected_cmd = slot.expected_cmd
      BY <3>1 DEF CanTypeOK, Slots
    <3>3. CanTypeOK'
      BY <2>1, <3>2 DEF CanTypeOK
    <3>4. SlotIsMine'
      BY <2>1, <2>2, <3>2 DEF SlotIsMine
    <3> QED BY <2>1, <3>2, <3>3, <3>4 DEF SlotOwned, OwnAnswer
  <2>3. CASE ~(slot.active /\ slot.expected_cmd = c)
    <3>1. UNCHANGED slot
      BY <1>1, <2>3 DEF ReaderRoutes
    <3> QED BY <2>1, <3>1 DEF CanTypeOK, SlotOwned, SlotIsMine, OwnAnswer
  <2> QED BY <2>2, <2>3
<1>2. CASE CanClose \/ CanOpen
  <2>1. /\ UNCHANGED <<slot, can_caller, can_answer, overtaken>>
        /\ replies' \subseteq CanCallers /\ can_running' \in BOOLEAN /\ can_open' \in BOOLEAN
    BY <1>2 DEF CanClose, CanOpen, CanTypeOK
  <2> QED BY <2>1 DEF CanTypeOK, SlotOwned, SlotIsMine, OwnAnswer
<1> QED BY <1>1, <1>2

\* Every step preserves the invariant.
LEMMA CanStepInv == CanInv /\ [CanNext]_canVars => CanInv'
<1>1. CanInv /\ UNCHANGED canVars => CanInv'
  BY DEF canVars, callVars, portVars, CanInv, CanTypeOK, SlotOwned, SlotIsMine, OwnAnswer
<1> QED BY <1>1, CallKeepsCanInv, PortKeepsCanInv DEF CanNext

\* An active slot has an owner that will free it.
THEOREM SlotAlwaysOwned == CanSpec => []SlotOwned
<1>1. CanInv => SlotOwned
  BY DEF CanInv
<1> QED BY CanInitInv, CanStepInv, <1>1, PTL DEF CanSpec

\* A caller that gets another's reply was overtaken.
THEOREM AnswerOwn == CanSpec => []OwnAnswer
<1>1. CanInv => OwnAnswer
  BY DEF CanInv
<1> QED BY CanInitInv, CanStepInv, <1>1, PTL DEF CanSpec

-----------------------------------------------------------------------------
(* The motor.                                                               *)

\* The inductive invariant of the motor: below the failure threshold without a latched
\* error, and off when disabled.
MotorInv ==
  /\ MotorTypeOK
  /\ ~error_state_ => can_failures_ < CanFailureThreshold
  /\ DisabledIsOff

\* The motor starts disabled and off.
LEMMA MotorInitInv == MotorInit => MotorInv
<1> SUFFICES ASSUME MotorInit PROVE MotorInv
  OBVIOUS
<1>1. 0 \in 0 .. CanFailureThreshold /\ 0 < CanFailureThreshold
  BY MotorAssumption
<1>2. MotorTypeOK
  BY <1>1 DEF MotorInit, MotorTypeOK
<1> QED BY <1>1, <1>2 DEF MotorInit, MotorInv, DisabledIsOff

\* The count of failures stays below the threshold until it latches the error.
LEMMA FailuresCounted ==
  ASSUME MotorInv, \/ CountSuccess
                   \/ ~error_state_ /\ CountFailure
                   \/ UNCHANGED <<error_state_, can_failures_>>
  PROVE  /\ error_state_' \in BOOLEAN /\ can_failures_' \in 0 .. CanFailureThreshold
         /\ ~error_state_' => can_failures_' < CanFailureThreshold
<1>1. error_state_ \in BOOLEAN /\ can_failures_ \in 0 .. CanFailureThreshold
      /\ CanFailureThreshold \in Nat \ {0}
      /\ (~error_state_ => can_failures_ < CanFailureThreshold)
  BY MotorAssumption DEF MotorInv, MotorTypeOK
<1>2. CASE ~error_state_ /\ CountFailure
  <2>1. error_state_' \in BOOLEAN
    BY <1>2 DEF CountFailure
  <2>2. can_failures_' = can_failures_ + 1
        /\ (error_state_' <=> can_failures_ + 1 >= CanFailureThreshold)
    BY <1>2 DEF CountFailure
  <2> QED BY <1>1, <1>2, <2>1, <2>2
<1>3. CASE CountSuccess \/ UNCHANGED <<error_state_, can_failures_>>
  BY <1>1, <1>3 DEF CountSuccess
<1> QED BY <1>2, <1>3

\* An operation preserves the invariant.
LEMMA OperationKeepsMotorInv == MotorInv /\ MotorOperation => MotorInv'
<1> SUFFICES ASSUME MotorInv, MotorOperation PROVE MotorInv'
  OBVIOUS
<1> USE DEF DriveDoes, Reached, Outcomes
<1>1. ASSUME NEW outcome \in Outcomes, Enable(outcome) PROVE MotorInv'
  <2>1. CountSuccess \/ (~error_state_ /\ CountFailure)
    BY <1>1 DEF Enable
  <2>2. enabled_' \in BOOLEAN /\ self_locked' \in BOOLEAN
    BY <1>1, <2>1, FailuresCounted DEF Enable, MotorInv, MotorTypeOK
  <2>3. MotorTypeOK' /\ DisabledIsOff'
    BY <1>1, <2>1, <2>2, FailuresCounted DEF Enable, MotorInv, MotorTypeOK, DisabledIsOff
  <2> QED BY <2>1, <2>3, FailuresCounted DEF MotorInv
<1>2. ASSUME NEW outcome \in Outcomes, SetPosition(outcome) PROVE MotorInv'
  <2>1. CountSuccess \/ (~error_state_ /\ CountFailure)
    BY <1>2 DEF SetPosition
  <2>2. MotorTypeOK' /\ DisabledIsOff'
    BY <1>2, <2>1, FailuresCounted DEF SetPosition, MotorInv, MotorTypeOK, DisabledIsOff
  <2> QED BY <2>1, <2>2, FailuresCounted DEF MotorInv
<1>3. ASSUME NEW outcome \in Outcomes, NEW speed \in {"still", "slow", "fast"},
             SetVelocity(speed, outcome)
      PROVE  MotorInv'
  <2>1. CountSuccess \/ UNCHANGED <<error_state_, can_failures_>>
    BY <1>3 DEF SetVelocity
  <2>2. moving_' \in BOOLEAN
    BY <1>3 DEF SetVelocity, MotorInv, MotorTypeOK
  <2>3. MotorTypeOK' /\ DisabledIsOff'
    BY <1>3, <2>1, <2>2, FailuresCounted
       DEF SetVelocity, MotorInv, MotorTypeOK, DisabledIsOff
  <2> QED BY <2>1, <2>3, FailuresCounted DEF MotorInv
<1>4. ASSUME NEW outcome \in Outcomes, StopMotor(outcome), estop_halfway' \in BOOLEAN
      PROVE  MotorInv'
  BY <1>4 DEF StopMotor, MotorInv, MotorTypeOK, DisabledIsOff
<1>5. ASSUME NEW outcome \in Outcomes, Disable(outcome), estop_halfway' \in BOOLEAN
      PROVE  MotorInv'
  <2>1. off_lost' \in BOOLEAN /\ (off_lost' <=> outcome = "lost")
    BY <1>5 DEF Disable
  <2> QED BY <1>5, <2>1 DEF Disable, MotorInv, MotorTypeOK, DisabledIsOff
<1>6. CASE ClearMotorErrors
  <2>1. 0 \in 0 .. CanFailureThreshold /\ 0 < CanFailureThreshold
    BY MotorAssumption
  <2> QED BY <1>6, <2>1 DEF ClearMotorErrors, MotorInv, MotorTypeOK, DisabledIsOff
<1>7. estop_halfway \in BOOLEAN
  BY DEF MotorInv, MotorTypeOK
<1> QED BY <1>1, <1>2, <1>3, <1>4, <1>5, <1>6, <1>7 DEF MotorOperation, EmergencyStopMotor

\* Every step preserves the invariant.
LEMMA MotorStepInv == MotorInv /\ [MotorNext]_motorVars => MotorInv'
<1> SUFFICES ASSUME MotorInv, [MotorNext]_motorVars PROVE MotorInv'
  OBVIOUS
<1>1. CASE DriveArrives \/ ReadStatus2 \/ UNCHANGED motorVars
  BY <1>1 DEF DriveArrives, ReadStatus2, motorVars, MotorInv, MotorTypeOK, DisabledIsOff
<1>2. CASE UpdateStatus
  <2>1. moving_' \in BOOLEAN
    BY <1>2 DEF UpdateStatus
  <2> QED BY <1>2, <2>1 DEF UpdateStatus, MotorInv, MotorTypeOK, DisabledIsOff
<1> QED BY <1>1, <1>2, OperationKeepsMotorInv DEF MotorNext

\* A motor that was disabled does not turn.
THEOREM DisabledAlwaysOff == MotorSpec => []DisabledIsOff
<1>1. MotorInv => DisabledIsOff
  BY DEF MotorInv
<1> QED BY MotorInitInv, MotorStepInv, <1>1, PTL DEF MotorSpec

=============================================================================
