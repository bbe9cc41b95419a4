---------------------------- MODULE CanTransaction ----------------------------
(***************************************************************************)
(* One node's transaction slot of the MF7025v2 CAN interface.  The monitor  *)
(* thread and the motor operations call executeCommand(), which claims      *)
(* pending_[node], sends a request and waits at most 100 ms; the reader      *)
(* thread fills the slot with the reply and frees it.  A drive may not       *)
(* answer, or answer when nobody waits any more.  tx_cv_ wakes every waiter, *)
(* in no order.  Other nodes have slots of their own.                        *)
(***************************************************************************)
EXTENDS Naturals

CONSTANTS
  CanCallers,   \* the threads that command the node, each with its own command byte
  NoCommand     \* the slot holds no reply

ASSUME CanAssumption == NoCommand \notin CanCallers

VARIABLES
  slot,         \* pending_[node]
  can_caller,   \* where each caller is in executeCommand()
  can_answer,   \* what its last call returned
  overtaken,    \* another caller claimed the slot during this one's transaction
  replies,      \* the replies on the bus, by command
  can_running,  \* running_
  can_open      \* sock_fd_ >= 0, and the reader thread is alive

callVars == <<can_caller, can_answer, overtaken>>
portVars == <<can_running, can_open>>
canVars  == <<slot, callVars, replies, portVars>>

Slots == [active: BOOLEAN, expected_cmd: CanCallers \cup {NoCommand}, ok: BOOLEAN,
          data: CanCallers \cup {NoCommand}]

CanTypeOK ==
  /\ slot \in Slots
  /\ can_caller \in [CanCallers -> {"idle", "waiting", "claimed", "sent"}]
  /\ can_answer \in [CanCallers -> {"none", "own", "other", "failed"}]
  /\ overtaken \in [CanCallers -> BOOLEAN]
  /\ replies \subseteq CanCallers
  /\ can_running \in BOOLEAN /\ can_open \in BOOLEAN

CanInit ==
  /\ slot = [active |-> FALSE, expected_cmd |-> NoCommand, ok |-> FALSE, data |-> NoCommand]
  /\ can_caller = [c \in CanCallers |-> "idle"]
  /\ can_answer = [c \in CanCallers |-> "none"]
  /\ overtaken = [c \in CanCallers |-> FALSE]
  /\ replies = {}
  /\ can_running = TRUE /\ can_open = TRUE

-----------------------------------------------------------------------------
(* executeCommand().                                                        *)

CallerGoes(c, from, to) ==
  can_caller[c] = from /\ can_caller' = [can_caller EXCEPT ![c] = to]

ReturnsWith(c, from, answer) ==
  CallerGoes(c, from, "idle") /\ can_answer' = [can_answer EXCEPT ![c] = answer]

FreeSlot == slot' = [slot EXCEPT !.active = FALSE]

ExecuteCommand(c) ==
  /\ can_open
  /\ CallerGoes(c, "idle", "waiting")
  /\ overtaken' = [overtaken EXCEPT ![c] = FALSE]
  /\ can_answer' = [can_answer EXCEPT ![c] = "none"]
  /\ UNCHANGED <<slot, replies, portVars>>

ClaimSlot(c) ==
  /\ ~slot.active /\ can_running
  /\ CallerGoes(c, "waiting", "claimed")
  /\ slot' = [active |-> TRUE, expected_cmd |-> c, ok |-> FALSE, data |-> NoCommand]
  /\ overtaken' = [d \in CanCallers |-> overtaken[d] \/ can_caller[d] \in {"claimed", "sent"}]
  /\ UNCHANGED <<can_answer, replies, portVars>>

GiveUp(c) ==
  /\ ~can_running
  /\ ReturnsWith(c, "waiting", "failed")
  /\ UNCHANGED <<slot, overtaken, replies, portVars>>

\* The drive answers, or it does not.
SendFrame(c) ==
  /\ can_open
  /\ CallerGoes(c, "claimed", "sent")
  /\ replies' \in {replies, replies \cup {c}}
  /\ UNCHANGED <<slot, can_answer, overtaken, portVars>>

\* Bug: a request that could not be sent leaves the slot active.
SendLeavesSlot(c) ==
  /\ ReturnsWith(c, "claimed", "failed")
  /\ UNCHANGED <<slot, overtaken, replies, portVars>>

SendFails(c) ==
  /\ ReturnsWith(c, "claimed", "failed")
  /\ FreeSlot
  /\ UNCHANGED <<overtaken, replies, portVars>>

\* slot.active is false: the data is taken for the reply, whoever's it is.
Answered(c) ==
  /\ ~slot.active
  /\ ReturnsWith(c, "sent", IF ~slot.ok THEN "failed"
                            ELSE IF slot.data = c THEN "own" ELSE "other")
  /\ UNCHANGED <<slot, overtaken, replies, portVars>>

\* 100 ms have passed, or the interface is being closed.
TimesOut(c) ==
  /\ slot.active
  /\ ReturnsWith(c, "sent", "failed")
  /\ FreeSlot
  /\ UNCHANGED <<overtaken, replies, portVars>>

CanCall(c) ==
  \/ ExecuteCommand(c) \/ ClaimSlot(c) \/ GiveUp(c) \/ SendFrame(c) \/ SendFails(c)
  \/ Answered(c) \/ TimesOut(c)

-----------------------------------------------------------------------------
(* readerLoop(), open() and close().                                        *)

\* Bug: the echoed command byte is not compared.
ReaderTrusts(c) ==
  /\ can_open
  /\ c \in replies
  /\ replies' = replies \ {c}
  /\ slot' = IF slot.active THEN [slot EXCEPT !.active = FALSE, !.ok = TRUE, !.data = c]
                            ELSE slot
  /\ UNCHANGED <<callVars, portVars>>

\* A reply to an idle slot or to another command is dropped.
ReaderRoutes(c) ==
  /\ can_open
  /\ c \in replies
  /\ replies' = replies \ {c}
  /\ slot' = IF slot.active /\ slot.expected_cmd = c
               THEN [slot EXCEPT !.active = FALSE, !.ok = TRUE, !.data = c]
               ELSE slot
  /\ UNCHANGED <<callVars, portVars>>

CanClose ==
  /\ \/ can_running /\ can_running' = FALSE /\ UNCHANGED can_open
     \/ ~can_running /\ can_open /\ can_open' = FALSE /\ UNCHANGED can_running
  /\ UNCHANGED <<slot, callVars, replies>>

CanOpen ==
  /\ ~can_open
  /\ can_open' = TRUE /\ can_running' = TRUE
  /\ replies' = {}
  /\ UNCHANGED <<slot, callVars>>

CanNext ==
  \/ \E c \in CanCallers : CanCall(c) \/ ReaderRoutes(c)
  \/ CanClose \/ CanOpen

CanSpec == CanInit /\ [][CanNext]_canVars

-----------------------------------------------------------------------------
\* A slot is never active with nobody to free it: the node would answer no caller any
\* more, for the wait for the slot has no timeout.
SlotOwned ==
  slot.active => \E c \in CanCallers : can_caller[c] \in {"claimed", "sent"}

\* A caller gets the reply to a command of its own, however late replies, timeouts and a
\* reopened interface follow each other, unless another caller claimed the slot between
\* the reader's delivery and its own look at the slot.
OwnAnswer == \A c \in CanCallers : can_answer[c] = "other" => overtaken[c]

=============================================================================
