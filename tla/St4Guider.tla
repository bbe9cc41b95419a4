------------------------------ MODULE St4Guider ------------------------------
(***************************************************************************)
(* The autoguider: the RPCs that start and stop it, the thread that reads    *)
(* PHD2's events and turns each guide step into pulses, and PHD2 itself at   *)
(* the other end of the connection.                                         *)
(***************************************************************************)

VARIABLES
  guide_call,      \* where the RPC is; the service's mutex admits one at a time
  guide_active,    \* the service's guiding_: the last call to end left the guider on
  guiding_,        \* the guider's: guide steps are applied
  phd2_connected_,
  phd2_fd_,        \* the socket, "none" or "set"
  phd2_link,       \* the connection behind it: "closed", "open" or "lost"
  phd2_reader,     \* where phd2ReaderLoop() is
  pulsing          \* the drive is being pulsed for a guide step

guideVars  == <<guide_call, guide_active>>
socketVars == <<phd2_connected_, phd2_fd_, phd2_link>>
readerVars == <<phd2_reader, pulsing>>
guiderVars == <<guideVars, guiding_, socketVars, readerVars>>

St4TypeOK ==
  /\ guide_call \in {"no", "release", "join", "connect", "send", "undo", "undo_join", "off"}
  /\ guide_active \in BOOLEAN /\ guiding_ \in BOOLEAN
  /\ phd2_connected_ \in BOOLEAN /\ phd2_fd_ \in {"none", "set"}
  /\ phd2_link \in {"closed", "open", "lost"}
  /\ phd2_reader \in {"none", "check", "recv", "handle", "pulse", "ended"}
  /\ pulsing \in BOOLEAN

St4Init ==
  /\ guide_call = "no" /\ guide_active = FALSE /\ guiding_ = FALSE
  /\ phd2_connected_ = FALSE /\ phd2_fd_ = "none" /\ phd2_link = "closed"
  /\ phd2_reader = "none" /\ pulsing = FALSE

-----------------------------------------------------------------------------
(* The RPCs.                                                                *)

CallGoes(from, to) == guide_call = from /\ guide_call' = to

\* StartGuiding() begins with the stop of the connection it may have.
StartGuiding ==
  /\ CallGoes("no", "release")
  /\ UNCHANGED <<guide_active, guiding_, socketVars, readerVars>>

StopGuiding ==
  /\ CallGoes("no", "undo")
  /\ UNCHANGED <<guide_active, guiding_, socketVars, readerVars>>

\* stopPHD2(): the flag is cleared, the descriptor withdrawn and the socket closed under
\* the thread, which the caller then joins.
ReleaseSocket ==
  /\ CallGoes("release", "join") \/ CallGoes("undo", "undo_join")
  /\ phd2_connected_' = FALSE /\ phd2_fd_' = "none" /\ phd2_link' = "closed"
  /\ UNCHANGED <<guide_active, guiding_, readerVars>>

\* Bug: the thread is let go of instead.
DetachReader ==
  /\ CallGoes("join", "connect") \/ CallGoes("undo_join", "off")
  /\ UNCHANGED <<guide_active, guiding_, socketVars, readerVars>>

JoinReader ==
  /\ phd2_reader \in {"none", "ended"}
  /\ CallGoes("join", "connect") \/ CallGoes("undo_join", "off")
  /\ phd2_reader' = "none"
  /\ UNCHANGED <<guide_active, guiding_, socketVars, pulsing>>

\* PHD2 answers the connection or not; the thread starts before the call goes on.
ConnectPhd2 ==
  \/ /\ CallGoes("connect", "send")
     /\ phd2_fd_' = "set" /\ phd2_link' = "open" /\ phd2_connected_' = TRUE
     /\ phd2_reader' = "check"
     /\ UNCHANGED <<guide_active, guiding_, pulsing>>
  \/ /\ CallGoes("connect", "off")
     /\ UNCHANGED <<guide_active, guiding_, socketVars, readerVars>>

\* The request to guide is written, or the guider is stopped again.
SendStartGuiding ==
  \/ /\ CallGoes("send", "no")
     /\ guide_active' = TRUE /\ guiding_' = TRUE
     /\ UNCHANGED <<socketVars, readerVars>>
  \/ /\ CallGoes("send", "undo") /\ phd2_link = "lost"
     /\ UNCHANGED <<guide_active, guiding_, socketVars, readerVars>>

SwitchOff ==
  /\ CallGoes("off", "no")
  /\ guide_active' = FALSE /\ guiding_' = FALSE
  /\ UNCHANGED <<socketVars, readerVars>>

GuideCallStep == ReleaseSocket \/ JoinReader \/ ConnectPhd2 \/ SendStartGuiding \/ SwitchOff

-----------------------------------------------------------------------------
(* phd2ReaderLoop().                                                        *)

Phd2Goes(from, to) ==
  /\ phd2_reader = from /\ phd2_reader' = to
  /\ UNCHANGED guideVars

\* The flag is looked at and the descriptor copied; the copy is used for one read.
CheckLink ==
  /\ Phd2Goes("check", IF phd2_connected_ /\ phd2_fd_ = "set" THEN "recv" ELSE "ended")
  /\ UNCHANGED <<guiding_, socketVars, pulsing>>

\* Bytes arrive, or the read fails because either side has closed the connection.
Receive ==
  \/ /\ phd2_link = "open"
     /\ Phd2Goes("recv", "handle")
     /\ UNCHANGED <<guiding_, socketVars, pulsing>>
  \/ /\ phd2_link # "open"
     /\ Phd2Goes("recv", "ended")
     /\ phd2_connected_' = FALSE
     /\ UNCHANGED <<guiding_, phd2_fd_, phd2_link, pulsing>>

\* The messages of a chunk are handled one after the other, whatever happens to the
\* connection meanwhile: a change of the guiding state, a guide step, or one to ignore.
HandleEvent ==
  \/ /\ \E state \in BOOLEAN : guiding_' = state
     /\ \E next \in {"handle", "check"} : Phd2Goes("handle", next)
     /\ UNCHANGED <<socketVars, pulsing>>
  \/ /\ guiding_
     /\ Phd2Goes("handle", "pulse")
     /\ pulsing' = TRUE
     /\ UNCHANGED <<guiding_, socketVars>>
  \/ /\ Phd2Goes("handle", "check")
     /\ UNCHANGED <<guiding_, socketVars, pulsing>>

\* The pulses last; they are not cut short.
EndPulse ==
  /\ \E next \in {"handle", "check"} : Phd2Goes("pulse", next)
  /\ pulsing' = FALSE
  /\ UNCHANGED <<guiding_, socketVars>>

Phd2ReaderStep == CheckLink \/ Receive \/ HandleEvent \/ EndPulse

Phd2Leaves ==
  /\ phd2_link = "open" /\ phd2_link' = "lost"
  /\ UNCHANGED <<guideVars, guiding_, phd2_connected_, phd2_fd_, readerVars>>

St4Next == StartGuiding \/ StopGuiding \/ GuideCallStep \/ Phd2ReaderStep \/ Phd2Leaves

St4Spec == St4Init /\ [][St4Next]_guiderVars

-----------------------------------------------------------------------------
\* A guider that StopGuiding(), or a StartGuiding() that failed, has left off stays off: no
\* event that PHD2 sent before it was cut off switches it on again, no pulse is still
\* under way, and no thread or socket is left behind.
OffIsOff ==
  guide_call = "no" /\ ~guide_active
    => ~guiding_ /\ ~pulsing /\ phd2_reader = "none" /\ phd2_fd_ = "none"

=============================================================================
