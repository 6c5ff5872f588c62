---------------------------- MODULE AsyncStream -----------------------------
(***************************************************************************)
(* What rtlsdr_read_async, rtlsdr_cancel_async and rtlsdr_close promise to *)
(* the threads of rtl_ais_andro.c that call them, without the transfers:   *)
(* AsyncReader implements it, AisSession is built on it.                   *)
(*                                                                         *)
(* A cancellation is a test of async_status and, when that was RUNNING, a  *)
(* write of it: between the two the thread is in saw.                      *)
(***************************************************************************)

CONSTANT Threads  \* threads that may call rtlsdr_cancel_async

VARIABLES
  status,   \* dev->async_status
  reading,  \* some thread is in rtlsdr_read_async
  saw,      \* threads that read RUNNING and have not yet written CANCELING
  lost,     \* dev->dev_lost
  trouble,  \* a submission, a poll or the reaping of an URB has failed
  closed    \* rtlsdr_close has freed the device

streamVars == <<status, reading, saw, lost, trouble, closed>>

StreamInit ==
  /\ status = "INACTIVE"
  /\ reading = FALSE
  /\ saw = {}
  /\ lost = FALSE
  /\ trouble = FALSE
  /\ closed = FALSE

\* rtlsdr_read_async is entered.
Begin ==
  /\ ~reading
  /\ status = "INACTIVE"
  /\ status' = "RUNNING"
  /\ reading' = TRUE
  /\ UNCHANGED <<saw, lost, trouble, closed>>

\* rtlsdr_cancel_async finds the stream running ...
See(p) ==
  /\ status = "RUNNING"
  /\ saw' = saw \cup {p}
  /\ UNCHANGED <<status, reading, lost, trouble, closed>>

\* ... or finds nothing to cancel.
Refuse(p) ==
  /\ status # "RUNNING"
  /\ UNCHANGED streamVars

\* rtlsdr_cancel_async marks it.
Write(p) ==
  /\ p \in saw
  /\ saw' = saw \ {p}
  /\ status' = "CANCELING"
  /\ UNCHANGED <<reading, lost, trouble, closed>>

\* A transfer could not be submitted at the start: the reader cancels its own
\* stream.
Spoil ==
  /\ reading
  /\ status' = "CANCELING"
  /\ trouble' = TRUE \/ UNCHANGED trouble
  /\ UNCHANGED <<reading, saw, lost, closed>>

\* Something else fails, with or without consequences.
Trouble ==
  /\ trouble' = TRUE
  /\ UNCHANGED <<status, reading, saw, lost, closed>>

\* A callback gives the device up.
Lose ==
  /\ ~closed
  /\ lost' = TRUE
  /\ UNCHANGED <<status, reading, saw, trouble, closed>>

\* rtlsdr_read_async returns because it was cancelled.  The scan for transfers
\* to cancel is cut short for a lost device, which leaves the status as it is.
EndCancelled ==
  /\ reading
  /\ status = "CANCELING"
  /\ reading' = FALSE
  /\ \/ status' = "INACTIVE"
     \/ lost /\ UNCHANGED status
  /\ UNCHANGED <<saw, lost, trouble, closed>>

\* rtlsdr_read_async returns because the event handling failed.
EndFailed ==
  /\ reading
  /\ trouble
  /\ reading' = FALSE
  /\ status' \in {"INACTIVE", "CANCELING"}
  /\ UNCHANGED <<saw, lost, trouble, closed>>

\* rtlsdr_close waits for async_status to become INACTIVE, except for a device
\* that is lost.
Close ==
  /\ ~reading
  /\ lost \/ status = "INACTIVE"
  /\ closed' = TRUE
  /\ UNCHANGED <<status, reading, saw, lost, trouble>>

StreamNext ==
  \/ Begin \/ Spoil \/ Trouble \/ Lose \/ EndCancelled \/ EndFailed \/ Close
  \/ \E p \in Threads : See(p) \/ Write(p)

StreamSpec == StreamInit /\ [][StreamNext]_streamVars
=============================================================================
