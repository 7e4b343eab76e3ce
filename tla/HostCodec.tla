----------------------------- MODULE HostCodec -----------------------------
(***************************************************************************)
(* The boundary every host codec is called through (applyHostCodec in      *)
(* src/adapters/host-codec.mjs): it takes a snapshot of the host's         *)
(* request, lets the codec capture, transform and validate a copy, and     *)
(* returns either the codec's candidate or, after any failure, the host's  *)
(* own request.                                                            *)
(*                                                                         *)
(* The codec's functions may be asynchronous, so the host goes on between  *)
(* two of them, and it may go on with the very object it passed in.        *)
(***************************************************************************)
EXTENDS Naturals, Sequences

VARIABLES
  messages,   \* the host's request: the object it passed in, as it is now
  phase,      \* "host", "captured", "transformed" or "answered"
  snapshot,   \* the request when the codec was called
  caught,     \* what capture() returned, as the codec's own value
  candidate,  \* what transform() returned
  answer      \* [applied, request], once there is one

codecVars == <<phase, snapshot, caught, candidate, answer>>

NoAnswer == [applied |-> FALSE, request |-> <<>>]

Idle(nothing) ==
  /\ phase = "host"
  /\ snapshot = <<>> /\ candidate = <<>>
  /\ caught = nothing
  /\ answer = NoAnswer

Answers(applied, request) ==
  /\ answer' = [applied |-> applied, request |-> request]
  /\ phase' = "answered"

\* Any phase that throws: the host gets its own object back.
Fails == Answers(FALSE, messages)

\* The request is serialized, copied and captured before the first await.
\* A codec whose capture() or serialize() throws has ok FALSE.
Capture(ok, found) ==
  /\ phase = "host"
  /\ IF ok
     THEN /\ snapshot' = messages /\ caught' = found
          /\ phase' = "captured"
          /\ UNCHANGED <<candidate, answer>>
     ELSE /\ Fails
          /\ UNCHANGED <<snapshot, caught, candidate>>

Transform(ok, made, found) ==
  /\ phase = "captured"
  /\ IF ok
     THEN /\ candidate' = made /\ caught' = found
          /\ phase' = "transformed"
          /\ UNCHANGED <<snapshot, answer>>
     ELSE /\ Fails
          /\ UNCHANGED <<snapshot, caught, candidate>>

\* A plausible bug: the request is not compared with its snapshot again.
ValidateAlone(valid) ==
  /\ phase = "transformed"
  /\ IF valid THEN Answers(TRUE, candidate) ELSE Fails
  /\ UNCHANGED <<snapshot, caught, candidate>>

\* The candidate counts when it is valid and the host's object is still what
\* it was when the codec was called.
Validate(valid) ==
  /\ phase = "transformed"
  /\ IF valid /\ messages = snapshot THEN Answers(TRUE, candidate) ELSE Fails
  /\ UNCHANGED <<snapshot, caught, candidate>>

\* A plausible bug: what was captured is still there in the next request.
SentKeepingCapture(nothing) ==
  /\ phase = "answered"
  /\ phase' = "host"
  /\ snapshot' = <<>> /\ candidate' = <<>>
  /\ answer' = NoAnswer
  /\ UNCHANGED caught

\* The host sends the answer and goes on.
Sent(nothing) ==
  /\ phase = "answered"
  /\ phase' = "host"
  /\ snapshot' = <<>> /\ candidate' = <<>> /\ caught' = nothing
  /\ answer' = NoAnswer
=============================================================================
