--------------------------- MODULE CaptureProvider ---------------------------
(***************************************************************************)
(* The local server that records what a host would send to a provider      *)
(* (src/capture/provider.mjs).  Its handlers run at the same time: each    *)
(* counts its request, waits for the body, records it, waits for the       *)
(* appends to the file, which are chained, and answers.  (The names say    *)
(* Capture where MCEndings has another component beside this one.)         *)
(***************************************************************************)
EXTENDS Naturals, Sequences, SequencesExt, FiniteSets

CONSTANTS
  Requests,
  Streaming,     \* those that ask for a streamed response of /v1/responses
  Expected,      \* FRESHCTX_EXPECTED_REQUESTS; 0 is any number
  WritesToFile,  \* there is a capturePath
  WritesFail     \* an append may fail

\* Assumed of the constants.
CaptureAssumption ==
  /\ IsFiniteSet(Requests)
  /\ Streaming \subseteq Requests
  /\ Expected \in Nat
  /\ {WritesToFile, WritesFail} \subseteq BOOLEAN

VARIABLES
  phase,             \* of each request's handler
  arrival,           \* history: which one it was
  semanticRequests,
  captures,          \* in memory: [request, sequence]
  chain,             \* appends that wait, in order
  stuck,             \* an append has failed, and with it those chained to it
  file

captureVars ==
  <<phase, arrival, semanticRequests, captures, chain, stuck, file>>

Phases ==
  {"none", "body", "append", "answer", "refused", "failed", "answered"}
Entry == [request : Requests, sequence : Nat]

CaptureTypeOK ==
  /\ phase \in [Requests -> Phases]
  /\ arrival \in [Requests -> 0..Cardinality(Requests)]
  /\ semanticRequests = Cardinality({r \in Requests : phase[r] # "none"})
  /\ captures \in Seq(Entry) /\ chain \in Seq(Entry) /\ file \in Seq(Entry)
  /\ stuck \in BOOLEAN
  /\ \A i \in DOMAIN chain : phase[chain[i].request] = "append"

CaptureInit ==
  /\ phase = [r \in Requests |-> "none"]
  /\ arrival = [r \in Requests |-> 0]
  /\ semanticRequests = 0
  /\ captures = <<>> /\ chain = <<>> /\ stuck = FALSE /\ file = <<>>

\* A plausible bug: the limit is looked at before the request is counted.
TooManyBefore(n) == Expected > 0 /\ n - 1 > Expected

TooMany(n) == Expected > 0 /\ n > Expected

Post(r) ==
  /\ phase[r] = "none"
  /\ semanticRequests' = semanticRequests + 1
  /\ arrival' = [arrival EXCEPT ![r] = semanticRequests']
  /\ phase' = [phase EXCEPT ![r] =
                 IF TooMany(semanticRequests') THEN "refused" ELSE "body"]
  /\ UNCHANGED <<captures, chain, stuck, file>>

\* The body is too large, breaks off, or is not JSON.
BadBody(r) ==
  /\ phase[r] = "body"
  /\ phase' = [phase EXCEPT ![r] = "failed"]
  /\ UNCHANGED <<arrival, semanticRequests, captures, chain, stuck, file>>

\* A plausible bug: the handler answers without waiting for the append.
RecordWithoutWait(r) ==
  /\ phase[r] = "body"
  /\ LET entry == [request |-> r, sequence |-> semanticRequests]
     IN  /\ captures' = Append(captures, entry)
         /\ chain' = IF WritesToFile THEN Append(chain, entry) ELSE chain
  /\ phase' = [phase EXCEPT ![r] = "answer"]
  /\ UNCHANGED <<arrival, semanticRequests, stuck, file>>

\* A plausible bug: of two appends the later one is begun first.
RecordInFront(r) ==
  /\ phase[r] = "body"
  /\ LET entry == [request |-> r, sequence |-> semanticRequests]
     IN  /\ captures' = Append(captures, entry)
         /\ chain' = IF WritesToFile THEN <<entry>> \o chain ELSE chain
  /\ phase' = [phase EXCEPT ![r] = IF WritesToFile THEN "append" ELSE "answer"]
  /\ UNCHANGED <<arrival, semanticRequests, stuck, file>>

\* A plausible bug: an entry is numbered by the captures there are.
RecordByLength(r) ==
  /\ phase[r] = "body"
  /\ LET entry == [request |-> r, sequence |-> Len(captures) + 1]
     IN  /\ captures' = Append(captures, entry)
         /\ chain' = IF WritesToFile THEN Append(chain, entry) ELSE chain
  /\ phase' = [phase EXCEPT ![r] = IF WritesToFile THEN "append" ELSE "answer"]
  /\ UNCHANGED <<arrival, semanticRequests, stuck, file>>

\* The body has come: the number of the entry is the count of requests now.
Record(r) ==
  /\ phase[r] = "body"
  /\ LET entry == [request |-> r, sequence |-> semanticRequests]
     IN  /\ captures' = Append(captures, entry)
         /\ chain' = IF WritesToFile THEN Append(chain, entry) ELSE chain
  /\ phase' = [phase EXCEPT ![r] = IF WritesToFile THEN "append" ELSE "answer"]
  /\ UNCHANGED <<arrival, semanticRequests, stuck, file>>

\* A plausible bug: the handlers behind a failed append go on waiting.
AppendUnlessBroken ==
  /\ chain # <<>> /\ ~stuck
  /\ chain' = Tail(chain)
  /\ \/ /\ file' = Append(file, Head(chain))
        /\ phase' = [phase EXCEPT ![Head(chain).request] = "answer"]
        /\ UNCHANGED stuck
     \/ /\ WritesFail
        /\ stuck' = TRUE
        /\ phase' = [phase EXCEPT ![Head(chain).request] = "failed"]
        /\ UNCHANGED file
  /\ UNCHANGED <<arrival, semanticRequests, captures>>

\* The next append of the chain is done, fails, or is not begun any more.
AppendFile ==
  /\ chain # <<>>
  /\ chain' = Tail(chain)
  /\ \/ /\ ~stuck
        /\ file' = Append(file, Head(chain))
        /\ phase' = [phase EXCEPT ![Head(chain).request] = "answer"]
        /\ UNCHANGED stuck
     \/ /\ stuck \/ WritesFail
        /\ stuck' = TRUE
        /\ phase' = [phase EXCEPT ![Head(chain).request] = "failed"]
        /\ UNCHANGED file
  /\ UNCHANGED <<arrival, semanticRequests, captures>>

Respond(r) ==
  /\ phase[r] = "answer"
  /\ phase' = [phase EXCEPT ![r] = IF r \in Streaming THEN "failed" ELSE "answered"]
  /\ UNCHANGED <<arrival, semanticRequests, captures, chain, stuck, file>>

CaptureNext ==
  \/ AppendFile
  \/ \E r \in Requests : Post(r) \/ BadBody(r) \/ Record(r) \/ Respond(r)

CaptureSpec == CaptureInit /\ [][CaptureNext]_captureVars

\* Bodies come to an end, and the event loop runs what is ready.
FairCaptureSpec ==
  /\ CaptureSpec
  /\ WF_captureVars(AppendFile)
  /\ \A r \in Requests :
       /\ WF_captureVars(Record(r) \/ BadBody(r))
       /\ WF_captureVars(Respond(r))

-----------------------------------------------------------------------------
(* Properties *)

(***************************************************************************)
(* A host that gets its completion finds its request in the file, also     *)
(* when appends of other requests failed (provider.mjs:112-135, 161).      *)
(***************************************************************************)
AnsweredIsRecorded ==
  WritesToFile => \A r \in Requests :
    phase[r] = "answered" => \E i \in DOMAIN file : file[i].request = r

(***************************************************************************)
(* The file has the captures in their order and without gaps, whatever     *)
(* fails (provider.mjs:126-133).                                           *)
(***************************************************************************)
FileFollowsCaptures == IsPrefix(file, captures)

(***************************************************************************)
(* Requests that are read at the same time may be recorded in another      *)
(* order than they came in, with the same number; but numbers never fall   *)
(* and are never less than the place of the request (provider.mjs:116).    *)
(***************************************************************************)
SequencesGrow ==
  \A i \in DOMAIN captures :
    /\ captures[i].sequence >= arrival[captures[i].request]
    /\ i > 1 => captures[i].sequence >= captures[i - 1].sequence

(***************************************************************************)
(* No request beyond the expected number is recorded, in whatever order    *)
(* the bodies come (provider.mjs:155-158, capture/README.md:29-31).        *)
(***************************************************************************)
NoMoreThanExpected ==
  Expected > 0 => \A i \in DOMAIN captures :
                    arrival[captures[i].request] =< Expected

(***************************************************************************)
(* What the handlers keep between them: the file follows the captures,     *)
(* answered requests are in it, numbers grow, and there are no more than   *)
(* expected (provider.mjs:112-161).                                        *)
(***************************************************************************)
RecordingInvariant ==
  CaptureTypeOK /\ AnsweredIsRecorded /\ FileFollowsCaptures /\ SequencesGrow
  /\ NoMoreThanExpected

(***************************************************************************)
(* Every request gets some answer, also after the chain of appends broke   *)
(* (provider.mjs:137-176).                                                 *)
(***************************************************************************)
EveryoneIsAnswered ==
  \A r \in Requests :
    phase[r] # "none" ~> phase[r] \in {"refused", "failed", "answered"}
=============================================================================
