-------------------------- MODULE MCHoldoutProtocol --------------------------
(***************************************************************************)
(* One or two drafts of a manifest, versions of the code and of the lock.  *)
(* The worlds:                                                             *)
(*   code:     the implementation changes; nothing is hosted               *)
(*   manifest: the manifest is edited after its freeze, and the lock       *)
(*   hosted:   there are workflows; traces are changed by hand, and they,  *)
(*             the report and the attestation deleted                      *)
(*   altered:  as hosted, and results are changed and deleted too; one     *)
(*             commit after the first                                      *)
(*   bound:    there are workflows, and what was published before is bound *)
(***************************************************************************)
EXTENDS HoldoutProtocol

One == {1}
Two == {1, 2}
None == {}
HostedEdits == {"traces", "report", "attestation"}
AlteredEdits == HostedEdits \cup {"results"}

VARIABLE world

Code == INSTANCE HoldoutProtocol WITH
  Drafts <- One, Locks <- One

Manifest == INSTANCE HoldoutProtocol WITH
  Versions <- One, EditsManifest <- TRUE, MaxCommits <- 3

Hosting == INSTANCE HoldoutProtocol WITH
  Drafts <- One, Versions <- One, Locks <- One, Hosted <- TRUE,
  Editable <- HostedEdits, MaxCommits <- 3, MaxFreezes <- 1

Altered == INSTANCE HoldoutProtocol WITH
  Drafts <- One, Versions <- One, Locks <- One, Hosted <- TRUE,
  Editable <- AlteredEdits, MaxCommits <- 2, MaxFreezes <- 1

Bound == INSTANCE HoldoutProtocol WITH
  Drafts <- One, Versions <- One, Locks <- One, Hosted <- TRUE,
  BindExisting <- TRUE, MaxCommits <- 3

ASSUME WorldsAssumption ==
  /\ Code!HoldoutAssumption /\ Manifest!HoldoutAssumption
  /\ Hosting!HoldoutAssumption /\ Altered!HoldoutAssumption
  /\ Bound!HoldoutAssumption

MCInit == \/ world = "code" /\ Code!Init
          \/ world = "manifest" /\ Manifest!Init
          \/ world = "hosted" /\ Hosting!Init
          \/ world = "altered" /\ Altered!Init
          \/ world = "bound" /\ Bound!Init

MCNext == /\ UNCHANGED world
          /\ \/ world = "code" /\ Code!Next
             \/ world = "manifest" /\ Manifest!Next
             \/ world = "hosted" /\ Hosting!Next
             \/ world = "altered" /\ Altered!Next
             \/ world = "bound" /\ Bound!Next

MCSpec == MCInit /\ [][MCNext]_<<vars, world>>

-----------------------------------------------------------------------------
(* Where artifacts are not changed by hand, a tree that verifies holds what
   its manifest promises (holdout-protocol.mjs:479-663); and the types. *)
UntouchedIsWhole == TypeOK /\ (world \notin {"hosted", "altered"} => VerifiedIsWhole)
=============================================================================
