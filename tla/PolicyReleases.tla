---------------------------- MODULE PolicyReleases ----------------------------
(***************************************************************************)
(* What the release workflows promise the users of one policy: a version   *)
(* is released once, with the files that were built from its own tag, and  *)
(* never changes afterwards; what is marked as latest, and what ArtifactHub *)
(* lists, has been released.                                               *)
(***************************************************************************)
EXTENDS Integers

CONSTANTS MaxVersion, AssetCount

Version == 1..MaxVersion

\* A release: its version, and for each file the version it was built from
Files(v) == [i \in 1..AssetCount |-> v]

VARIABLES
  released,   \* the releases users can download
  latest,     \* the version that is marked as the latest one, 0 if none is
  listed      \* the version ArtifactHub lists, 0 if none

vars == <<released, latest, listed>>

Init == released = {} /\ latest = 0 /\ listed = 0

Publish(v) ==
  /\ \A r \in released : r.version # v
  /\ released' = released \union {[version |-> v, files |-> Files(v)]}
  /\ latest' = v
  /\ UNCHANGED listed

List(v) ==
  /\ \E r \in released : r.version = v
  /\ listed' = v
  /\ UNCHANGED <<released, latest>>

Next == \E v \in Version : Publish(v) \/ List(v)

Spec == Init /\ [][Next]_vars
================================================================================
