---------------------------- MODULE MCPlatformApi ----------------------------
(* A small instance of PlatformApi. *)
EXTENDS PlatformApi, TLC

CONSTANTS u1, u2, key, keyInUpperCase, none, c1, c2, i1, i2

Users     == {u1, u2}
OwnAccounts == [u \in User |-> u]
Keys      == {key, keyInUpperCase, none}
Normalize == [k \in RawKey |-> IF k = keyInUpperCase THEN key ELSE k]
Calls     == {c1, c2}
Instances == {i1, i2}
Interchangeable == Permutations(Calls) \cup Permutations(Instances)

File(content, size, declared, form) ==
  [content |-> content, metadata |-> "name", size |-> size,
   declared |-> declared, form |-> form]
\* Two files of one size and name; the rest are refused.
AllFiles ==
  {File("x", 1, 1, "bytes"), File("y", 1, -1, "bytes"),
   File("x", 0, -1, "bytes"), File("x", 1, 2, "bytes"), File("x", 1, 1, "opaque")}

Upload(rawKey, size, copies, algorithm) ==
  [key |-> rawKey, content |-> "x", metadata |-> "name", size |-> size,
   requestedCopies |-> copies, withCDN |-> TRUE, maxCost |-> 0,
   algorithm |-> algorithm]
\* As a byte upload would ask for, with another shape, and refused.
AllUploads ==
  {Upload(key, 1, 2, "none"), Upload(key, 1, 1, "none"),
   Upload(key, 1, 256, "none"), Upload(none, 1, 2, "none"),
   Upload(key, 1, 2, "keccak256")}

AllRoutes == {"tokenHostUpload", "createUpload", "uploadBytes", "uploadStatus",
              "object", "usage"}

(* The behaviours explored are those of two scenarios.                     *)

Busy == {c \in Call : calls[c] # Idle}

\* Two uploads of one user at a time, to one or two instances that make up
\* their keys in the same millisecond.
RaceScenario ==
  /\ clock = 1
  /\ \A o \in Uploads : uploads[o].accountId = u1 /\ uploads[o].requestedCopies = 2
  /\ \A c \in Busy :
       /\ calls[c].user = u1 /\ calls[c].request # <<>>
       /\ calls[c].route \in {"tokenHostUpload", "createUpload"}

\* Every route for two users, one call at a time to one instance; the clock
\* ticks before anything is uploaded, and two uploads have the same key.
RouteScenario ==
  /\ Cardinality(Busy) <= 1
  /\ \E i \in Instance :
       /\ \A c \in Busy : calls[c].instance = i
       /\ \A j \in Instance \ {i} : sequence[j] = 0
  /\ clock = 2 => uploads = <<>>
  /\ \A o, p \in Uploads : uploads[o].key = uploads[p].key

TwoScenarios == RaceScenario \/ RouteScenario
=============================================================================
