---------------------------- MODULE ChunkStream -----------------------------
(***************************************************************************)
(* What the double buffer and the device promise the transmitter loop, with*)
(* no buffer in sight: what it writes leaves on the wire, in that order and*)
(* some chunks at a time, and it is never further ahead of the device than *)
(* Room chunks.                                                            *)
(***************************************************************************)
EXTENDS Integers, Sequences

CONSTANTS
  Room,      \* how many chunks can be written and not sent
  MaxChunks  \* bound: chunks written in a behaviour

VARIABLES
  written,  \* chunks written, each of them a number
  wire      \* those that the device has sent

vars == <<written, wire>>

Init == written = 0 /\ wire = <<>>

Write ==
  /\ written < MaxChunks /\ written - Len(wire) < Room
  /\ written' = written + 1
  /\ UNCHANGED wire

Send ==
  /\ \E n \in Len(wire) + 1 .. written : wire' = [i \in 1 .. n |-> i]
  /\ UNCHANGED written

Next == Write \/ Send

Spec == Init /\ [][Next]_vars

=============================================================================
