------------------------------ MODULE MessageLog ------------------------------
(***************************************************************************)
(* What Nolik promises its users, without counters, keys, blocks or        *)
(* off-chain storage: one log of messages that only grows.  An entry is    *)
(* never changed, removed or moved once published, every entry passed the  *)
(* format check, and there is room for Capacity of them.                   *)
(***************************************************************************)
EXTENDS Naturals, Sequences

CONSTANTS
  Entry,       \* a well-formed message with its metadata and its account
  Capacity     \* how many entries may ever be published

VARIABLE log

TypeOK == log \in Seq(Entry)

Init == log = << >>

\* `after` is the log `before` with some entries published.
Extends(after, before) ==
  /\ Len(before) < Len(after)
  /\ after \in Seq(Entry)
  /\ Len(after) <= Capacity
  /\ \A i \in 1 .. Len(before) : after[i] = before[i]

Publish == Extends(log', log)

Spec == Init /\ [][Publish]_log

=============================================================================
