------------------------------ MODULE Delivery ------------------------------
(***************************************************************************)
(* What a device's writes come to at the database, whatever becomes of its *)
(* connection: they arrive in order, at least once; one may be applied     *)
(* again until it is acknowledged, and then everything after it again.     *)
(***************************************************************************)
EXTENDS Integers

VARIABLES
  issued,   \* writes 1..issued have been made
  reached,  \* writes 1..reached have been applied at least once
  applied,  \* the last write that was applied; 0 for none
  done      \* writes that the database has acknowledged

vars == <<issued, reached, applied, done>>

Init == issued = 0 /\ reached = 0 /\ applied = 0 /\ done = {}

Issue ==
  /\ issued' = issued + 1
  /\ UNCHANGED <<reached, applied, done>>

Apply(i) ==
  /\ i <= reached + 1
  /\ \A d \in done : d < i
  /\ applied' = i
  /\ reached' = IF i > reached THEN i ELSE reached
  /\ UNCHANGED <<issued, done>>

Acknowledge(i) ==
  /\ i <= applied
  /\ i \notin done /\ \A j \in 1..(i - 1) : j \in done
  /\ done' = done \cup {i}
  /\ UNCHANGED <<issued, reached, applied>>

Next == Issue \/ \E i \in 1..issued : Apply(i) \/ Acknowledge(i)

Spec == Init /\ [][Next]_vars
=============================================================================
