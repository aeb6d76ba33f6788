------------------------------- MODULE Relay --------------------------------
(***************************************************************************)
(* What a component that carries a stream promises: what has been passed   *)
(* on is always a prefix of what was produced, it only grows, and nothing  *)
(* is passed on twice, out of order or before it exists.  Five components  *)
(* are shown to implement it: Kubernetes (a pod's log into the stdout      *)
(* file), ControlSession (the stdout file to a client of "work results"),  *)
(* Link (messages through a session), Framing (messages over a byte        *)
(* stream) and Proxy (each direction of a bridge).                         *)
(***************************************************************************)
EXTENDS Naturals, Sequences

VARIABLES
    source,   \* what has been produced
    sink      \* what has been passed on

Init == source = <<>> /\ sink = <<>>

Produce ==
    /\ Len(source') > Len(source)
    /\ SubSeq(source', 1, Len(source)) = source
    /\ UNCHANGED sink

(* Any number of items at a time.                                          *)
PassOn ==
    /\ \E n \in Len(sink) + 1 .. Len(source) : sink' = SubSeq(source, 1, n)
    /\ UNCHANGED source

Next == Produce \/ PassOn

Spec == Init /\ [][Next]_<<source, sink>>
=============================================================================
