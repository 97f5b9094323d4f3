---------------------------- MODULE OrderedStream ----------------------------
(***************************************************************************)
(* What the trace ingress promises to the rest of the daemon               *)
(* (src/src/daemon/mod.rs): the payloads of all connections form one       *)
(* stream, and the ingest worker applies it from the front, without a gap, *)
(* a repetition or a swap.  The length of the stream is the high watermark *)
(* and the length of "ingested" the processed watermark: a checkpoint that *)
(* waits until the second reaches a value read from the first knows that   *)
(* everything before that moment has been applied.  FamilySequencer builds *)
(* on this promise; TraceIngress keeps it.                                 *)
(***************************************************************************)
EXTENDS Naturals, Sequences

CONSTANT Payload

VARIABLES stream, ingested

Init == stream = <<>> /\ ingested = <<>>

Stamp == /\ \E p \in Payload : stream' = Append(stream, p)
         /\ UNCHANGED ingested

Apply == /\ Len(ingested) < Len(stream)
         /\ ingested' = Append(ingested, stream[Len(ingested) + 1])
         /\ UNCHANGED stream

Next == Stamp \/ Apply

Spec == Init /\ [][Next]_<<stream, ingested>>
=============================================================================
