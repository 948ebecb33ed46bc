----------------------------- MODULE EchoStream -----------------------------
(* What an echo session promises its user, whatever the buffers, partial reads
   and writes, and failures in between: the bytes that come back are those that
   were sent, in order, each once, without a gap.  The stream may stop short. *)
EXTENDS SequencesExt

VARIABLES
    sent,           \* bytes the user handed to Client::write
    received        \* bytes Client::tryReadString returned

Init == sent = <<>> /\ received = <<>>

Send == IsPrefix(sent, sent') /\ UNCHANGED received

Deliver ==
    /\ IsPrefix(received, received') /\ IsPrefix(received', sent)
    /\ UNCHANGED sent

Spec == Init /\ [][Send \/ Deliver]_<<sent, received>>
=============================================================================
