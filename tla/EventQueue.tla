----------------------------- MODULE EventQueue -----------------------------
(***************************************************************************)
(* What the docker link promises to the update thread, with no mechanism:  *)
(* the container events docker emits come out in the order they were       *)
(* emitted, each at most once and none skipped.  While the link is open    *)
(* every event is delivered in the end; closing it may leave a tail of     *)
(* events undelivered.  DockerLink is shown to implement this.             *)
(***************************************************************************)
EXTENDS Naturals, Sequences

CONSTANT Event        \* the container events that can be emitted

VARIABLES
  sent,               \* every event emitted so far, oldest first
  got,                \* every event delivered so far, oldest first
  open                \* FALSE once the link has been closed

eqvars == <<sent, got, open>>

Init == sent = <<>> /\ got = <<>> /\ open = TRUE

Emit == /\ \E e \in Event : sent' = Append(sent, e)
        /\ UNCHANGED <<got, open>>

Deliver == /\ Len(got) < Len(sent)
           /\ got' = Append(got, sent[Len(got) + 1])
           /\ UNCHANGED <<sent, open>>

Close == open /\ open' = FALSE /\ UNCHANGED <<sent, got>>

Next == Emit \/ Deliver \/ Close

Spec == Init /\ [][Next]_eqvars

(* Delivery is promised only as long as nobody closes the link. *)
FairSpec == Spec /\ WF_eqvars(open /\ Deliver)
=============================================================================
