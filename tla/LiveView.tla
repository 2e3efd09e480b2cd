------------------------------ MODULE LiveView ------------------------------
(***************************************************************************)
(* What the telemetry path promises to a dashboard, without the path: the   *)
(* bridge publishes packets, the backend lives one life after another, and  *)
(* each dashboard shows one packet whole, or the defaults of a life, and    *)
(* only ever replaces it by something newer.  TelemetryLink implements it.  *)
(***************************************************************************)
EXTENDS Integers, Sequences

CONSTANTS
    Clients,    \* dashboards
    Values,     \* what a packet may carry
    Default     \* what a program shows before its first packet

VARIABLES
    published,  \* the packets, in the order in which they were sent
    life,       \* lives of the backend so far
    view        \* what each dashboard shows: [epoch, seq, data]

vars == <<published, life, view>>

Init ==
    /\ published = <<>>
    /\ life = 1
    /\ view = [c \in Clients |-> [epoch |-> 0, seq |-> 0, data |-> Default]]

Publish ==
    /\ published' \in Seq(Values)
    /\ Len(published') = Len(published) + 1
    /\ SubSeq(published', 1, Len(published)) = published
    /\ UNCHANGED <<life, view>>

Restart ==
    /\ life' = life + 1
    /\ UNCHANGED <<published, view>>

Packet(n) == IF n = 0 THEN Default ELSE published[n]

(* A later packet of the life being shown, or a later life: its defaults,   *)
(* or a packet that no earlier life has passed on.                          *)
Newer(c, e, n) ==
    \/ e = view[c].epoch /\ n > view[c].seq
    \/ e > view[c].epoch /\ (n = 0 \/ n > view[c].seq)

Show(c) ==
    /\ \E e \in 1 .. life, n \in 0 .. Len(published) :
          /\ Newer(c, e, n)
          /\ view' = [view EXCEPT ![c] = [epoch |-> e, seq |-> n, data |-> Packet(n)]]
    /\ UNCHANGED <<published, life>>

Next == Publish \/ Restart \/ \E c \in Clients : Show(c)

Spec == Init /\ [][Next]_vars

=============================================================================
