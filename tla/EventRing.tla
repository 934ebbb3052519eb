----------------------------- MODULE EventRing -----------------------------
(***************************************************************************)
(* The BPF_MAP_TYPE_RINGBUF map bpf_tracing_events and the way the macro   *)
(* BPF_TRACING_EMIT_EVENT of xbpf.h writes into it.                        *)
(*                                                                         *)
(* A producer is one run of an eBPF program.  It reserves a record, fills  *)
(* it in and submits it; between the two steps the record is in the ring   *)
(* but busy, and other producers (on other CPUs, or interrupting this one  *)
(* on the same CPU) may reserve and submit records behind it.  The order   *)
(* of the ring is the order of the reservations.  The kernel side is       *)
(* modelled from how xbpf.h and ring_buf.rs use it.                        *)
(***************************************************************************)
EXTENDS Naturals, Sequences

CONSTANTS
    Producers,  \* runs of eBPF programs that emit events
    Events,     \* the events they may emit
    RingSlots   \* how many events BPF_TRACING_RING_BUF_SIZE bytes hold

ASSUME RingSlotsAssumption == RingSlots \in Nat \ {0}

VARIABLE ring   \* the records between the consumer and the producer position

\* A record of the ring: what was emitted, by whom, and the kernel's busy bit.
Record == [ev : Events, by : Producers, busy : BOOLEAN]

\* The record index that producer p has reserved and not yet submitted.
Reserved(p, i) == ring[i].busy /\ ring[i].by = p

EmptyRing == ring = << >>

\* bpf_ringbuf_reserve succeeds.  On a full ring it returns NULL and the macro
\* breaks out without having changed anything, hence the guard on the length.
Reserve(p, e) ==
    /\ \A i \in DOMAIN ring : ~ Reserved(p, i)
    /\ Len(ring) < RingSlots
    /\ ring' = Append(ring, [ev |-> e, by |-> p, busy |-> TRUE])

\* The fields are filled in and bpf_ringbuf_submit clears the busy bit.
Submit(p) ==
    \E i \in DOMAIN ring :
        /\ Reserved(p, i)
        /\ ring' = [ring EXCEPT ![i].busy = FALSE]

-----------------------------------------------------------------------------

\* The ring never holds more than its size, and no producer has more than one
\* record reserved.
RingTypeOK ==
    /\ ring \in Seq(Record)
    /\ Len(ring) <= RingSlots
    /\ \A i, j \in DOMAIN ring, p \in Producers :
           Reserved(p, i) /\ Reserved(p, j) => i = j

=============================================================================
