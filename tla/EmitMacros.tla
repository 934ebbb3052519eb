---------------------------- MODULE EmitMacros -----------------------------
(***************************************************************************)
(* The eBPF side of tracing: what the macros of xbpf.h emit for a program  *)
(* that opens and closes spans and emits messages.                         *)
(*                                                                         *)
(* A program ends its spans in the reverse order of their starts.  What    *)
(* interrupts it on its CPU has left before it goes on, except that a      *)
(* preemptible program may be preempted by another one that outlives it:   *)
(* then a span can be ended that is not the innermost one of its CPU.      *)
(*                                                                         *)
(* The macros of all levels up to BPF_TRACING_LEVEL emit a record, those   *)
(* above expand to nothing.  A record is lost if the ring is full, or      *)
(* later on in user space; as no record overtakes another, both have the   *)
(* effect of a record that never entered the queue.                        *)
(*                                                                         *)
(* Every record carries, for the properties only, the spans that were open *)
(* on its CPU when it was emitted, how many ends of spans had been lost    *)
(* there, and whether user space cannot keep up: a record is missing since *)
(* the one before, or a span is ended that is not the innermost one.       *)
(***************************************************************************)
EXTENDS LossyQueue

CONSTANTS
    Cpus,     \* the ids of the CPUs that run the eBPF programs
    Names,    \* names of spans and messages
    MaxLevel, \* the levels are 1 .. MaxLevel, from least to most verbose
    BpfLevel, \* BPF_TRACING_LEVEL, 0 is OFF
    Preemptible, \* whether programs preempt each other
    MaxOpen,  \* bound: how many spans are open on all CPUs
    Capacity, \* bound: how many records are on their way
    MaxLost,  \* bound: how many records are lost
    Ids       \* identities of spans, enough for all that are remembered at once

ASSUME LevelAssumption == MaxLevel \in Nat /\ BpfLevel \in 0 .. MaxLevel
ASSUME CpusAssumption == Cpus \subseteq Nat
ASSUME IdsAssumption == Ids \subseteq Nat
ASSUME PreemptibleAssumption == Preemptible \in BOOLEAN
ASSUME BoundsAssumption == MaxOpen \in Nat /\ Capacity \in Nat /\ MaxLost \in Nat

VARIABLES
    scope,    \* the spans open on each CPU, the one started last at the end
    missing,  \* whether a record of the CPU is missing since the last one queued
    losses,   \* how many records have been lost
    lostEnds, \* how many ends of spans have been lost on each CPU
    crossed   \* whether on the CPU a span has been ended below another of its name

programVars == <<queue, scope, missing, losses, lostEnds, crossed>>

Levels == 1 .. MaxLevel
Span == [name : Names, id : Ids]
Kinds == {"msg", "span_start", "span_end"}

\* level 0 is that of a SPAN_END
Event == [cpu : Cpus, kind : Kinds, level : 0 .. MaxLevel, name : Names,
          scope : Seq(Span), lost : Nat, gap : BOOLEAN]

ProgramInit ==
    /\ queue = << >>
    /\ scope = [c \in Cpus |-> << >>]
    /\ missing = [c \in Cpus |-> FALSE]
    /\ losses = 0
    /\ lostEnds = [c \in Cpus |-> 0]
    /\ crossed = [c \in Cpus |-> FALSE]

-----------------------------------------------------------------------------

Submit(c, kind, level, name, open, inOrder) ==
    /\ Len(queue) < Capacity
    /\ Put([cpu |-> c, kind |-> kind, level |-> level, name |-> name,
            scope |-> open, lost |-> lostEnds[c], gap |-> missing[c] \/ ~ inOrder])
    /\ missing' = [missing EXCEPT ![c] = FALSE]
    /\ UNCHANGED <<losses, lostEnds>>

LoseRecord(c, kind) ==
    /\ losses < MaxLost
    /\ losses' = losses + 1
    /\ missing' = [missing EXCEPT ![c] = TRUE]
    /\ lostEnds' = [lostEnds EXCEPT ![c] = @ + IF kind = "span_end" THEN 1 ELSE 0]
    /\ UNCHANGED queue

\* BPF_TRACING_EMIT_EVENT: the record is submitted, or dropped without a trace.
EmitEvent(c, kind, level, name, open, inOrder) ==
    Submit(c, kind, level, name, open, inOrder) \/ LoseRecord(c, kind)

\* bpf_error ... bpf_trace, where the level is compiled in.
Message(c, level, name) ==
    /\ level <= BpfLevel
    /\ EmitEvent(c, "msg", level, name, scope[c], TRUE)
    /\ UNCHANGED <<scope, crossed>>

HowManyOpen == MapThenSumSet(LAMBDA c : Len(scope[c]), Cpus)

\* A program enters a span: bpf_start_error_span ... bpf_start_trace_span.
\* A start that is compiled out leaves a gap in what user space can know.
StartSpan(c, level, span) ==
    LET open == Append(scope[c], span)
    IN  /\ HowManyOpen < MaxOpen
        /\ scope' = [scope EXCEPT ![c] = open]
        /\ UNCHANGED crossed
        /\ IF level <= BpfLevel
           THEN EmitEvent(c, "span_start", level, span.name, open, TRUE)
           ELSE /\ missing' = [missing EXCEPT ![c] = TRUE]
                /\ UNCHANGED <<queue, losses, lostEnds>>

\* A program leaves the k-th span of its CPU, its own innermost one: bpf_end_span,
\* with the same name that opened it.  It is compiled in whenever tracing is on at all.
EndSpan(c, k) ==
    LET open == RemoveAt(scope[c], k)
        name == scope[c][k].name
    IN  /\ k = Len(scope[c]) \/ Preemptible
        /\ scope' = [scope EXCEPT ![c] = open]
        /\ crossed' = [crossed EXCEPT ![c] =
               @ \/ \E j \in k + 1 .. Len(scope[c]) : scope[c][j].name = name]
        /\ IF BpfLevel # 0
           THEN EmitEvent(c, "span_end", 0, name, open, k = Len(scope[c]))
           ELSE UNCHANGED <<queue, missing, losses, lostEnds>>

=============================================================================
