------------------------------ MODULE Tracing ------------------------------
(***************************************************************************)
(* The tracing thread of try_init: it receives the records of the eBPF     *)
(* programs from a queue that may lose some (see RingBufHistory), decodes  *)
(* them and re-emits them as tracing events, nested in the spans that are  *)
(* open on the CPU they came from.                                         *)
(***************************************************************************)
EXTENDS EmitMacros, Subsequences

CONSTANTS
    Filters,    \* what LevelFilter::current() may be when an event is received
    InitCpus,   \* available_parallelism when the first event arrives
    Undecodable \* names that are not valid UTF-8 once cut to BPF_TRACING_STR_LEN

ASSUME FiltersAssumption == Filters \subseteq 0 .. MaxLevel
ASSUME InitCpusAssumption == InitCpus \in Nat \ {0}

VARIABLES
    stacks,    \* SPANS: the stack of open spans of CPU c is stacks[c + 1]
    seen,      \* what was open and lost on each CPU at the last event that came from it
    inSync     \* whether user space has missed nothing since it last had no span

tracingVars == <<stacks, seen, inSync>>
vars == <<programVars, tracingVars>>

NoSpan == << >>
NothingSeen == [scope |-> << >>, lost |-> 0]

Init ==
    /\ ProgramInit
    /\ stacks = [i \in 1 .. InitCpus |-> << >>]
    /\ seen = [c \in Cpus |-> NothingSeen]
    /\ inSync = [c \in Cpus |-> TRUE]

-----------------------------------------------------------------------------

StackOf(c) == IF c < Len(stacks) THEN stacks[c + 1] ELSE << >>

\* Mutant: growing the vector of stacks forgets those it had.
GrownAfresh(c) ==
    IF c < Len(stacks) THEN stacks ELSE [i \in 1 .. c + 1 |-> << >>]

\* The stacks with one for CPU c, whose id can be beyond those counted first.
Grown(c) ==
    [i \in 1 .. (IF c < Len(stacks) THEN Len(stacks) ELSE c + 1) |-> StackOf(i - 1)]

Innermost(spans) == IF spans = << >> THEN NoSpan ELSE Last(spans)

\* What the next message or span of CPU c is shown below.
Parent(c) == Innermost(StackOf(c))

\* The names a program opens and the thread can decode.
Visible(spans) == Kept(spans, [name : Names \ Undecodable, id : Ids])

\* Mutants: everything from the outermost match on is popped, the match itself is
\* left on the stack, or nothing but an innermost match is popped.
PoppedThroughOutermost(spans, name) ==
    LET named == {i \in DOMAIN spans : spans[i].name = name}
    IN  SubSeq(spans, 1, IF named = {} THEN 0 ELSE Min(named) - 1)

PoppedAbove(spans, name) ==
    LET named == {i \in DOMAIN spans : spans[i].name = name}
    IN  SubSeq(spans, 1, IF named = {} THEN 0 ELSE Max(named))

PoppedIfInnermost(spans, name) ==
    IF spans # << >> /\ Last(spans).name = name THEN Front(spans) ELSE spans

\* What is left after popping up to and including the innermost span called name.
PoppedThrough(spans, name) ==
    LET named == {i \in DOMAIN spans : spans[i].name = name}
    IN  SubSeq(spans, 1, IF named = {} THEN 0 ELSE Max(named) - 1)

\* The bookkeeping for the properties when event e has left CPU e.cpu with the
\* given stack; skipped is TRUE if the event opened a span that is not shown.
Observe(e, stack, skipped) ==
    /\ seen' = [seen EXCEPT ![e.cpu] = [scope |-> e.scope, lost |-> e.lost]]
    /\ inSync' = [inSync EXCEPT ![e.cpu] =
                      \/ inSync[e.cpu] /\ ~ e.gap /\ ~ skipped
                      \/ e.scope = << >> /\ stack = << >>]

\* Event::try_from returns an error: a warning is logged.
DecodeFails(e) ==
    /\ e.name \in Undecodable
    /\ Observe(e, StackOf(e.cpu), FALSE)
    /\ UNCHANGED stacks

\* emit of a message or of the start of a span that is not enabled.
Filtered(e, filter) ==
    /\ e.name \notin Undecodable
    /\ e.kind # "span_end"
    /\ e.level > filter
    /\ stacks' = Grown(e.cpu)
    /\ Observe(e, StackOf(e.cpu), e.kind = "span_start")

EmitMessage(e, filter) ==
    /\ e.name \notin Undecodable
    /\ e.kind = "msg"
    /\ e.level <= filter
    /\ stacks' = Grown(e.cpu)
    /\ Observe(e, StackOf(e.cpu), FALSE)

\* Mutant: the parent of the span is pushed on the stack.
EmitStartParent(e, filter) ==
    LET stack == Append(StackOf(e.cpu), Parent(e.cpu))
    IN  /\ e.name \notin Undecodable
        /\ e.kind = "span_start"
        /\ e.level <= filter
        /\ stacks' = [Grown(e.cpu) EXCEPT ![e.cpu + 1] = stack]
        /\ Observe(e, stack, FALSE)

EmitStart(e, filter) ==
    LET stack == Append(StackOf(e.cpu), Last(e.scope))
    IN  /\ e.name \notin Undecodable
        /\ e.kind = "span_start"
        /\ e.level <= filter
        /\ stacks' = [Grown(e.cpu) EXCEPT ![e.cpu + 1] = stack]
        /\ Observe(e, stack, FALSE)

\* Mutant: ends are filtered like starts and messages.
EmitEndIfEnabled(e) ==
    \E filter \in Filters :
        LET stack == IF filter = 0 THEN StackOf(e.cpu)
                     ELSE PoppedThrough(StackOf(e.cpu), e.name)
        IN  /\ e.name \notin Undecodable
            /\ e.kind = "span_end"
            /\ stacks' = [Grown(e.cpu) EXCEPT ![e.cpu + 1] = stack]
            /\ Observe(e, stack, FALSE)

EmitEnd(e) ==
    LET stack == PoppedThrough(StackOf(e.cpu), e.name)
    IN  /\ e.name \notin Undecodable
        /\ e.kind = "span_end"
        /\ stacks' = [Grown(e.cpu) EXCEPT ![e.cpu + 1] = stack]
        /\ Observe(e, stack, FALSE)

\* One round of the thread's loop.  The program's subscriber may change what it is
\* interested in at any time.
Receive ==
    /\ Deliver
    /\ LET e == Head(queue)
       IN  \/ DecodeFails(e)
           \/ \E filter \in Filters :
                  Filtered(e, filter) \/ EmitMessage(e, filter) \/ EmitStart(e, filter)
           \/ EmitEnd(e)
    /\ UNCHANGED <<scope, missing, losses, lostEnds, crossed>>

-----------------------------------------------------------------------------

\* A span gets the first identity that nothing remembers on its CPU.
FreshIds(c) ==
    LET remembered == UNION {{s.id : s \in Range(spans)} :
                                 spans \in {scope[c], seen[c].scope, StackOf(c)}
                                           \cup {e.scope : e \in Range(queue)}}
    IN  {id \in Ids \ remembered : \A other \in Ids \ remembered : id <= other}

Program(c) ==
    \/ \E l \in Levels, n \in Names : Message(c, l, n)
    \/ \E l \in Levels, n \in Names, id \in FreshIds(c) :
           StartSpan(c, l, [name |-> n, id |-> id])
    \/ \E k \in DOMAIN scope[c] : EndSpan(c, k)

Next ==
    \/ \E c \in Cpus : Program(c) /\ UNCHANGED tracingVars
    \/ Receive

Spec == Init /\ [][Next]_vars

\* The thread receives for as long as the process lives.  Nothing is assumed of
\* the eBPF programs.
FairSpec == Spec /\ WF_vars(Receive)

-----------------------------------------------------------------------------

\* The types.
TypeOK ==
    /\ Range(queue) \subseteq Event
    /\ Len(queue) <= Capacity
    /\ scope \in [Cpus -> Seq(Span)]
    /\ missing \in [Cpus -> BOOLEAN]
    /\ losses \in 0 .. MaxLost
    /\ lostEnds \in [Cpus -> 0 .. MaxLost]
    /\ stacks \in Seq(Seq(Span))
    /\ crossed \in [Cpus -> BOOLEAN]
    /\ seen \in [Cpus -> [scope : Seq(Span), lost : Nat]]
    /\ inSync \in [Cpus -> BOOLEAN]

\* While no record of a CPU is lost, none of its spans is filtered out and its
\* programs do not preempt each other, its stack is exactly the spans that were
\* open when the last event was emitted, and what is shown next hangs below the
\* innermost of them.  The same holds after an exception, from the moment the CPU
\* has no span open on either side.
ExactWhenInSync ==
    \A c \in Cpus : inSync[c] =>
        /\ StackOf(c) = Visible(seen[c].scope)
        /\ Parent(c) = Innermost(Visible(seen[c].scope))

\* The spans s are among the spans t, in the same order.
Among(s, t) ==
    \E place \in [DOMAIN s -> DOMAIN t] :
        /\ \A i \in DOMAIN s : s[i] = t[place[i]]
        /\ \A i, j \in DOMAIN s : i < j => place[i] < place[j]

\* Unless the end of a span got lost, or programs that preempt each other have spans
\* of one name, nothing is ever nested in a span that was not open when it was
\* emitted, however many other records are lost and whatever the filters do.
NoPhantomNesting ==
    \A c \in Cpus : lostEnds[c] = 0 /\ ~ crossed[c] => Among(StackOf(c), seen[c].scope)

Shown(spans) == Cardinality({i \in DOMAIN spans : spans[i].name \notin Undecodable})

\* The stack has no more spans than were open at the last event and can be decoded,
\* and one more for every end that had been lost by then.
StaleSpansAreBounded ==
    \A c \in Cpus : Len(StackOf(c)) <= Shown(seen[c].scope) + seen[c].lost

\* event.rs says of an end: "Ending a span that was never started is ignored."
UnstartedEndIsIgnored ==
    [][\A c \in Cpus :
           /\ Receive
           /\ Head(queue).cpu = c
           /\ Head(queue).kind = "span_end"
           /\ \A s \in Range(StackOf(c)) : s.name # Head(queue).name
           => StackOf(c)' = StackOf(c)]_vars

\* What was open on CPU c when an event was emitted there is what it is nested in.
OpenAreOnStack(c) == Range(Visible(seen[c].scope)) \subseteq Range(StackOf(c))

\* xbpf.h: "Everything emitted between a start and an end on the same CPU is nested
\* inside that span."  So as long as nothing is lost and every level is enabled, the
\* spans that were open when an event was emitted are on the stack; at least while
\* no span was ended below another one of its name, as user space cannot tell the two
\* apart.
EverythingIsNested ==
    losses = 0 /\ BpfLevel = MaxLevel /\ Filters = {MaxLevel} =>
        \A c \in Cpus : ~ crossed[c] => OpenAreOnStack(c)

\* emit says that a span whose end was dropped does not stay open forever.  So if
\* the program keeps ending spans, nothing is lost any more and again and again
\* no span is open in the program, then the stack is emptied again and again too.
LostEndIsRepaired ==
    \A c \in Cpus :
        /\ []<><<Receive /\ Head(queue).cpu = c /\ Head(queue).kind = "span_end">>_vars
        /\ []<>(scope[c] = << >> /\ queue = << >>)
        => []<>(StackOf(c) = << >>)

=============================================================================
