# A model of xbpf in TLA+

xbpf is a Rust library for user-space programs that load eBPF programs. This
directory models the parts of it where threads, processes and the kernel meet:
the ring buffer reader, the tracing protocol between eBPF programs and user
space with the layout of its records, the typed hash map, and the output
directory of the build script. TLC checks the models on small instances, and
TLAPS proves every safety property that TLC checks for all instances.

## 1. The system

| Component | Source (`src/xbpf/...`) | State | Operations |
| --- | --- | --- | --- |
| Ring buffer reader | `src/collections/ring_buf.rs` | ring (kernel), bounded channel, `dropped` counter, `stop` flag, a thread | `new`, `recv`/`blocking_recv`/`try_recv`, `dropped`, `Drop`; the thread's loop and its callback |
| Emit macros | `include/xbpf.h` | a reserved record; the spans the programs have open | messages, starts and ends of spans, at a compile-time level, with or without source locations |
| Tracing thread | `src/tracing/mod.rs` | a stack of spans per CPU, a cache of callsites, the current level filter | `try_init`, `emit` |
| Event codec | `src/tracing/event.rs` | none | `Event::try_from` |
| Typed hash map | `src/collections/hash_map.rs` | a map in the kernel | reads, writes, batches, iteration, `clear`, `freeze`, `pin` |
| Build support | `src/build.rs` | an output directory that outlives the build | compile, link skeletons, dump `vmlinux.h`, export headers, resolve the tracing level |
| Program start-up | `src/prog.rs`, `src/obj.rs` | the loaded object | open, load, attach, `try_init` |
| Rest | `src/pod.rs`, `src/test.rs`, `xbpf-macros` | none | a marker trait, test support, code generation |

How they interact: an eBPF program expands the macros of `xbpf.h`, which reserve
and submit records in the ring `bpf_tracing_events`. A `RingBuf` opened by
`try_init` has a thread that polls this ring, copies every record into a tokio
channel, and counts those that do not fit. The tracing thread receives from the
channel, decodes, and re-emits each event under the spans open on its CPU. The
hash map is apart from this: it is shared between threads, other processes and
eBPF programs, with no state of its own in user space.

What is hard, and what being correct means:

* *Ring buffer reader.* Producers on several CPUs submit out of order; the
  reader may be anywhere in `poll` when the owner drops the `RingBuf`; opening the
  ring fails in the thread, after `new` has returned. Correct: events come in
  the order of reservation, none twice, none torn; each is received, counted as
  dropped, or thrown away by the drop; a `None` is final; a drop returns.
* *Tracing.* Starts and ends of spans are lost in a full ring or channel, compiled
  out, filtered at run time, or undecodable, each independently of the other, and
  programs that preempt each other need not nest their spans.
  Correct: exact nesting while nothing is missing, and only bounded damage after a
  loss.
* *Event codec.* The two sides are compiled apart, with lengths of strings and source
  locations of their own, and reserved memory is not cleared. Correct: what is
  decoded is the event that was emitted, cut to the length of the field.
* *Hash map.* A call is several system calls, and others write to the map between
  them; an iteration is disturbed by writes; a batch stops in the middle. Correct:
  a call is as good as atomic for the keys nobody else touches, and `Ok` means
  that everything asked for has been done.
* *Build support.* The output directory keeps what earlier builds, also
  interrupted ones, have left.

`PROJECT.json` lists the hazards one by one, at the lines where they bite.

## 2. The modules

```
EventRing <- RingBuf <- RingBufHistory <- RingBufProofs
                              |
                              | refines
                              v
LossyQueue <------------- LossyFifo
    ^
    +------- EmitMacros <--+
                           +-- Tracing <- MCTracing, TracingProofs <- TracingSyncProofs
             Subsequences <+
                           +-- HashMap <- MCHashMap, HashMapProofs

Subsequences <- SubsequenceProofs <- TracingSyncProofs, HashMapProofs
EventCodec   <- MCEventCodec, EventCodecProofs
Builder      <- MCBuilder, BuilderProofs
```

(`A <- B`: B extends A.) `Subsequences` defines `Kept(s, T)`, the elements of a sequence
that are in T. It is `SelectSeq` written with a recursive function, because the
definition of `SelectSeq` is not accessible to the provers. `HashMap` uses it for the
entries left after some are removed, `Tracing` for the spans user space can decode.

### EventRing and RingBuf

`EventRing` is the kernel's ring as the macros of `xbpf.h` use it. `Reserve` and
`Submit` are two steps; a record in between is in the ring but busy, and the
order of the ring is that of the reservations.

`RingBuf` adds the two threads. `reader` is the position of the reader thread in
`read` (`ring_buf.rs:160-191`) and, inside `poll`, in libbpf's loop:

| `reader` | where |
| --- | --- |
| `opening` | building the ring buffer; `OpenFails` returns from the thread |
| `checking` | `while !stop.load()` |
| `polling` | waiting for records, for at most `POLL_TIMEOUT` |
| `processing` | libbpf looks at the record at the head |
| `releasing` | the callback has returned, the consumer position is not yet moved |
| `failed`, `stopped` | the thread has ended and dropped the sending half |

The callback has the three outcomes of `try_send`: `SendOk`, `SendFull` (counts),
`SendClosed` (sets `stop`). It returns 0 in all of them, so `poll` goes on until
the ring is empty or its head is busy. `owner` is the life of the `RingBuf`; a drop
is `DropStop`, `DropClose`, `DropJoin`, `DropDrain`..., `DropDone`, in the order of
`Drop` and of the fields dropped after it.

Notes on single choices:

* The stop flag is a relaxed atomic. It is stored before the channel is closed, and
  a reader that finds the channel closed has synchronised with that, so reading
  the flag late is the same as checking it a step earlier; the model needs no
  stale values.
* `poll` can time out unless a committed record is at the head: a record
  submitted behind a busy one does not wake the reader, the one it waits for does.
* One `poll` of libbpf 1.7 stops after `INT_MAX` records; the model has no such bound.
* `recv` that has to wait is `Recv` not being enabled; `RecvNone` (in
  `RingBufHistory`) is the `None` it returns in the end. `len` and `is_empty` only
  read.

`RingBufHistory` numbers the events by reservation and remembers what became of
each: `received`, `lostFull`, `discarded`, and whether `recv` has returned `None`.
These history variables only record. `LossyQueue` and `LossyFifo` say what a
`RingBuf` is to its user: a queue that may lose any event, but never reorders,
repeats or invents one. The mapping takes the abstract queue to be the channel
followed by the records of the ring still to be handled.

### EmitMacros and Tracing

`EmitMacros` is the program side over a `LossyQueue`. A program ends its spans in the
reverse order of their starts. If `Preemptible`, programs may preempt each other on
a CPU and outlive each other, so that `EndSpan(c, k)` ends any of the spans open there;
otherwise only the innermost one. A macro above `BPF_TRACING_LEVEL` is compiled out,
except that `bpf_end_span` is compiled in at every level but OFF. A record is queued
or lost (`EmitEvent`). Losing it when it is emitted stands for losing it in the full
ring and in the full channel: no record overtakes another, so nobody can tell
the difference. `RefinesLossyFifo` is what allows this abstraction.

`Tracing` is one round of the tracing thread's loop per action: `DecodeFails`,
`Filtered`, `EmitMessage`, `EmitStart`, `EmitEnd`, from `emit` in `tracing/mod.rs`.
The stack of CPU c is `stacks[c + 1]`, and the vector grows when an event comes from
a CPU beyond it. What the subscriber wants is any of `Filters`, anew for every event.

Some of the state exists for the properties only. Each span carries an identity the
code does not have, so that two spans of the same name can be told apart. Each
record carries the spans open on its CPU when it was emitted (`scope`), how many
ends had been lost there (`lost`) and whether user space can no longer know the
nesting (`gap`); `seen` is what the last record received said of that. `inSync` is FALSE
from the moment user space misses something until neither side has a span open.
`crossed` remembers that a span was ended below another one of its name: the end
names a span but does not identify it, so the thread then closes the wrong one.

### EventCodec

One event on its way through a record: `Emit` formats it into reserved memory
(`BPF_TRACING_EMIT_EVENT`), `Decode` is `Event::try_from`. The header is a record of
numbers; behind it the payload is a sequence of bytes, where a byte is NUL, a character,
or one of the two bytes of a longer character. That is enough to cut a character in
two. `StrLen` is the length user space assumes (128 in the code; the model asks that it is
even and more than the 4 bytes of a line), `strLen` the one the eBPF side was built with,
one of `KernelLens`, which may be any number, as `Builder::tracing_str_len` takes any.
The compiler of the eBPF side aligns the line (`LineOffset`) and the size of the record
(`MsgEnd`), and leaves padding (`Left`) that holds old memory. `sourceLoc` and `feature` say
which side has source locations. `Stale` is what the reserved memory may hold.
The decoder tells whether a record has a source location by its length alone
(`HasFile`), takes a text up to its NUL or to the end of the field (`TextLen`), and
rejects texts that are not UTF-8. `Carried(e)` is the event as the record can carry it:
each text cut to leave room for a NUL, the cpu as 16 bits.

User space knows nothing of the padding. With equal lengths there is none, as 128 is
even and twice 128 a multiple of four. With 127 bytes there are two in front of the line,
so a record is as long as one with 128: the line is then read where it is, and the name of
the file from its second character on. `LocationIfShorter` says that this is the only
length below `StrLen` at which any source location is read at all.

### HashMap

One kernel map, threads that call the methods of `HashMap` and eBPF programs that
write between any two of their system calls. A call of several system calls is a
record in `call[c]`: `insert` is get and update, `remove` is get and delete, `len` and
`clear` ask for key after key, `clear` then deletes the keys it got in a batch, and
a batch stops at its first error. The kernel side is external: updates with
their flags and errors, deletes, LRU eviction (of any other entries, also when the
update fails on its flag), the order of the iteration (bucket by bucket, a
written entry first in its bucket) and where it goes on after a key that is gone
(at the beginning). That order is why `keys` "may skip or duplicate keys".
`touched` records, for a call in progress, the keys others have written or removed
since it began. An entry that somebody rewrites in front of the iterator's position is
skipped, and then survives a `clear` that returns `Ok`; the documentation of `keys`
warns of that, so `OkClearRemovesUntouched` speaks of the other keys only.

### Builder

The output directory of a crate over many builds. `skel` is what is in it: for each
directory and name nothing, a skeleton (of which source, and whether that has been
edited since), a torn one, or a link. Between builds sources are added, edited and
removed (`Add`, `Change`); a build is `Start`, the three ways through `dump_kernel_btf`,
then `Compile` for each job of `named_sources`, followed by `Unlink` and `Symlink` (or
`SymlinkFails`, which is only a warning) if the name occurs once and the source
is not in the root of `src`. `Abort` is every panic and every kill. A skeleton is
written through a link that is in its place (`Target`), as opening a file for writing
does. `Explicit` are the sources given with `Builder::source`; one that the glob
pattern finds too counts twice, and so gets no link. When a build runs is left open.

## 3. The runs

| Run | Question | Instance |
| --- | --- | --- |
| `ringbuf_order` | Order, accounting, refinement; is every record read in the end, does a drop return once the programs are quiet, does a receiver learn of a failure? | 6 events, 2 programs, ring 2, channel 2, counter modulo 2 |
| `ringbuf_drop_hangs` | Does a drop return in any case? (no) | 2 programs emitting for ever, ring 2, channel 2 |
| `ringbuf_open_fails` | Does `new` report that the ring buffer cannot be opened? (no) | the same |
| `tracing_nesting` | What nesting is guaranteed, and how much is wrong after a loss? | CPUs 0 and 2, one stack at first, 3 names, one undecodable, preemption, 1 loss, filter off or on |
| `tracing_unstarted_end` | Is an end without a start ignored? (no) | 1 CPU, a level compiled out, no losses |
| `tracing_lost_end` | Is a lost end repaired in the end? (no) | 1 CPU, 1 name, 1 loss |
| `tracing_overlap` | Is everything between a start and an end nested in the span? (no) | 1 CPU, 2 names, preemption, no losses, nothing filtered |
| `event_codec` | Does user space decode what was emitted? | fields of 0, 3, 5, 6, 7 or 16 bytes against 6, texts of up to 6 bytes, lines of 4 bytes, 4 fillings of old memory |
| `codec_truncates` | Are messages that are too long truncated? (no) | fields of 6 bytes on both sides |
| `hashmap_calls` | What do the calls guarantee while others write? | 1 thread, 3 keys in 2 buckets, 2 or 3 entries, hash and LRU |
| `builder_includes` | What does `include_bpf!` find after any history of builds? | 2 names, 3 directories, 1 explicit source |
| `builder_mirror` | Has every source its own skeleton? (no) | the same |

Why the bounds are enough. *Ring buffer:* two producers suffice for submitting out
of order, a ring of two for a record that waits behind a busy one, a channel
of two for a full one; six events fill both and leave two to be lost after another
has been received, and two losses wrap a counter modulo 2. The proofs cover all
other sizes. That events are finite in `ringbuf_order` is what "the programs are
quiet" means in `DropReturnsWhenQuiet`; `ringbuf_drop_hangs` has programs that never
are. *Tracing:* two open spans (`MaxOpen`) and two decodable names give every
relation between an end and a stack: it matches the innermost span, one below it,
the older or the newer of two of the same name, or none. A queue of one
(`Capacity`) suffices for the interleaving of program and thread, because the records
carry what the program knew when they were emitted. `MaxLost` is one because a
second loss acts on a stack that the first has left wrong already; the proofs hold for
any number. A start that is compiled out is not in `tracing_nesting`: it looks to user
space like one that is lost (`tracing_unstarted_end` has it, and so have the proofs).
*Event codec:* the field lengths cover an eBPF side with no strings, with shorter ones, odd
and one byte less among them, with equal ones, with longer ones, and with strings so long
(16) that a record without a source location is long enough to be taken for one with; texts
of six bytes are longer than what fits into six, with a character of two bytes across every
border, and so are two of the names of files. *Hash map:* one thread is enough, as everything a second one
could do to the map the eBPF programs do too, and freezing is an action of its
own. Two keys share a bucket, so that writes reorder them; three keys and two
entries fill the map; two values tell a replaced value from the one replacing it.
`MaxSeen` bounds an iteration that starts over, leaving room for every key and
one repetition; `MaxBatch` is two because a batch has a first item and one after it. *Builder:* a name can be in the root, in one directory below it
and move to another; the second name is there for a source that counts twice. Nothing else
bounds the history: builds, edits and aborts go on for ever.

The system may stop in the ring buffer runs (everything received and the `RingBuf`
dropped) and in the codec runs (the event is decoded), so these do not check for
deadlock; in the others some step is always possible, and deadlock is checked.

## 4. Fairness

* The reader thread and a drop that has begun run on: they are threads of a live
  process. Nothing is assumed of when the owner drops.
* A program that has reserved a record submits it (`Commit`): the verifier lets
  a program neither loop for ever nor keep a reservation.
* In `HFairSpec` the owner receives until `None`: that is the loop of the tracing
  thread (`mod.rs:149`).
* In `FairSpec` of `Tracing` (used by `tracing_lost_end`) the thread receives; programs
  and subscribers may stop at any time.
* Only weak fairness is used. `EventCodec`, `HashMap` and `Builder` state no liveness.

## 5. What is proved

All theorems are of the specification the runs check, and assume only the named
`ASSUME`s of its constants.

### The ring buffer reader

`RingBufProofs`, for every number of programs, ring size, capacity, counter width
and set of events:

| Theorem | Property |
| --- | --- |
| `TypeCorrect` | `[]TypeOK` |
| `ReaderOutlivesOwner` | `[]ReaderStopsOnlyOnDrop` |
| `OrderCorrect` | `[]InOrder` |
| `NothingVanishesCorrect` | `[]NothingVanishes` |
| `DroppedCorrect` | `[]DroppedIsExact` |
| `NoSilentLossCorrect` | `[]NoSilentLoss` |
| `NoTornRecordCorrect` | `[]NoTornRecord` |
| `NoneIsFinalCorrect` | `NoneIsFinal` |
| `RefinesLossyFifo` | `ImplementsLossyFifo` |

The inductive invariant is `IInv == TypeInv /\ LifeInv /\ OrderInv /\ LossInv`.

* `TypeInv` is the type invariant and that, while the reader is in `releasing`, there is a
  committed record at the head of the ring. This is what makes the step from the
  callback to `Release` safe while producers reserve and submit around it.
* `LifeInv` relates the two threads: there is no reader before the owner has its
  `RingBuf`; the channel is closed exactly in the last stages of the drop; until
  the drop begins `stop` is not set and the reader has not stopped.
* `OrderInv` gives the order by stages. What has been received, the channel and
  the unread ring are each increasing, everything of one stage is less than
  everything of the next, and all stages with the lost events make up
  `1 .. reserved`. Events lost or discarded are in no stage.
* `LossInv`: `dropped` is the size of `lostFull` modulo the width of the counter,
  events are discarded only once the channel is closed, and after a `None` the
  channel is empty and its sender gone.

None is inductive without the others: that the callback moves an event
from the ring to exactly one place needs that it occurs once, which is the order;
the order needs the types; that nothing is lost silently needs to know how far the
drop is. `InOrder` and `NothingVanishes` speak of the concatenation of the stages;
the proofs work on the stages and put them together at the end
(`InvImpliesOrder`, `ConcatElements`).

`RefinesLossyFifo` follows from `IInv`: reserving is `Put`, receiving is `Deliver`,
a full or closed channel and a drained one are `Lose` at the position after the
channel or at its head, and everything else stutters, in particular `SendOk`
and `Release`, between which `Unread` leaves out the head of the ring.

### The event codec

`EventCodecProofs`, for every length of strings on the eBPF side, odd ones and zero
included, every even length of more than four bytes in user space, all events and contents
of reserved memory: `TypeCorrect` (`TypeOK`), `RoundTripCorrect` (`RoundTrip`),
`NothingForgedCorrect` (`NothingForged`, of the kind, the level, the cpu and the message) and
`LocationIfShorterCorrect` (`LocationIfShorter`, of the file and the line). Of the source
location read from an eBPF side with longer strings nothing is said: it is read from the
middle of the other fields. The invariant `CodecInv == Config /\ Origin`
says that a record in the ring is `RecordOf(event, stale)` for some contents of the
memory, and that a result is what `Decode` makes of such a record. The rest is about
sequences: the text that is found in a formatted field, or in a part of it, is the
text cut to the shorter of the two lengths. `PayloadLayout` says where the fields are,
`HasFileFacts` that of the shorter records only those with strings one byte shorter are
long enough for a source location, and `FileShifted` what is read from these.

### Tracing

`TracingProofs`, for all CPUs, names, levels, filters and bounds: `TypeCorrect`
(`TypeOK`), `NoPhantomNestingCorrect` (`NoPhantomNesting`) and `StaleSpansCorrect`
(`StaleSpansAreBounded`). What holds of a stack is relative to the last record that
was received, so the invariant has to carry it along the queue.
`Inv == TypeInv /\ ChainInv /\ StackInv`:

* `StackInv`: every stack is good for what was seen last: it is no longer than the spans
  then shown plus the lost ends, and, unless an end was lost or spans crossed, its
  spans are among those then open, in order.
* `ChainInv`: each record of a CPU is linked to the one before it, the first of the queue
  to `seen`, and the present state of the program to the last: between two
  records spans are only added, but for the one that an end removes, and a
  lost end is counted.

That `StackInv` is preserved when a record is received is then a statement about one
stack, one link and one of the five outcomes; that `ChainInv` is, is a statement about
appending to a queue and taking its head.

`TracingSyncProofs` proves `ExactWhenInSyncCorrect` (`ExactWhenInSync`) by
`SyncInv == Inv /\ RecordInv /\ ExactInv`. `Inv` follows the spans through everything
that can go wrong between two records, so it only bounds what a stack can hold. What is
needed in addition is what happens when nothing does:

* `RecordInv`: a record that is not marked as the first after a gap differs from the
  record of its CPU before it by its own span only (`InOrder`), and unless a record is
  missing since the last one, that one tells what is open (`Reported`). A lost record
  breaks the second part, and the next record then is marked, so that the first
  part asks nothing of it. Under `BpfLevel = 0` the macros emit nothing at all and the
  invariant says nothing.
* `ExactInv`: on a CPU in sync the stack is what is visible of the spans last seen.

From a third invariant, `UndisturbedInv`, follows `NestedUnlessPreempted`: if nothing is
lost, compiled out or filtered, and no program preempts another, user space is always in
sync, and every span that was open when an event was emitted is on the stack
(`OpenAreOnStack`), also where spans have equal names. Where programs do preempt each other,
`tracing_overlap` refutes the same promise even for CPUs on which no span was ended below
another one of its name (item 5 of section 6).

### The hash map

`HashMapProofs`, for all keys, values, buckets, sizes and any number of threads:

| Theorem | Property |
| --- | --- |
| `TypeCorrect` | `[]TypeOK` |
| `ReturnsWhatItReplacedCorrect` | `ReturnsWhatItReplaced` |
| `OkBatchIsCompleteCorrect` | `OkBatchIsComplete` (`insert_batch` on an LRU map is exempt) |
| `UndisturbedIterationIsExactCorrect` | `UndisturbedIterationIsExact` |
| `OkClearRemovesUntouchedCorrect` | `OkClearRemovesUntouched` |

All of them but the first are about the step in which a call returns, and need to know
what the thread may rely on before it: `Inv == TypeInv /\ \A c \in Clients : CallInv(c)`.
`TypeInv` adds to the types that a key is in the map once, and that entries are ordered by
bucket. The parts of `CallInv(c)` speak of the keys others have not touched since the call
began:

* `OldIsCurrent`: the value that `insert` or `remove` has read is still in the map.
* `NoneIsPassed`: the iteration of `clear` has every key that stands in front of the last
  one it has got, in its bucket or an earlier one. Writes move entries to the front of
  their bucket and evictions remove them, but both touch the key, and entries that are not
  touched never change their order. If the last key is gone the iteration starts
  again, and still has all it had. When it ends, it has every untouched key.
* `RestIsListed`: in the batch that follows, the untouched keys still in the map are
  behind the items already done. Together with `NoneIsPassed` this gives
  `OkClearRemovesUntouched`.
* `UndisturbedIsExact`: if nothing was touched, the keys got so far are the first of the map,
  and what `clear` has left to remove is in the map, each key once. This is what
  shows that an undisturbed `clear` does not fail with `not_found`.
* `DoneIsDone`: what a batch has done is still so, or was touched, or is done again by
  a later item that has been done too.

The proof has two halves. A step of somebody else is `Harmless` to a call: what it has
changed it has touched (`OthersAreHarmless`, `StillHolds`). A step of the thread itself
has one lemma per action.

Two named assumptions on the constants are there for these proofs: that values are not
errors (`ResultsAssumption`; in the code the two are the variants of a `Result`), and that
the names of the other writers are no threads (`ClientsAssumption`).

### Subsequences

`SubsequenceProofs` proves of `Kept`, for every sequence and set, that it embeds in the
sequence exactly the elements of the set in their order (lemma `KeptEmbeds`), and what
becomes of it when an element is appended (`KeptAppend`). Since the library's induction
theorems cannot be instantiated, the induction is a search for the least position where
the claim fails (`LeastOf`), for which it suffices that `<` is well-founded on the naturals.

### The build script

`BuilderProofs`, for all directories, names and explicit sources, and so for every
history of builds and edits: `TypeCorrect` (`TypeOK`), `UnambiguousNameCorrect`
(`UnambiguousNameIsIncluded`) and `OwnSkeletonCorrect` (`OwnSkeletonBelowRoot`). The
invariant is `Inv == StateTyped /\ FilesInv /\ JobsInv /\ IncludedInv /\ OwnInv`. `FilesInv`:
a link is in the root and leads to something that was written below it, which is
why writing through a link never goes further than one step. `JobsInv` says which
jobs of the build in progress are left, `IncludedInv` and `OwnInv` what the finished ones
have left behind and later ones cannot undo. Counting how often a name occurs needs
that there are finitely many sources.

### Only model-checked

The liveness properties (`EveryRecordIsRead`, `OpenFailureEndsStream`,
`DropReturnsWhenQuiet`), since fairness and ENABLED are beyond the prover. The other 25
properties of the passing runs are theorems.

## 6. Where code and documentation disagree

1. `ring_buf.rs:152-153`: the reader is said to wake up at least every
   `POLL_TIMEOUT` and notice that it shall stop. While programs keep the ring
   non-empty it does not leave `poll`, and the drop hangs (`ringbuf_drop_hangs`).
2. `ring_buf.rs:60-62`: `new` is said to return an error if the ring buffer cannot
   be opened. It is opened in the thread, and nobody is told (`ringbuf_open_fails`).
3. `event.rs:94-95`: ending a span that was never started is said to be ignored.
   It closes all spans of the CPU (`tracing_unstarted_end`).
4. `mod.rs:252-254`: a span whose end was dropped is said not to stay open for ever.
   It does if spans of the same name follow it (`tracing_lost_end`).
5. `xbpf.h:38-39`: everything between a start and an end on one CPU is said to be
   nested in that span. It is not if a preempted program ends its span
   before the one that preempted it does: if span a is ended while b, started after it, is
   open, the loop of `emit` pops both, and what follows is nested in nothing although b is
   open (`tracing_overlap`). Without preemption it is (theorem `NestedUnlessPreempted`).
6. `xbpf.h:53-54`: longer messages are said to be truncated. One that is cut within a
   character is not decoded at all (`codec_truncates`).
7. `build.rs:381`: artifacts are said to mirror the layout of the sources. After a name
   that was unique in a directory also appears in the root of `src`, both skeletons are
   written to the same file, through the link of an earlier build (`builder_mirror`).

What 2 says of `new` goes for `try_init` too: `mod.rs:115-118` says it panics if the ring
buffer cannot be set up, for instance because of the type of the map. It does not.

## 7. What is not modelled

* `try_init` as a whole. It looks up a map, starts the thread and sets the print
  callback of libbpf. Two things can go wrong in it, each two calls long, and are noted
  here instead: another thread can set its own callback between the check and the
  setting (`mod.rs:124`), which then is lost although `mod.rs:104-105` say that `print`
  is not installed if one is set; and calling it for an object it was called for (also
  by `Program::build`) starts a second reader of one ring buffer (`mod.rs:148`), which
  shares the consumer position with the first.
* The thread's current span, which is the parent of the thread's own warnings (`mod.rs:152`).
* The cache of callsites (a memo) and the stripping of source paths (pure).
* Which error `Event::try_from` returns.
* `HashMap::iter` and `values`: they read in batches, and what a batched lookup yields
  under concurrent writes is up to the kernel and libbpf-rs, of which `hash_map.rs` says
  nothing. Pinning (files in bpffs), and the check of type and sizes (pure).
* `build_objects` and `export_headers` (files that nothing else reads), the clang arguments
  and `RUST_LOG` in `build.rs` (pure), and when cargo runs the build script: it
  may run at any time.
* Program start-up, `Pod`, test support, the macro crate and the examples: no state of their
  own, or only calls into libbpf and the file system.
* `vmlinux.h`: type declarations generated from a kernel, without code.

## 8. Plan

1. The safety half of `DropReturnsWhenQuiet`: a measure of the ring, the channel and the
   positions of the two threads that every step of theirs decreases once a drop has begun
   and the programs are quiet. TLC then only has to show that the steps are taken.
2. The promises of section 6 that hold under a condition, as `NestedUnlessPreempted` does for
   item 5. `RoundTrip` has this one for item 6 and `OwnSkeletonBelowRoot` for item 7; for
   items 3 and 4 it would be what an end does to a stack that has only spans of other names.
3. A module for start-up from two threads, if something is documented that it can be
   checked against.
