------------------------------ MODULE HashMap ------------------------------
(***************************************************************************)
(* collections::HashMap: threads that share one kernel hash map with each  *)
(* other and with eBPF programs.                                           *)
(*                                                                         *)
(* Every system call on one key is atomic, but insert, remove and clear    *)
(* make several, the iteration over the keys makes one for each key, and a *)
(* batch is atomic for each of its keys only.  The kernel's hash map is    *)
(* modelled from how hash_map.rs uses it and what it says of it: entries   *)
(* are iterated bucket by bucket, a written entry comes to the front of    *)
(* its bucket, and the successor of a key that is gone is the first key,   *)
(* which is why an iteration may skip or repeat keys.                      *)
(***************************************************************************)
EXTENDS Naturals, FiniteSets, SequencesExt, Subsequences

CONSTANTS
    Clients,    \* the threads that share the map
    Keys, Values,
    None,       \* Option::None
    Bucket,     \* the bucket each key hashes to
    Sizes,      \* the values of max_entries
    MaxBatch,   \* bound: the length of a batch given by the caller
    MaxSeen     \* bound: how many keys one iteration yields

ASSUME NoneAssumption == None \notin Values
ASSUME BucketAssumption == Bucket \in [Keys -> Nat]
ASSUME SizesAssumption == Sizes \subseteq Nat \ {0}
ASSUME BoundsAssumption == MaxBatch \in Nat /\ MaxSeen \in Nat

VARIABLES
    entries, \* the entries in the order of the iteration
    lru,     \* whether the map has type BPF_MAP_TYPE_LRU_HASH
    maxEntries, \* how many entries it can hold
    frozen,  \* whether user space may no longer write
    call,    \* the call each thread is in, or the result of its last one
    touched  \* the keys others have written or removed since the call began

vars == <<entries, lru, maxEntries, frozen, call, touched>>

Entry == [key : Keys, val : Values]

Errors == {"not_found", "full", "denied"}

\* A value is not an error, and a thread is none of the other writers.
ASSUME ResultsAssumption == (Values \cup {None}) \cap Errors = {}
ASSUME ClientsAssumption == "ebpf" \notin Clients /\ "other" \notin Clients

\* What a thread is doing.  A batch has done the first `done` items of its list.
Calls ==
    [op : {"idle"}, result : Values \cup {None, "ok", "true", "false"} \cup Errors]
    \cup [op : {"insert"}, key : Keys, val : Values, old : Values \cup {None}]
    \cup [op : {"remove"}, key : Keys, old : Values]
    \cup [op : {"clear", "len"}, got : Seq(Keys)]
    \cup [op : {"insert_batch"}, list : Seq(Entry), done : Nat]
    \cup [op : {"remove_batch", "clear_batch"}, list : Seq(Keys), done : Nat]

Batches == {"insert_batch", "remove_batch", "clear_batch"}

Init ==
    /\ entries = << >>
    /\ lru \in BOOLEAN
    /\ maxEntries \in Sizes
    /\ frozen = FALSE
    /\ call = [c \in Clients |-> [op |-> "idle", result |-> "ok"]]
    /\ touched = [c \in Clients |-> {}]

-----------------------------------------------------------------------------
(***************************************************************************)
(* The kernel's hash map.                                                  *)
(***************************************************************************)

Present == {entries[i].key : i \in DOMAIN entries}

IndexOf(k) == CHOOSE i \in DOMAIN entries : entries[i].key = k

Lookup(k) == IF k \in Present THEN entries[IndexOf(k)].val ELSE None

\* The entries without those whose keys are in ks.
Without(ks) == Kept(entries, [key : Keys \ ks, val : Values])

\* Entry e comes to the front of its bucket.
Placed(es, e) ==
    LET before == {i \in DOMAIN es : Bucket[es[i].key] < Bucket[e.key]}
    IN  InsertAt(es, Cardinality(before) + 1, e)

\* An LRU map makes room for a write by evicting entries of its choice, and has
\* done so even if the write fails on its flag.
Evictable(k) == IF lru THEN SUBSET (Present \ {k}) ELSE {{}}

\* What BPF_MAP_UPDATE_ELEM of key k answers with flag "any", "noexist" or "exist".
UpdateResult(k, flag) ==
    CASE flag = "noexist" /\ k \in Present -> "exists"
      [] flag = "exist" /\ k \notin Present -> "not_found"
      [] ~ lru /\ k \notin Present /\ Len(entries) = maxEntries -> "full"
      [] OTHER -> "ok"

Update(k, v, flag) ==
    \E evicted \in Evictable(k) :
        LET others == Without(evicted \cup {k})
        IN  IF UpdateResult(k, flag) # "ok" THEN entries' = Without(evicted)
            ELSE /\ Len(others) < maxEntries
                 /\ entries' = Placed(others, [key |-> k, val |-> v])

\* BPF_MAP_DELETE_ELEM.
DeleteResult(k) == IF k \in Present THEN "ok" ELSE "not_found"

Delete(k) == entries' = Without({k})

\* BPF_MAP_GET_NEXT_KEY after the keys got so far: where the next one is, if any.
NextIndex(got) ==
    IF got = << >> \/ Last(got) \notin Present THEN 1 ELSE IndexOf(Last(got)) + 1

-----------------------------------------------------------------------------
(***************************************************************************)
(* Steps.  Each is made by a thread or, for "ebpf", by an eBPF program.    *)
(***************************************************************************)

\* For the properties: what the step of actor a, which writes to the keys ks, means
\* to the calls that other threads are in.
Observe(a, ks) ==
    LET hit == IF frozen' # frozen THEN Keys
               ELSE IF entries' = entries THEN {}
               ELSE ks \cup (Present \ Present')
    IN  touched' = [c \in Clients |->
                       CASE call'[c].op = "idle" -> {}
                         [] c = a -> touched[c]
                         [] OTHER -> touched[c] \cup hit]

\* The step of thread c only reads the map.
ReadOnly(c) == UNCHANGED entries /\ Observe(c, {})

\* eBPF programs write and delete entries, also in a frozen map.  A flag would
\* only restrict what they write.
Program(k) ==
    /\ (\E v \in Values : Update(k, v, "any")) \/ Delete(k)
    /\ UNCHANGED <<lru, maxEntries, frozen, call>>
    /\ Observe("ebpf", {k})

\* The same system calls made by user space.
WriteResult(k, flag) == IF frozen THEN "denied" ELSE UpdateResult(k, flag)
Write(k, v, flag) == IF frozen THEN UNCHANGED entries ELSE Update(k, v, flag)

EraseResult(k) == IF frozen THEN "denied" ELSE DeleteResult(k)
Erase(k) == IF frozen THEN UNCHANGED entries ELSE Delete(k)

Goto(c, state) == call' = [call EXCEPT ![c] = state] /\ UNCHANGED <<lru, maxEntries, frozen>>

Return(c, r) == Goto(c, [op |-> "idle", result |-> r])

Idle(c) == call[c].op = "idle"

\* The calls that are one system call.  insert_new and replace turn the error
\* that their flag asks for into Ok(false).
Expected(r, error) == CASE r = "ok" -> "true" [] r = error -> "false" [] OTHER -> r

UpdateCall(c, k, v) ==
    /\ Idle(c)
    /\ Write(k, v, "any")
    /\ Return(c, WriteResult(k, "any"))
    /\ Observe(c, {k})

InsertNew(c, k, v) ==
    /\ Idle(c)
    /\ Write(k, v, "noexist")
    /\ Return(c, Expected(WriteResult(k, "noexist"), "exists"))
    /\ Observe(c, {k})

Replace(c, k, v) ==
    /\ Idle(c)
    /\ Write(k, v, "exist")
    /\ Return(c, Expected(WriteResult(k, "exist"), "not_found"))
    /\ Observe(c, {k})

DeleteCall(c, k) ==
    /\ Idle(c)
    /\ Erase(k)
    /\ Return(c, EraseResult(k))
    /\ Observe(c, {k})

\* freeze, called by a thread that is in none of the modelled calls.  The kernel
\* refuses to freeze a map while a batch is being written.
Freeze ==
    /\ ~ frozen
    /\ \A d \in Clients : call[d].op \notin Batches
    /\ frozen' = TRUE
    /\ UNCHANGED <<entries, lru, maxEntries, call>>
    /\ Observe("other", {})

-----------------------------------------------------------------------------

\* insert: get, then update.
InsertGet(c, k, v) ==
    /\ Idle(c)
    /\ Goto(c, [op |-> "insert", key |-> k, val |-> v, old |-> Lookup(k)])
    /\ ReadOnly(c)

\* Mutant: the old value is looked up after the update.
InsertUpdateThenGet(c) ==
    LET r == WriteResult(call[c].key, "any")
    IN  /\ call[c].op = "insert"
        /\ Write(call[c].key, call[c].val, "any")
        /\ Return(c, IF r = "ok" THEN call[c].val ELSE r)
        /\ Observe(c, {call[c].key})

InsertUpdate(c) ==
    LET r == WriteResult(call[c].key, "any")
    IN  /\ call[c].op = "insert"
        /\ Write(call[c].key, call[c].val, "any")
        /\ Return(c, IF r = "ok" THEN call[c].old ELSE r)
        /\ Observe(c, {call[c].key})

\* Mutant: remove deletes what it has not found.
RemoveGetAlways(c, k) ==
    /\ Idle(c)
    /\ Goto(c, [op |-> "remove", key |-> k, old |-> Lookup(k)])
    /\ ReadOnly(c)

\* remove: get, then delete if there was a value.
RemoveGet(c, k) ==
    /\ Idle(c)
    /\ IF k \in Present
       THEN Goto(c, [op |-> "remove", key |-> k, old |-> Lookup(k)])
       ELSE Return(c, None)
    /\ ReadOnly(c)

RemoveDelete(c) ==
    LET r == EraseResult(call[c].key)
    IN  /\ call[c].op = "remove"
        /\ Erase(call[c].key)
        /\ Return(c, IF r = "ok" THEN call[c].old ELSE r)
        /\ Observe(c, {call[c].key})

-----------------------------------------------------------------------------

\* clear and len iterate over the keys.
Iterate(c, op) ==
    /\ Idle(c)
    /\ Goto(c, [op |-> op, got |-> << >>])
    /\ ReadOnly(c)

NextKey(c) ==
    /\ call[c].op \in {"clear", "len"}
    /\ Len(call[c].got) < MaxSeen
    /\ NextIndex(call[c].got) \in DOMAIN entries
    /\ Goto(c, [call[c] EXCEPT !.got = Append(@, entries[NextIndex(@)].key)])
    /\ ReadOnly(c)

\* The iteration is over: len has counted the keys; clear passes them to
\* remove_batch, which does nothing if there are none.
NoNextKey(c) ==
    LET got == call[c].got
    IN  /\ call[c].op \in {"clear", "len"}
        /\ NextIndex(got) \notin DOMAIN entries
        /\ IF call[c].op = "len" \/ got = << >>
           THEN Return(c, "ok")
           ELSE Goto(c, [op |-> "clear_batch", list |-> got, done |-> 0])
        /\ ReadOnly(c)

\* insert_batch and remove_batch are called with a list; an empty one is not
\* passed to the kernel.
Batch(c, op, list) ==
    /\ Idle(c)
    /\ IF list = << >> THEN Return(c, "ok")
       ELSE Goto(c, [op |-> op, list |-> list, done |-> 0])
    /\ ReadOnly(c)

\* Mutants: the number of items passed to the kernel is one too small, the batch
\* ignores errors, and a key that is not found is no error but ends the batch.
AllButOneDone(c) == call[c].done + 1 >= Len(call[c].list)

AfterItemAnyway(c, r) == Goto(c, [call[c] EXCEPT !.done = @ + 1])

AfterItemNotFound(c, r) ==
    IF r = "ok" THEN Goto(c, [call[c] EXCEPT !.done = @ + 1])
    ELSE Return(c, IF r = "not_found" THEN "ok" ELSE r)

AllDone(c) == call[c].done = Len(call[c].list)

\* The batch goes on with its next item, or stops and returns the error.
AfterItem(c, r) ==
    IF r = "ok" THEN Goto(c, [call[c] EXCEPT !.done = @ + 1]) ELSE Return(c, r)

\* One item of a batch.
InsertNext(c) ==
    LET e == call[c].list[call[c].done + 1]
    IN  /\ call[c].op = "insert_batch"
        /\ ~ AllDone(c)
        /\ Write(e.key, e.val, "any")
        /\ AfterItem(c, WriteResult(e.key, "any"))
        /\ Observe(c, {e.key})

RemoveNext(c) ==
    LET k == call[c].list[call[c].done + 1]
    IN  /\ call[c].op \in {"remove_batch", "clear_batch"}
        /\ ~ AllDone(c)
        /\ Erase(k)
        /\ AfterItem(c, EraseResult(k))
        /\ Observe(c, {k})

BatchReturns(c) ==
    /\ call[c].op \in Batches
    /\ AllDone(c)
    /\ Return(c, "ok")
    /\ ReadOnly(c)

-----------------------------------------------------------------------------

Lists(S) == UNION {[1 .. n -> S] : n \in 0 .. MaxBatch}

SingleCall(c) ==
    \/ \E k \in Keys, v \in Values : UpdateCall(c, k, v) \/ InsertNew(c, k, v) \/ Replace(c, k, v)
    \/ \E k \in Keys : DeleteCall(c, k)

Client(c) ==
    \/ SingleCall(c)
    \/ \E k \in Keys, v \in Values : InsertGet(c, k, v)
    \/ \E k \in Keys : RemoveGet(c, k)
    \/ \E op \in {"clear", "len"} : Iterate(c, op)
    \/ \E list \in Lists(Entry) : Batch(c, "insert_batch", list)
    \/ \E list \in Lists(Keys) : Batch(c, "remove_batch", list)
    \/ InsertUpdate(c) \/ InsertNext(c)
    \/ RemoveDelete(c) \/ RemoveNext(c)
    \/ NextKey(c) \/ NoNextKey(c) \/ BatchReturns(c)

Next ==
    \/ \E c \in Clients : Client(c)
    \/ \E k \in Keys : Program(k)
    \/ Freeze

Spec == Init /\ [][Next]_vars

-----------------------------------------------------------------------------

\* The types.  The map holds a key once and never more than max_entries, and
\* remove is about to delete only what it has found.
TypeOK ==
    /\ entries \in Seq(Entry)
    /\ Cardinality(Present) = Len(entries) /\ Len(entries) <= maxEntries
    /\ lru \in BOOLEAN
    /\ maxEntries \in Sizes
    /\ frozen \in BOOLEAN
    /\ call \in [Clients -> Calls]
    /\ touched \in [Clients -> SUBSET Keys]

\* Thread c returns from a call of several steps, with Ok.
Returns(c, ops) == call[c].op \in ops /\ call'[c].op = "idle"
ReturnsOk(c, ops) == Returns(c, ops) /\ call'[c].result \notin Errors

\* insert and remove read and write in two system calls.  As long as nobody else
\* writes or removes the same key in between, whatever happens to other keys, the
\* value they return is the one they have replaced or removed, and remove
\* does not fail for want of the key it has found.
ReturnsWhatItReplaced ==
    [][\A c \in Clients :
           Returns(c, {"insert", "remove"}) /\ call[c].key \notin touched[c] =>
               /\ ReturnsOk(c, {"insert", "remove"}) => call'[c].result = Lookup(call[c].key)
               /\ call'[c].result # "not_found"]_vars

\* A batch that returns Ok has done all of its items: what nobody else has
\* touched meanwhile is in the map with the last value it was given, or gone.
\* insert_batch on an LRU map is exempt: an item of the batch may evict one before it.
OkBatchIsComplete ==
    [][\A c \in Clients :
           /\ ReturnsOk(c, {"insert_batch"}) /\ ~ lru =>
                  LET list == call[c].list
                  IN  \A i \in DOMAIN list :
                          \/ list[i].key \in touched[c]
                          \/ \E j \in i + 1 .. Len(list) : list[j].key = list[i].key
                          \/ list[i] \in Range(entries')
           /\ ReturnsOk(c, {"remove_batch", "clear_batch"}) =>
                  Range(call[c].list) \cap Present' \subseteq touched[c]]_vars

\* Without others at work on the map clear succeeds, unless the map is frozen,
\* and leaves it empty, and len returns the number of entries.
UndisturbedIterationIsExact ==
    [][\A c \in Clients : touched[c] = {} =>
           /\ Returns(c, {"clear", "clear_batch"}) =>
                  \/ call'[c].result = "ok" /\ entries' = << >>
                  \/ call'[c].result = "denied" /\ frozen
           /\ Returns(c, {"len"}) => Len(call[c].got) = Len(entries)]_vars

\* Whatever others do to other keys, and although the iteration may repeat or
\* skip keys, a clear that returns Ok has removed every entry that nobody else
\* has touched since it began.
OkClearRemovesUntouched ==
    [][\A c \in Clients :
           ReturnsOk(c, {"clear", "clear_batch"}) => Present' \subseteq touched[c]]_vars

=============================================================================
