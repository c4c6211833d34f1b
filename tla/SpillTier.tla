----------------------------- MODULE SpillTier -----------------------------
(***************************************************************************)
(* The spill store under any order of puts and gets, with failing writes,  *)
(* files that disappear, and crashes of the process, between calls and in  *)
(* the middle of a write.                                                  *)
(***************************************************************************)
EXTENDS SpillStore, SequencesExt

CONSTANTS
    Hashes,      \* content hashes
    BlockBytes,  \* the length of an exported block
    TornWrites   \* whether a failed or interrupted write may leave part of a file

ASSUME TierAssumption == BlockBytes \in Nat \ {0} /\ TornWrites \in BOOLEAN /\ IsFiniteSet(Hashes)

VARIABLES
    store,   \* the SpillStore and the directory
    got      \* the last get: [hash, bytes], or NoBytes before any

vars == <<store, got>>

Bytes(h) == [data |-> h, len |-> BlockBytes]

Init ==
    /\ store = open(<<>>, <<>>)
    /\ got = NoBytes

\* What spill_evicted does with one exported block.
Put(h) ==
    /\ \E w \in {"ok", "error"} \cup (IF TornWrites THEN {"torn"} ELSE {}) :
          store' = put(store, h, Bytes(h), w)
    /\ UNCHANGED got

Get(h) ==
    LET r == get(store, h)
    IN  /\ got' = [hash |-> h, bytes |-> r.bytes]
        /\ store' = r.store

\* Something else deletes a file of the directory (external).
Deleted(h) ==
    /\ h \in DOMAIN store.files
    /\ store' = [store EXCEPT !.files = Dropped(@, {h})]
    /\ UNCHANGED got

\* The process ends and starts again with the files as they are.
Reopen(files) ==
    /\ \E order \in SetToSeqs(DOMAIN files) : store' = open(files, order)
    /\ got' = NoBytes

Restart == Reopen(store.files)

\* It ends while evict_ram is writing the oldest block in memory.
CrashWhileWriting ==
    /\ TornWrites
    /\ HasDir
    /\ store.ram_lru # <<>>
    /\ Reopen(Added(store.files, Head(store.ram_lru),
                    [data |-> Head(store.ram_lru), len |-> BlockBytes - 1]))

Next ==
    \/ \E h \in Hashes : Put(h) \/ Get(h) \/ Deleted(h)
    \/ Restart
    \/ CrashWhileWriting

Spec == Init /\ [][Next]_vars

----------------------------------------------------------------------------
(***************************************************************************)
(* Properties                                                              *)
(***************************************************************************)
Lengths == [h \in DOMAIN store.ram |-> store.ram[h].len]

Enumerates(q, S) == NoRepeats(q) /\ ToSet(q) = S

\* Both tiers count exactly what they hold, in lists that name each entry
\* once, and keep within their caps, so a long run neither leaks memory nor
\* stops spilling (evict_ram, evict_disk, forget_disk).
Accounting ==
    /\ store.ram_bytes = Total(store.ram_lru, Lengths)
    /\ store.disk_bytes = Total(store.disk_lru, store.disk)
    /\ Enumerates(store.ram_lru, DOMAIN store.ram)
    /\ Enumerates(store.disk_lru, DOMAIN store.disk)
    /\ store.ram_bytes <= RamMax
    /\ store.disk_bytes <= DiskMax

\* What get returns under a hash are bytes of the block put under it, through
\* moves between the tiers, lost files, short writes and restarts.
ReturnsOwn ==
    got # NoBytes => got.bytes = NoBytes \/ got.bytes.data = got.hash

\* What get returns is the whole block that was put under that hash, after
\* moves between the tiers, lost files and restarts: "a file left on disk by a
\* previous run of the same model is still valid" (spill.rs).
ReturnsWhole ==
    got # NoBytes => got.bytes = NoBytes \/ got.bytes = Bytes(got.hash)
=============================================================================
