----------------------------- MODULE SpillStore -----------------------------
(***************************************************************************)
(* The spill store of crates/vapi-cache/src/spill.rs: evicted blocks in    *)
(* host memory and, past its cap, in files, both least recently used       *)
(* first.  Like the pool it is one record, and its methods are operators.  *)
(*                                                                         *)
(* Bytes are a record [data, len]: what they encode and how many there     *)
(* are.  files is the directory itself, which outlives the process; disk   *)
(* is the store's index of it.  The counters of SpillStats that nothing    *)
(* reads back (hits, misses, writes, drops, errors) are left out.          *)
(***************************************************************************)
EXTENDS Lists, FiniteSets

CONSTANTS
    RamMax,    \* ram_max
    DiskMax,   \* disk_max; 0 turns the disk tier off (dir is None)
    NoBytes    \* None of get

ASSUME SpillAssumption == RamMax \in Nat /\ DiskMax \in Nat

HasDir == DiskMax > 0

Dropped(f, S) == [h \in DOMAIN f \ S |-> f[h]]
Added(f, h, v) == [x \in DOMAIN f \cup {h} |-> IF x = h THEN v ELSE f[x]]
Retained(q, h) == Without(q, {h})

----------------------------------------------------------------------------
\* One turn of evict_disk's loop: the oldest entry goes, its file with it.
DropOldest(s) ==
    LET h == Head(s.disk_lru)
    IN  [s EXCEPT !.disk_lru = Tail(@), !.files = Dropped(@, {h}), !.disk = Dropped(@, {h}),
                  !.disk_bytes = IF h \in DOMAIN s.disk THEN @ - s.disk[h] ELSE @]

\* A loop that pops an entry in every turn has no more turns than entries.
evict_disk(s) ==
    LET turn[n \in 0 .. Len(s.disk_lru)] ==
            IF n = 0 THEN s
            ELSE LET t == turn[n - 1]
                 IN  IF t.disk_bytes > DiskMax THEN DropOldest(t) ELSE t
    IN  turn[Len(s.disk_lru)]

(***************************************************************************)
(* open: every file of the directory is indexed, in whatever order the     *)
(* directory is read, and the oldest of that order go if there are too     *)
(* many.                                                                   *)
(***************************************************************************)
open(files, order) ==
    LET disk == IF HasDir THEN [h \in DOMAIN files |-> files[h].len] ELSE <<>>
        s == [ ram |-> <<>>, ram_lru |-> <<>>, ram_bytes |-> 0,
               disk |-> disk,
               disk_lru |-> IF HasDir THEN order ELSE <<>>,
               disk_bytes |-> IF HasDir THEN Total(order, disk) ELSE 0,
               files |-> files ]
    IN  IF HasDir THEN evict_disk(s) ELSE s

contains_hash(s, h) == h \in DOMAIN s.ram \/ h \in DOMAIN s.disk

(***************************************************************************)
(* One turn of evict_ram's loop.  write says how std::fs::write fares: a   *)
(* failed write is counted and the block is gone; it may leave part of a   *)
(* file behind.                                                            *)
(***************************************************************************)
\* Mutant of MoveToDisk: the newest block's bytes go under the oldest's name.
MoveWrongBytes(s, write) ==
    LET h     == Head(s.ram_lru)
        bytes == s.ram[s.ram_lru[Len(s.ram_lru)]]
        out   == [s EXCEPT !.ram = Dropped(@, {h}), !.ram_lru = Tail(@),
                           !.ram_bytes = @ - s.ram[h].len]
    IN  IF ~HasDir \/ bytes.len > DiskMax \/ write # "ok" THEN out
        ELSE evict_disk([out EXCEPT !.files = Added(@, h, bytes),
                                    !.disk = Added(@, h, bytes.len),
                                    !.disk_lru = Append(@, h),
                                    !.disk_bytes = @ + bytes.len])

MoveToDisk(s, write) ==
    LET h     == Head(s.ram_lru)
        bytes == s.ram[h]
        out   == [s EXCEPT !.ram = Dropped(@, {h}), !.ram_lru = Tail(@),
                           !.ram_bytes = @ - bytes.len]
        torn  == [data |-> bytes.data, len |-> bytes.len - 1]
    IN  IF h \notin DOMAIN s.ram THEN [s EXCEPT !.ram_lru = Tail(@)]
        ELSE IF ~HasDir \/ bytes.len > DiskMax \/ write = "error" THEN out
        ELSE IF write = "torn" THEN [out EXCEPT !.files = Added(@, h, torn)]
        ELSE evict_disk([out EXCEPT !.files = Added(@, h, bytes),
                                    !.disk = Added(@, h, bytes.len),
                                    !.disk_lru = Append(@, h),
                                    !.disk_bytes = @ + bytes.len])

evict_ram(s, write) ==
    LET turn[n \in 0 .. Len(s.ram_lru)] ==
            IF n = 0 THEN s
            ELSE LET t == turn[n - 1]
                 IN  IF t.ram_bytes > RamMax THEN MoveToDisk(t, write) ELSE t
    IN  turn[Len(s.ram_lru)]

put(s, h, bytes, write) ==
    IF contains_hash(s, h) \/ (bytes.len > RamMax /\ bytes.len > DiskMax) THEN s
    ELSE evict_ram([s EXCEPT !.ram = Added(@, h, bytes),
                             !.ram_lru = Append(@, h),
                             !.ram_bytes = @ + bytes.len], write)

\* Mutant of forget_disk: the bytes stay counted.
ForgetUncounted(s, h) ==
    [s EXCEPT !.disk = Dropped(@, {h}), !.disk_lru = Retained(@, h)]

forget_disk(s, h) ==
    [s EXCEPT !.disk = Dropped(@, {h}), !.disk_lru = Retained(@, h),
              !.disk_bytes = @ - s.disk[h]]

(***************************************************************************)
(* get: the bytes and the store after.  A disk hit stays on disk; a file   *)
(* that cannot be read is forgotten.                                       *)
(***************************************************************************)
get(s, h) ==
    IF h \in DOMAIN s.ram
    THEN [bytes |-> s.ram[h], store |-> [s EXCEPT !.ram_lru = Append(Retained(@, h), h)]]
    ELSE IF h \in DOMAIN s.disk
    THEN IF h \in DOMAIN s.files
         THEN [bytes |-> s.files[h], store |-> [s EXCEPT !.disk_lru = Append(Retained(@, h), h)]]
         ELSE [bytes |-> NoBytes, store |-> forget_disk(s, h)]
    ELSE [bytes |-> NoBytes, store |-> s]
=============================================================================
