-------------------------------- MODULE Ring --------------------------------
(***************************************************************************)
(* The ring of apps/buffering.c: its offset arithmetic and the room a new  *)
(* handle needs or a handle has to move in.  All sizes and offsets are     *)
(* counted in one unit; none of the sums comes near the width of size_t.   *)
(***************************************************************************)
EXTENDS Integers

CONSTANTS BufLen,       \* buffer_len
          StructAlign,  \* alignof(struct memory_handle)
          StorageAlign, \* CACHEALIGN_SIZE where STORAGE_WANTS_ALIGN, else 1
          MinMove,      \* MIN_MOVE_DELTA
          HandleSize    \* size of a handle's struct with its path

ASSUME RingAssumption ==
    /\ {BufLen, StructAlign, StorageAlign, MinMove, HandleSize} \subseteq Nat \ {0}
    /\ BufLen % StorageAlign = 0 /\ StorageAlign % StructAlign = 0
    /\ HandleSize % StructAlign = 0 /\ MinMove <= HandleSize
    /\ HandleSize < BufLen

Offsets == 0 .. BufLen - 1

\* ringbuf_add, for p below BufLen and v at most BufLen.
RingAdd(p, v) == IF p + v >= BufLen THEN p + v - BufLen ELSE p + v

\* ringbuf_sub_empty: p = v is an empty range.
SubEmpty(p, v) == IF p < v THEN p + BufLen - v ELSE p - v

\* ringbuf_sub_full: p = v is the whole ring.
SubFull(p, v) == IF p <= v THEN p + BufLen - v ELSE p - v

\* ringbuf_add_cross_empty and _full: how far p1 + v passes p2.
CrossEmpty(p1, v, p2) == IF p1 >= p2 THEN p1 + v - p2 - BufLen ELSE p1 + v - p2
CrossFull(p1, v, p2) == IF p1 > p2 THEN p1 + v - p2 - BufLen ELSE p1 + v - p2

AlignDown(x) == x - (x % StructAlign)
AlignUp(x) == AlignDown(x + StructAlign - 1)

\* STORAGE_PAD and STORAGE_OVERLAP
StoragePad(x) == x + StorageAlign - 1
StorageOverlap(x) == x % StorageAlign

\* A slip that Past could have made: a full ring taken for an empty one.
PastIfEmpty(widx, needed, any, ridx) == CrossEmpty(widx, needed, ridx)

\* add_handle: how far `needed' from widx goes past the first handle, if any.
Past(widx, needed, any, ridx) ==
    IF any THEN CrossFull(widx, needed, ridx) ELSE CrossEmpty(widx, needed, ridx)

(***************************************************************************)
(* add_handle: where the struct of a handle with `size' of data goes when  *)
(* the next free place is widx and the first handle's struct is at ridx    *)
(* (any reports whether there is one): [fits, index].                      *)
(***************************************************************************)
Placement(widx, any, ridx, size, canWrap, allocAll) ==
    LET aligned == RingAdd(widx, AlignUp(widx) - widx)
        index == IF \/ aligned + HandleSize > BufLen
                    \/ (~canWrap /\ aligned + HandleSize + size > BufLen)
                 THEN 0 ELSE aligned
        needed == SubEmpty(index, widx) + HandleSize + size
        overlap == Past(widx, needed, any, ridx)
    IN  [fits |-> overlap <= 0 \/ (~allocAll /\ overlap <= size), index |-> index]

(***************************************************************************)
(* move_handle: how far a struct at `pos' and `size' of its data move when *)
(* there is room for delta; 0 if they stay.  Neither the struct nor data   *)
(* that cannot wrap may come to lie across the ring's end.                 *)
(***************************************************************************)
MoveDelta(pos, size, canWrap, delta) ==
    LET wanted == AlignDown(delta)
        past == CrossFull(RingAdd(pos, wanted), HandleSize + size, BufLen)
        back == IF past <= 0 THEN 0
                ELSE IF ~canWrap THEN AlignUp(past)
                ELSE IF past > size THEN AlignUp(past - size) ELSE 0
    IN  IF wanted < back + MinMove THEN 0 ELSE wanted - back

\* memmove of n cells within the ring's memory
MemMove(m, dst, src, n) ==
    [i \in DOMAIN m |-> IF dst <= i /\ i < dst + n THEN m[i - dst + src] ELSE m[i]]

(***************************************************************************)
(* move_handle: its three memmoves, for a struct at `pos' with `size' of   *)
(* data that moves by delta # 0.  Here past and pastOld are how much of    *)
(* it lies beyond the ring's end after and before.                         *)
(***************************************************************************)
Moved(m, pos, size, delta) ==
    LET to == RingAdd(pos, delta)
        past == CrossFull(to, HandleSize + size, BufLen)
        pastOld == CrossFull(pos, HandleSize + size, BufLen)
        m1 == IF pastOld > 0 THEN MemMove(m, delta, 0, pastOld) ELSE m
        n1 == HandleSize + size - (IF pastOld > 0 /\ past <= 0 THEN pastOld ELSE 0)
        n2 == IF past > 0 THEN n1 - past ELSE n1
        m2 == IF past > 0
              THEN MemMove(m1, 0, pos + n2, IF pastOld > 0 THEN delta ELSE past)
              ELSE m1
    IN  MemMove(m2, to, pos, n2)
=============================================================================
