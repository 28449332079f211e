------------------------------ MODULE MtrrLib ------------------------------
(***************************************************************************)
(* The MTRR library (Override/UefiCpuPkg/Library/MtrrLib/MtrrLib.c): how a *)
(* request for a memory type becomes contents of the fixed MTRRs, which    *)
(* cover the memory below 1MB, and of the variable MTRRs, each of which    *)
(* covers a naturally aligned power of two.  Addresses and lengths count   *)
(* pages.  MTRRs are supported and enabled.                                *)
(***************************************************************************)
EXTENDS Naturals, Sequences, FiniteSets

CONSTANTS
  AddressBits,   \* width of an address: memory has 2^AddressBits pages
  FixedTable,    \* mMtrrLibFixedMtrrTable: base and granularity of each fixed MTRR
  SubRanges,     \* ranges of a fixed MTRR (8)
  VariableMtrrCount, \* number of variable MTRRs
  Reserved,      \* how many of them are left to the OS
  DefaultType    \* the type of memory no MTRR covers

PowerOf2[k \in 0..(AddressBits + 1)] == IF k = 0 THEN 1 ELSE 2 * PowerOf2[k - 1]
Space == PowerOf2[AddressBits]
Fixed == DOMAIN FixedTable
FixedEnd(m) == FixedTable[m].base + SubRanges * FixedTable[m].len
BASE_1MB == FixedEnd(Len(FixedTable))

ASSUME MtrrAssumption ==
  /\ {AddressBits, SubRanges, VariableMtrrCount, Reserved} \subseteq Nat
  /\ FixedTable \in Seq([base : Nat, len : Nat \ {0}]) /\ Len(FixedTable) > 0
  /\ FixedTable[1].base = 0
  /\ \A m \in Fixed \ {1} : FixedTable[m].base = FixedEnd(m - 1)
  /\ BASE_1MB < Space /\ \E k \in 0..AddressBits : BASE_1MB = PowerOf2[k]

Types == {"UC", "WC", "WT", "WP", "WB"}
Registers == 1..VariableMtrrCount
GetFirmwareVariableMtrrCount == IF VariableMtrrCount < Reserved THEN 0 ELSE VariableMtrrCount - Reserved

(* A variable MTRR whose base and mask are zero.                           *)
Unused == [on |-> FALSE, base |-> 0, len |-> 0, type |-> "UC"]
MtrrEnd(r) == r.base + r.len - 1
Covers(r, a) == r.on /\ r.base <= a /\ a <= MtrrEnd(r)
Overlaps(r, start, end) == r.on /\ start <= MtrrEnd(r) /\ r.base <= end

(* MtrrGetMemoryAttributeInVariableMtrr: the enabled MTRRs of the firmware.*)
Shadowed(var) == {i \in 1..GetFirmwareVariableMtrrCount : var[i].on}

Larger(a, b) == IF a > b THEN a ELSE b
Smaller(a, b) == IF a < b THEN a ELSE b

(***************************************************************************)
(* Reading a type.                                                         *)
(***************************************************************************)
\* "none" is MTRR_CACHE_INVALID_TYPE, also the result of types that must not overlap.
MtrrPrecedence(t1, t2) ==
  IF t2 = "none" THEN t1
  ELSE IF t1 = "none" THEN t2
  ELSE IF "UC" \in {t1, t2} THEN "UC"
  ELSE IF t1 = t2 THEN t1
  ELSE IF {t1, t2} = {"WT", "WB"} THEN "WT" ELSE "none"

FixedType(fixed, a) ==
  LET m == CHOOSE n \in Fixed : FixedTable[n].base <= a /\ a < FixedEnd(n)
  IN fixed[m][(a - FixedTable[m].base) \div FixedTable[m].len]

VariableType(var, a) ==
  LET MtrrType[i \in 0..VariableMtrrCount] ==
        IF i = 0 THEN "none"
        ELSE IF Covers(var[i], a) THEN MtrrPrecedence(MtrrType[i - 1], var[i].type)
        ELSE MtrrType[i - 1]
      t == MtrrType[GetFirmwareVariableMtrrCount]
  IN IF t = "none" THEN DefaultType ELSE t

MtrrGetMemoryAttribute(mtrrs, a) ==
  IF a < BASE_1MB THEN FixedType(mtrrs.fixed, a) ELSE VariableType(mtrrs.var, a)

(***************************************************************************)
(* Programming the fixed MTRRs.  ProgramFixedMtrr sets the ranges of one   *)
(* MTRR; the loop around it leaves off at the first that is not aligned,   *)
(* with those before it in the working copy.                               *)
(***************************************************************************)
ProgramFixedMtrr(s, m, type) ==
  LET len == FixedTable[m].len
      ByteShift == (s.base - FixedTable[m].base) \div len
      n == Smaller(SubRanges - ByteShift, s.len \div len)
      rest == s.len - n * len
  IN IF ~(s.ok /\ s.len > 0 /\ FixedTable[m].base <= s.base /\ s.base < FixedEnd(m)) THEN s
     ELSE IF (s.base - FixedTable[m].base) % len # 0 \/ (ByteShift + n < SubRanges /\ rest # 0)
     THEN [s EXCEPT !.ok = FALSE]
     ELSE [s EXCEPT !.base = s.base + n * len, !.len = rest,
                    !.fixed = [s.fixed EXCEPT ![m] = [i \in 0..(SubRanges - 1) |->
                                  IF ByteShift <= i /\ i < ByteShift + n THEN type ELSE s.fixed[m][i]]]]

ProgramFixedMtrrs(fixed, base, len, type) ==
  LET upTo[m \in 0..Len(FixedTable)] ==
        IF m = 0 THEN [ok |-> TRUE, base |-> base, len |-> len, fixed |-> fixed]
        ELSE ProgramFixedMtrr(upTo[m - 1], m, type)
  IN upTo[Len(FixedTable)]

(***************************************************************************)
(* Looking at the variable MTRRs.                                          *)
(***************************************************************************)
(* Mutant: only the type at the start of the range is looked at.           *)
CheckMemoryAttributeMapped_AtStart(mtrrs, type, first, last) ==
  MtrrGetMemoryAttribute(mtrrs, Larger(first, BASE_1MB)) = type

(* CheckMemoryAttributeMapped: the range is cut at the ends of every MTRR  *)
(* that overlaps it, until what is left lies in the same MTRRs throughout. *)
CheckMemoryAttributeMapped(mtrrs, type, first, last) ==
  LET mapped[range \in (0..Space) \X (0..(2 * Space))] ==
        LET rest[i \in 0..VariableMtrrCount] ==
              IF i = 0 THEN [start |-> Larger(range[1], BASE_1MB), end |-> range[2], ok |-> TRUE]
              ELSE LET s == rest[i - 1]  r == mtrrs.var[i] IN
                   IF ~s.ok \/ ~Overlaps(r, s.start, s.end) THEN s
                   ELSE [start |-> Larger(s.start, r.base), end |-> Smaller(s.end, MtrrEnd(r)),
                         ok |-> /\ s.start < r.base => mapped[<<s.start, r.base - 1>>]
                                /\ s.end > MtrrEnd(r) => mapped[<<MtrrEnd(r) + 1, s.end>>]]
            common == rest[GetFirmwareVariableMtrrCount]
        IN common.ok /\ MtrrGetMemoryAttribute(mtrrs, common.start) = type
  IN mapped[<<first, last>>]

(* CombineMemoryAttribute: MTRRs of the same type are merged with the      *)
(* request, those of another type that match it exactly give way to it.    *)
(* Mutant: any two types may overlap.                                      *)
Combined_AnyOverlap(s, i, r, type) ==
  IF i \notin s.valid \/ ~Overlaps(r, s.start, s.end) THEN s
  ELSE IF r.type = type /\ r.base <= s.start /\ s.end <= MtrrEnd(r) THEN [s EXCEPT !.covered = TRUE]
  ELSE IF r.base = s.start /\ MtrrEnd(r) = s.end THEN [s EXCEPT !.valid = s.valid \ {i}]
  ELSE [s EXCEPT !.over = TRUE]

Combined(s, i, r, type) ==
  IF s.denied \/ i \notin s.valid \/ ~Overlaps(r, s.start, s.end) THEN s
  ELSE IF r.type = type
  THEN IF r.base <= s.start /\ s.end <= MtrrEnd(r) THEN [s EXCEPT !.covered = TRUE]
       ELSE [s EXCEPT !.valid = s.valid \ {i}, !.over = TRUE,
                      !.start = Smaller(s.start, r.base), !.end = Larger(s.end, MtrrEnd(r))]
  ELSE IF r.base = s.start /\ MtrrEnd(r) = s.end THEN [s EXCEPT !.valid = s.valid \ {i}]
  ELSE IF {type, r.type} = {"WT", "WB"} \/ "UC" \in {type, r.type} THEN [s EXCEPT !.over = TRUE]
  ELSE [s EXCEPT !.denied = TRUE]

CombineMemoryAttribute(var, type, first, last) ==
  LET upTo[i \in 0..VariableMtrrCount] ==
        IF i = 0 THEN [start |-> first, end |-> last, valid |-> Shadowed(var),
                       over |-> FALSE, covered |-> FALSE, denied |-> FALSE]
        ELSE Combined(upTo[i - 1], i, var[i], type)
  IN upTo[GetFirmwareVariableMtrrCount]

InvalidateMtrr(var, valid) == [i \in Registers |-> IF i \in Shadowed(var) \ valid THEN Unused ELSE var[i]]

(***************************************************************************)
(* Programming the variable MTRRs.                                         *)
(***************************************************************************)
Powers == {PowerOf2[k] : k \in 0..(AddressBits + 1)}
Power2MaxMemory(n) == CHOOSE p \in Powers : p <= n /\ n < 2 * p
Alignment(base) == CHOOSE p \in Powers : base % p = 0 /\ base % (2 * p) # 0
(* The loop that follows the alignment of the base while it fits: the      *)
(* lengths it takes off the range, of which len are left below end.        *)
Ascending(base0, len0) ==
  LET end == base0 + len0
      take[len \in 0..len0] ==
        IF len < end /\ Alignment(end - len) <= len
        THEN <<Alignment(end - len)>> \o take[len - Alignment(end - len)]
        ELSE <<>>
  IN take[len0]
(* The loop that takes off the largest power of two until nothing is left. *)
Descending(len0) ==
  LET take[len \in 0..len0] ==
        IF len = 0 THEN <<>> ELSE <<Power2MaxMemory(len)>> \o take[len - Power2MaxMemory(len)]
  IN take[len0]
(* The sum of the first n lengths.                                         *)
SumTo(lens, n0) == LET sum[n \in 0..Len(lens)] == IF n = 0 THEN 0 ELSE sum[n - 1] + lens[n] IN sum[n0]
Total(lens) == SumTo(lens, Len(lens))

GetMtrrNumberAndDirection(base, len) ==
  LET aligned == Ascending(base, len)
      rest == len - Total(aligned)
      Positive == Len(Descending(rest))
      Subtractive == 1 + Len(Descending(Power2MaxMemory(2 * rest) - rest))
  IN IF rest = 0 THEN [number |-> Len(aligned), positive |-> TRUE]
     ELSE [number |-> Len(aligned) + Smaller(Positive, Subtractive), positive |-> Positive <= Subtractive]

Mtrr(base, len, type) == [on |-> TRUE, base |-> base, len |-> len, type |-> type]
(* The blocks from base upwards or, below top, downwards.                  *)
Upwards(base, lens, type) ==
  [i \in DOMAIN lens |-> Mtrr(base + SumTo(lens, i - 1), lens[i], type)]
Downwards(top, lens, type) ==
  [i \in DOMAIN lens |-> Mtrr(top - SumTo(lens, i), lens[i], type)]

(* Mutant: the excess of the large block keeps its type.                   *)
Blocks_KeepExcess(base, len, type, positive) ==
  LET aligned == Ascending(base, len)
      base2 == base + Total(aligned)
      rest == len - Total(aligned)
  IN Upwards(base, aligned, type) \o
     (IF rest = 0 THEN <<>>
      ELSE IF positive THEN Upwards(base2, Descending(rest), type)
      ELSE <<Mtrr(base2, Power2MaxMemory(2 * rest), type)>>)

(* What the worker programs for a range, in order: either blocks that add  *)
(* up to it, or one that exceeds it and uncached ones for the excess.      *)
Blocks(base, len, type, positive) ==
  LET aligned == Ascending(base, len)
      base2 == base + Total(aligned)
      rest == len - Total(aligned)
      top == base2 + Power2MaxMemory(2 * rest)
  IN Upwards(base, aligned, type) \o
     (IF rest = 0 THEN <<>>
      ELSE IF positive THEN Upwards(base2, Descending(rest), type)
      ELSE <<Mtrr(base2, top - base2, type)>> \o Downwards(top, Descending(top - base2 - rest), "UC"))

(* Each goes to the next unused MTRR; there is no check that one is left.  *)
ProgramVariableMtrr(var, block) ==
  LET free == {i \in Registers : ~var[i].on}
  IN IF free = {} THEN var
     ELSE [var EXCEPT ![CHOOSE i \in free : \A j \in free : i <= j] = block]

ProgramVariableMtrrs(var, blocks) ==
  LET upTo[n \in 0..Len(blocks)] ==
        IF n = 0 THEN var ELSE ProgramVariableMtrr(upTo[n - 1], blocks[n])
  IN upTo[Len(blocks)]

(***************************************************************************)
(* MtrrSetMemoryAttribute: status and new contents.                        *)
(***************************************************************************)
SetVariable(mtrrs, base, len, type) ==
  LET var == mtrrs.var
      last == base + len - 1
      c == CombineMemoryAttribute(var, type, base, last)
      cleared == [mtrrs EXCEPT !.var = InvalidateMtrr(var, c.valid)]
      n == GetMtrrNumberAndDirection(c.start, c.end - c.start + 1)
      blocks == Blocks(c.start, c.end - c.start + 1, type, n.positive)
  IN IF CheckMemoryAttributeMapped(mtrrs, type, base, last) THEN [status |-> "SUCCESS", mtrrs |-> mtrrs]
     ELSE IF c.denied THEN [status |-> "ACCESS_DENIED", mtrrs |-> mtrrs]
     ELSE IF c.covered \/ (~c.over /\ type = DefaultType) THEN [status |-> "SUCCESS", mtrrs |-> cleared]
     ELSE IF Cardinality(c.valid) + n.number > GetFirmwareVariableMtrrCount
     THEN [status |-> "OUT_OF_RESOURCES", mtrrs |-> mtrrs]
     ELSE [status |-> "SUCCESS",
           mtrrs |-> [cleared EXCEPT !.var = ProgramVariableMtrrs(cleared.var, blocks)]]

MtrrSetMemoryAttribute(mtrrs, base, len, type) ==
  LET f == ProgramFixedMtrrs(mtrrs.fixed, base, len, type)
      fixed == [mtrrs EXCEPT !.fixed = f.fixed]
  IN IF len = 0 THEN [status |-> "INVALID_PARAMETER", mtrrs |-> mtrrs]
     ELSE IF base >= Space \/ len >= Space THEN [status |-> "UNSUPPORTED", mtrrs |-> mtrrs]
     ELSE IF ~f.ok THEN [status |-> "UNSUPPORTED", mtrrs |-> fixed]
     ELSE IF f.len = 0 THEN [status |-> "SUCCESS", mtrrs |-> fixed]
     \* what is below 1MB is decided by the fixed MTRRs: starting at 0 takes fewer MTRRs
     ELSE IF f.base = BASE_1MB THEN SetVariable(fixed, 0, f.len + BASE_1MB, type)
     ELSE SetVariable(fixed, f.base, f.len, type)
=============================================================================
