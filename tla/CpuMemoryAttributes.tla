------------------------ MODULE CpuMemoryAttributes ------------------------
(***************************************************************************)
(* Memory types of the platform: requests to the MTRR library in PEI, the  *)
(* CPU architectural protocol (CpuArchDxe/Cpu.c) that passes them on in    *)
(* DXE, its copy mMtrrTable of the MTRRs, and the APs that load that copy, *)
(* first in the early initialisation of CpuMpDxe and then after every      *)
(* successful request.                                                     *)
(***************************************************************************)
EXTENDS MtrrLib

CONSTANTS
  AP,        \* the application processors
  Requests,  \* the requests: a range and a type each
  MaxCalls   \* bound on the number of requests

ASSUME RequestAssumption ==
  /\ Requests \subseteq [base : 0..(Space - 1), len : 1..Space, type : Types]
  /\ \A r \in Requests : r.base + r.len <= Space
  /\ MaxCalls \in Nat

VARIABLES
  phase,     \* "pei", "dxe" (protocol installed), "mp" (and CpuMpDxe started)
  bsp,       \* the MTRRs of the BSP: fixed and var
  mMtrrTable,
  ap,        \* the MTRRs of each AP
  enabled,   \* the APs that StartupAllAPs starts
  gcd,       \* the types in the GCD memory space map, as InitializeCpu leaves it
  followers, \* the APs that have loaded the latest mMtrrTable
  loose,     \* addresses of requests that have failed since the last successful one
  bared,     \* addresses that have lost their UC MTRRs to requests for others
  calls

vars == <<phase, bsp, mMtrrTable, ap, enabled, gcd, followers, loose, bared, calls>>

Addresses == 0..(Space - 1)
AddressesOf(r) == r.base..(r.base + r.len - 1)
Result(r) == MtrrSetMemoryAttribute(bsp, r.base, r.len, r.type)
(* The addresses that a UC MTRR covers.                                    *)
Uncached(var) == {a \in Addresses : \E i \in Registers : Covers(var[i], a) /\ var[i].type = "UC"}
Bare(r, new) == (Uncached(bsp.var) \ Uncached(new.var)) \ AddressesOf(r)
Zeroed == [fixed |-> [m \in Fixed |-> [i \in 0..(SubRanges - 1) |-> "UC"]],
           var |-> [i \in Registers |-> Unused]]

Init ==
  /\ phase = "pei" /\ bsp = Zeroed /\ mMtrrTable = Zeroed
  /\ ap = [p \in AP |-> Zeroed] /\ enabled = AP
  /\ gcd = [a \in Addresses |-> DefaultType]
  /\ followers = {} /\ loose = {} /\ bared = {} /\ calls = 0

(***************************************************************************)
(* RefreshGcdMemoryAttributes: the GCD map is painted with the default     *)
(* type, the WB MTRRs, the others, the UC ones, and the fixed MTRRs.       *)
(***************************************************************************)
SetGcdMemorySpaceAttributes(map, base, len, type) ==
  [a \in Addresses |-> IF base <= a /\ a < base + len THEN type ELSE map[a]]

(* One loop over the MTRRs of the firmware, for those of the types.        *)
PaintTypes(map, var, types) ==
  LET upTo[i \in 0..VariableMtrrCount] ==
        IF i = 0 THEN map
        ELSE IF var[i].on /\ var[i].type \in types
        THEN SetGcdMemorySpaceAttributes(upTo[i - 1], var[i].base, var[i].len, var[i].type)
        ELSE upTo[i - 1]
  IN upTo[GetFirmwareVariableMtrrCount]

(* Mutant: the UC MTRRs are painted first.                                 *)
PaintVariable_UcFirst(map, var) ==
  PaintTypes(PaintTypes(PaintTypes(map, var, {"UC"}), var, {"WB"}), var, Types \ {"WB", "UC"})

PaintVariable(map, var) ==
  PaintTypes(PaintTypes(PaintTypes(map, var, {"WB"}), var, Types \ {"WB", "UC"}), var, {"UC"})

(* Neighbouring ranges of one type are painted together.                   *)
Extended(s, m, i, type) ==
  LET len == FixedTable[m].len IN
  IF s.len = 0 THEN [s EXCEPT !.type = type, !.len = len]
  ELSE IF type = s.type THEN [s EXCEPT !.len = s.len + len]
  ELSE [map |-> SetGcdMemorySpaceAttributes(s.map, s.base, s.len, s.type),
        base |-> FixedTable[m].base + len * i, len |-> len, type |-> type]
PaintFixed(map, fixed) ==
  LET ranges == Len(FixedTable) * SubRanges
      upTo[k \in 0..ranges] ==
        IF k = 0 THEN [map |-> map, base |-> 0, len |-> 0, type |-> "none"]
        ELSE LET m == (k - 1) \div SubRanges + 1  i == (k - 1) % SubRanges
             IN Extended(upTo[k - 1], m, i, fixed[m][i])
      run == upTo[ranges]
  IN SetGcdMemorySpaceAttributes(run.map, run.base, run.len, run.type)

RefreshGcdMemoryAttributes(mtrrs) ==
  PaintFixed(PaintVariable([a \in Addresses |-> DefaultType], mtrrs.var), mtrrs.fixed)

(***************************************************************************)
(* Requests.                                                               *)
(***************************************************************************)
\* A module in PEI, where only the BSP runs.
PeiSetMemoryAttribute(r) ==
  LET result == Result(r) IN
  /\ phase = "pei"
  /\ calls < MaxCalls /\ calls' = calls + 1
  /\ bsp' = result.mtrrs /\ bared' = bared \cup Bare(r, result.mtrrs)
  /\ UNCHANGED <<phase, mMtrrTable, ap, enabled, gcd, followers, loose>>

(* What follows a successful request: the MTRRs are saved, and loaded by    *)
(* the APs that StartupAllAPs starts.  Before CpuMpDxe has started there is *)
(* no MP service to locate.                                                 *)
(* Mutant: the MTRRs are saved before the library has changed them.        *)
Synchronize_Early(mtrrs) ==
  /\ mMtrrTable' = bsp
  /\ ap' = [p \in AP |-> IF phase = "mp" /\ p \in enabled THEN bsp ELSE ap[p]]
  /\ followers' = IF phase = "mp" THEN enabled ELSE {}
Synchronize(mtrrs) ==
  /\ mMtrrTable' = mtrrs
  /\ ap' = [p \in AP |-> IF phase = "mp" /\ p \in enabled THEN mtrrs ELSE ap[p]]
  /\ followers' = IF phase = "mp" THEN enabled ELSE {}

(* SetMemoryAttributes, called by the DXE core.                            *)
SetMemoryAttributes(r) ==
  LET result == Result(r) IN
  /\ phase \in {"dxe", "mp"}
  /\ calls < MaxCalls /\ calls' = calls + 1
  /\ bsp' = result.mtrrs /\ bared' = bared \cup Bare(r, result.mtrrs)
  /\ IF result.status = "SUCCESS"
     THEN Synchronize(result.mtrrs) /\ loose' = {}
     ELSE /\ loose' = loose \cup {a \in AddressesOf(r) : a < BASE_1MB}
          /\ UNCHANGED <<mMtrrTable, ap, followers>>
  /\ UNCHANGED <<phase, enabled, gcd>>

(***************************************************************************)
(* The start of the two drivers, and the MP service that takes an AP out   *)
(* of StartupAllAPs or puts it back.                                       *)
(***************************************************************************)
InitializeCpu ==
  /\ phase = "pei" /\ phase' = "dxe"
  /\ gcd' = RefreshGcdMemoryAttributes(bsp)
  /\ mMtrrTable' = bsp
  /\ UNCHANGED <<bsp, ap, enabled, followers, loose, bared, calls>>

EarlyMpInit ==
  /\ phase = "dxe" /\ phase' = "mp"
  /\ mMtrrTable' = bsp /\ ap' = [p \in AP |-> mMtrrTable']
  /\ followers' = AP /\ loose' = {}
  /\ UNCHANGED <<bsp, enabled, gcd, bared, calls>>

EnableDisableAP(p) ==
  /\ phase = "mp"
  /\ enabled' = IF p \in enabled THEN enabled \ {p} ELSE enabled \cup {p}
  /\ UNCHANGED <<phase, bsp, mMtrrTable, ap, gcd, followers, loose, bared, calls>>

Next ==
  \/ \E r \in Requests : PeiSetMemoryAttribute(r) \/ SetMemoryAttributes(r)
  \/ InitializeCpu \/ EarlyMpInit
  \/ \E p \in AP : EnableDisableAP(p)

Spec == Init /\ [][Next]_vars
-----------------------------------------------------------------------------
(* RegistersLegal: every enabled variable MTRR is one the processor accepts *)
(* (a naturally aligned power of two inside memory), the reserved ones are  *)
(* left alone, and MTRRs that overlap have types whose overlap is defined,  *)
(* as CombineMemoryAttribute requires ("Other type memory overlap is        *)
(* invalid"), also after many requests that merged, split and replaced      *)
(* MTRRs, and in the excess of a range that is programmed from above.  Only *)
(* what a UC MTRR hid may come to light undefined, outside the range of the *)
(* request that the UC MTRR gives way to.                                   *)
WellFormed(r) == r.on => r.len \in Powers /\ r.base % r.len = 0 /\ MtrrEnd(r) < Space
OverlapDefined(var, a) ==
  LET types == {var[i].type : i \in {j \in Registers : Covers(var[j], a)}}
  IN "UC" \in types \/ types \subseteq {"WT", "WB"} \/ Cardinality(types) <= 1
RegistersLegal ==
  /\ \A i \in Registers : WellFormed(bsp.var[i]) /\ (bsp.var[i].on => i + Reserved <= VariableMtrrCount)
  /\ \A a \in Addresses \ bared : OverlapDefined(bsp.var, a)

(* ProcessorsAgree: an AP that is enabled and has taken part in the latest  *)
(* update sees at every address the type the BSP sees, whatever requests    *)
(* have failed since.  (Below 1MB a request that fails half-way leaves the  *)
(* fixed MTRRs of the BSP changed: those addresses are excepted.)           *)
ProcessorsAgree ==
  \A p \in enabled \cap followers : \A a \in Addresses \ loose :
    MtrrGetMemoryAttribute(ap[p], a) = MtrrGetMemoryAttribute(bsp, a)

(* RequestHonoured: when the next request, whichever it is, reports success, *)
(* its range has the requested type, unless an MTRR of a stronger type that *)
(* was there before, and does not match the range exactly, still covers the *)
(* address.                                                                 *)
Stronger(t1, t2) == t1 # t2 /\ MtrrPrecedence(t1, t2) = t1
Overruled(r, new, a) ==
  \E i \in Registers : new[i] = bsp.var[i] /\ Covers(new[i], a) /\ Stronger(new[i].type, r.type)
RequestHonoured ==
  \A r \in Requests :
    LET result == Result(r)
    IN result.status = "SUCCESS" =>
         \A a \in AddressesOf(r) :
           \/ MtrrGetMemoryAttribute(result.mtrrs, a) = r.type
           \/ a >= BASE_1MB /\ Overruled(r, result.mtrrs.var, a)

(* NeighboursKept: a request changes no address outside its range, except   *)
(* that memory behind an MTRR of the requested type, which it is merged     *)
(* with, may lose the MTRR of a stronger type that hid it, and that the     *)
(* excess of a range programmed from above becomes uncached.  Memory whose  *)
(* overlap is undefined has no type to keep: what the library reads there   *)
(* depends on the order of the MTRRs.                                       *)
Kept(r, new, a) ==
  LET before == MtrrGetMemoryAttribute(bsp, a)
      after == MtrrGetMemoryAttribute(new, a)
  IN \/ after = before
     \/ Stronger(before, r.type) /\ \E i \in Registers : Covers(bsp.var[i], a) /\ bsp.var[i].type = r.type
     \/ after = "UC" /\ \E i \in Registers : /\ new.var[i] # bsp.var[i] /\ new.var[i].type = r.type
                                             /\ Covers(new.var[i], a)
NeighboursKept ==
  \A r \in Requests : LET new == Result(r).mtrrs IN
    \A a \in Addresses \ AddressesOf(r) : a < BASE_1MB \/ OverlapDefined(bsp.var, a) => Kept(r, new, a)

(* GcdAgrees: the map that InitializeCpu paints from the MTRRs in an order  *)
(* of its own gives every address the type the precedence rules give it,    *)
(* where they give one.                                                     *)
GcdAgrees == [][phase = "pei" /\ phase' = "dxe" =>
                  \A a \in Addresses \ bared : gcd'[a] = MtrrGetMemoryAttribute(bsp, a)]_vars
=============================================================================
