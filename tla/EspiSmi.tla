------------------------------- MODULE EspiSmi -------------------------------
(***************************************************************************)
(* The eSPI SMI dispatch protocol (PchSmiDispatcher/Smm/PchSmmEspi.c), a   *)
(* second level of dispatch below two records of the PCH dispatcher: one   *)
(* list of children per eSPI event, counters that decide when an event and *)
(* its parent are disabled, the error registers with their write-one-to-   *)
(* clear status bits, the callback that walks the events, the recovery     *)
(* from fatal link errors, and the slave SMI handler, which goes to the    *)
(* PCH dispatcher directly.                                                *)
(***************************************************************************)
EXTENDS Naturals, Sequences, FiniteSets, SequencesExt

CONSTANTS
  Handle,     \* the handles of the children
  Default,    \* the handle of the default handler, which InstallEspiSmi drops
  Types,      \* the events that children register for
  SlaveCount, \* 2 for PchH, else 1
  TcoChild,   \* some other child of the PCH dispatcher keeps SMI_EN.TCO set
  MaxEvents,  \* bound on hardware events
  MaxOps      \* bound on operations of the children

-----------------------------------------------------------------------------
(* ESPI_SMI_TYPE, in the order of the enumeration, and the top level types *)
(* with the ranges of Barrier.                                             *)
ESPI_SMI_TYPE ==
  <<"BiosWrProtect", "BiosWrReport", "PcNonFatalErr", "PcFatalErr", "VwNonFatalErr",
    "VwFatalErr", "FlashNonFatalErr", "FlashFatalErr", "LnkType1Err", "EspiSlaveSmi">>
AllTypes == Range(ESPI_SMI_TYPE)
TopLevel == {"EspiBiosWrProtect", "EspiSerialIrq", "EspiPmc"}
Barrier == [EspiBiosWrProtect |-> 1..1, EspiSerialIrq |-> 2..9, EspiPmc |-> 10..10]
TypesOf(top) == {ESPI_SMI_TYPE[i] : i \in Barrier[top]}
TopOf(t) == CHOOSE top \in TopLevel : t \in TypesOf(top)

Slaves == 0..(SlaveCount - 1)

ASSUME EspiAssumption ==
  /\ Types \subseteq AllTypes \ {"EspiSlaveSmi"}
  /\ Default \notin Handle
  /\ SlaveCount \in 1..2
  /\ TcoChild \in BOOLEAN /\ MaxEvents \in Nat /\ MaxOps \in Nat

(* The error registers: a register is the set of its bits that are set.    *)
(* W1C are the bits that a write of one clears.                            *)
Registers == {"PCBC", "PCERR", "VWERR", "FCERR", "LNKERR"}
W1C == {"BWRS", "BWPDS", "PCURD", "XNFES", "XFES", "LFET1S", "SLCRR"}
Enables == {"LE", "BWRE", "XNFEE", "XFEE", "LFET1E"}
(* The registers that slave s has a copy of that the code programs.        *)
HasRegister(s, r) == s = 0 \/ r \in {"PCERR", "VWERR", "LNKERR"}

(* mEspiDescriptor: the register, its status and enable bit, and the bits  *)
(* that ClearStatusAndMask takes out.                                      *)
Descriptor(r, s, e, mask) == [reg |-> r, sts |-> s, en |-> e, mask |-> mask]
mEspiDescriptor ==
  [BiosWrProtect    |-> Descriptor("PCBC", "BWPDS", "LE", {"BWRS"}),
   BiosWrReport     |-> Descriptor("PCBC", "BWRS", "BWRE", {"BWPDS"}),
   PcNonFatalErr    |-> Descriptor("PCERR", "XNFES", "XNFEE", {"PCURD", "XFES"}),
   PcFatalErr       |-> Descriptor("PCERR", "XFES", "XFEE", {"PCURD", "XNFES"}),
   VwNonFatalErr    |-> Descriptor("VWERR", "XNFES", "XNFEE", {"XFES"}),
   VwFatalErr       |-> Descriptor("VWERR", "XFES", "XFEE", {"XNFES"}),
   FlashNonFatalErr |-> Descriptor("FCERR", "XNFES", "XNFEE", {"XFES"}),
   FlashFatalErr    |-> Descriptor("FCERR", "XFES", "XFEE", {"XNFES"}),
   LnkType1Err      |-> Descriptor("LNKERR", "LFET1S", "LFET1E", {"SLCRR"})]

(* The bits of register r after PchPcrAndThenOr32 or MmioAndThenOr32 with  *)
(* the bits of mask taken out and those of set put in.                     *)
AndThenOr(bits, mask, set) ==
  LET v == (bits \ mask) \cup set IN (v \cap Enables) \cup ((bits \cap W1C) \ v)

VARIABLES
  db,      \* CallbackDataBase: the list of children of each event
  counter, \* EspiSmiEventCounter
  handle,  \* the top level types whose PchSmiEspiHandle is not NULL
  reg,     \* the error registers of each slave
  smiLock, \* ESPI_SMI_LOCK
  lock,    \* mReadyToLock
  pc,      \* "os", "scan", "callback", or "reset" after a warm reset
  loc,     \* EspiSmiCallback: top level type, EspiSmiType, child called, LinkInDb
  owed,    \* events of slave 0 not yet passed to the children of their type
  events, ops

vars == <<db, counter, handle, reg, smiLock, lock, pc, loc, owed, events, ops>>

None == "none"
NoWalk == [top |-> None, type |-> 0, cur |-> None, next |-> None]

Bits(s, t) == reg[s][mEspiDescriptor[t].reg]
Pending(s, t) == {mEspiDescriptor[t].sts, mEspiDescriptor[t].en} \subseteq Bits(s, t)

(* EspiSmiSourceIsActive looks at the registers of slave 0 only.           *)
EspiSmiSourceIsActive(t) == Pending(0, t)

-----------------------------------------------------------------------------
(* Register access.  Update changes register r of the slaves in ss.        *)
Update(g, ss, r, mask, set) ==
  [s \in Slaves |-> IF s \in ss THEN [g[s] EXCEPT ![r] = AndThenOr(@, mask, set)] ELSE g[s]]

(* EspiSmiClearStatus: slave 0 only.                                       *)
EspiSmiClearStatus(g, t) ==
  Update(g, {0}, mEspiDescriptor[t].reg, mEspiDescriptor[t].mask, {mEspiDescriptor[t].sts})

(* A faulty variant: the status bits are written back.                    *)
EspiSmiEnableSource_WritesBack(g, t) ==
  LET d == mEspiDescriptor[t]
  IN  Update(g, {s \in Slaves : HasRegister(s, d.reg)}, d.reg, {}, {d.en})

(* EspiSmiEnableSource: the status bits are masked out.                    *)
EspiSmiEnableSource(g, t) ==
  LET d == mEspiDescriptor[t]
  IN  Update(g, {s \in Slaves : HasRegister(s, d.reg)}, d.reg, W1C, {d.en})

(* EspiSmiDisableSource: BIOS write events are locked and stay enabled,    *)
(* and the mask for link errors leaves out the enable bit.                 *)
EspiSmiDisableSource(g, t) ==
  LET d == mEspiDescriptor[t]
      e == IF t \in {"BiosWrProtect", "BiosWrReport", "LnkType1Err"} THEN {} ELSE {d.en}
  IN  Update(g, {s \in Slaves : HasRegister(s, d.reg)}, d.reg, W1C \cup e, {})

-----------------------------------------------------------------------------
(* InstallEspiSmi registers EspiRecoverFromFatalError for link errors.     *)
Init ==
  LET clean == [s \in Slaves |-> [r \in Registers |-> {}]]
  IN  /\ db = [t \in AllTypes |-> IF t = "LnkType1Err" THEN <<Default>> ELSE <<>>]
      /\ counter = [t \in AllTypes |-> IF t = "LnkType1Err" THEN 1 ELSE 0]
      /\ handle = {"EspiSerialIrq"}
      /\ reg = EspiSmiEnableSource(clean, "LnkType1Err")
      /\ smiLock = FALSE /\ lock = FALSE
      /\ pc = "os" /\ loc = NoWalk
      /\ owed = {} /\ events = 0 /\ ops = 0

(* An event sets its status bit; a fatal link error also asks for the      *)
(* recovery of the link (SLCRR).  One that occurs while the children of    *)
(* its type are being called counts as part of the event they are called   *)
(* for, since its status goes with that one's.                             *)
Event(s, t) ==
  LET d == mEspiDescriptor[t]
      b == {d.sts} \cup (IF t = "LnkType1Err" THEN {"SLCRR"} ELSE {})
  IN  /\ pc # "reset" /\ events < MaxEvents
      /\ HasRegister(s, d.reg) /\ d.sts \notin Bits(s, t)
      /\ reg' = [reg EXCEPT ![s][d.reg] = @ \cup b]
      /\ owed' = IF s = 0 /\ db[t] # <<>> /\ ~(pc = "callback" /\ ESPI_SMI_TYPE[loc.type] = t) THEN owed \cup {t} ELSE owed
      /\ events' = events + 1
      /\ UNCHANGED <<db, counter, handle, smiLock, lock, pc, loc, ops>>

-----------------------------------------------------------------------------
(* Operations of the children, in entry points, SMI handlers and callbacks *)

MayCall == pc \in {"os", "callback"} /\ ops < MaxOps

InUse(h) == \E t \in AllTypes : h \in Range(db[t])

(* RegisterBiosWrProtectIfNull and RegisterSerialIrqIfNull, which may run  *)
(* out of memory, and InsertEspiRecord: the status of the event is cleared *)
(* and with it an event that its other children have not seen.             *)
Register(t, h) ==
  /\ MayCall /\ ~lock /\ ~InUse(h)
  /\ handle' = handle \cup {TopOf(t)}
  /\ db' = [db EXCEPT ![t] = Append(@, h)]
  /\ reg' = EspiSmiEnableSource(EspiSmiClearStatus(reg, t), t)
  /\ counter' = [counter EXCEPT ![t] = @ + 1]
  /\ owed' = owed \ {t}
  /\ ops' = ops + 1
  /\ UNCHANGED <<smiLock, lock, pc, loc, events>>

(* The pool runs out: for the parent's record nothing happens; for the     *)
(* child's record the parent, just inserted, stays.                        *)
RegisterFails(t) ==
  /\ MayCall /\ ~lock
  /\ handle' = handle \cup {TopOf(t)}
  /\ ops' = ops + 1
  /\ UNCHANGED <<db, counter, reg, smiLock, lock, pc, loc, owed, events>>

(* EspiSlaveSmiRegister                                                    *)
EspiSlaveSmiRegister ==
  /\ MayCall /\ ~lock /\ ~smiLock
  /\ handle' = handle \cup {"EspiPmc"}
  /\ smiLock' = TRUE
  /\ ops' = ops + 1
  /\ UNCHANGED <<db, counter, reg, lock, pc, loc, owed, events>>

(* A faulty variant: one event without children is enough.                *)
SafeToDisable_AnyEvent(cnt) == {top \in TopLevel : \E t \in TypesOf(top) : cnt[t] = 0}

(* The parents that EspiSmiUnRegister takes for unused.                    *)
SafeToDisable(cnt) == {top \in TopLevel : \A t \in TypesOf(top) : cnt[t] = 0}

(* EspiSmiUnRegister: the last child of an event disables it, and every    *)
(* parent without children is unregistered from the PCH dispatcher.  A     *)
(* callback that unregisters the child after it leaves the walk undefined. *)
EspiSmiUnRegister(h) ==
  \E t \in AllTypes :
    LET left == IF counter[t] = 0 THEN 0 ELSE counter[t] - 1
        cnt  == [counter EXCEPT ![t] = left]
    IN  /\ MayCall /\ ~lock
        /\ pc = "callback" => h # loc.next
        /\ \E i \in DOMAIN db[t] : db[t][i] = h /\ db' = [db EXCEPT ![t] = RemoveAt(@, i)]
        /\ counter' = cnt
        /\ reg' = IF counter[t] # 0 /\ left = 0 THEN EspiSmiDisableSource(reg, t) ELSE reg
        /\ handle' = handle \ SafeToDisable(cnt)
        /\ owed' = IF db'[t] = <<>> THEN owed \ {t} ELSE owed
        /\ ops' = ops + 1
        /\ UNCHANGED <<smiLock, lock, pc, loc, events>>

(* SmmReadyToLockCallback                                                  *)
SmmReadyToLock ==
  /\ pc = "os" /\ ~lock
  /\ lock' = TRUE
  /\ UNCHANGED <<db, counter, handle, reg, smiLock, pc, loc, owed, events, ops>>

-----------------------------------------------------------------------------
(* EspiSmiCallback, called by PchSmiTypeCallbackDispatcher.                *)

WalkUnchanged == UNCHANGED <<counter, handle, db, smiLock, lock, events, ops>>

(* An SMI is asserted for an enabled event of either slave; BIOS write     *)
(* protection reports through SMI_STS.TCO.                                 *)
SmiAsserted(top) ==
  /\ top = "EspiBiosWrProtect" => TcoChild
  /\ \E s \in Slaves : \E t \in TypesOf(top) : HasRegister(s, mEspiDescriptor[t].reg) /\ Pending(s, t)

EspiSmiCallback(top) ==
  /\ pc = "os" /\ top \in handle \ {"EspiPmc"} /\ SmiAsserted(top)
  /\ pc' = "scan"
  /\ loc' = [NoWalk EXCEPT !.top = top, !.type = CHOOSE i \in Barrier[top] : \A j \in Barrier[top] : i <= j]
  /\ UNCHANGED <<reg, owed>> /\ WalkUnchanged


(* The next event of the range that is active, and its first child; its    *)
(* status is cleared at once when it has none.  After the last event       *)
(* PchSmmCoreDispatcher goes on.                                           *)
Scan ==
  LET active == {i \in Barrier[loc.top] : i >= loc.type /\ EspiSmiSourceIsActive(ESPI_SMI_TYPE[i])}
      i      == CHOOSE a \in active : \A j \in active : a <= j
      t      == ESPI_SMI_TYPE[i]
  IN  /\ pc = "scan"
      /\ \/ /\ active = {}
            /\ pc' = "os" /\ loc' = NoWalk
            /\ UNCHANGED <<reg, owed>>
         \/ /\ active # {} /\ db[t] = <<>>
            /\ reg' = EspiSmiClearStatus(reg, t)
            /\ loc' = [loc EXCEPT !.type = i + 1]
            /\ UNCHANGED <<pc, owed>>
         \/ /\ active # {} /\ db[t] # <<>>
            /\ pc' = "callback"
            /\ loc' = [loc EXCEPT !.type = i, !.cur = Head(db[t]),
                                  !.next = IF Len(db[t]) > 1 THEN db[t][2] ELSE None]
            /\ owed' = owed \ {t}
            /\ UNCHANGED reg
      /\ WalkUnchanged

(* EspiRecoverFromFatalError for slave s: the channels are reset (left     *)
(* out), a non-fatal flash error leads to a warm reset or is cleared by    *)
(* writing the register back as it is, and SLCRR is cleared.               *)
Recover(s) ==
  LET flash  == s = 0 /\ "XNFES" \in reg[s]["FCERR"]
      linked == Update(reg, {s}, "LNKERR", {"LFET1S"}, {"SLCRR"})
  IN  /\ pc = "callback" /\ loc.cur = Default /\ "SLCRR" \in reg[s]["LNKERR"]
      /\ \/ /\ flash
            /\ pc' = "reset" /\ owed' = {}
            /\ UNCHANGED reg
         \/ /\ reg' = IF flash THEN Update(linked, {s}, "FCERR", {}, {"XNFES"}) ELSE linked
            /\ owed' = IF flash THEN owed \ {"FlashNonFatalErr"} ELSE owed
            /\ UNCHANGED pc
      /\ UNCHANGED loc /\ WalkUnchanged

(* The successor of child h in a list, or None.                            *)
NextNode(list, h) ==
  LET after == {i \in DOMAIN list : i > 1 /\ list[i - 1] = h}
  IN  IF after = {} THEN None ELSE list[CHOOSE i \in after : TRUE]

(* A callback returns and the next child, whose node was fetched before    *)
(* the call, is called; after the last child the status is cleared.        *)
CallbackReturn ==
  LET t == ESPI_SMI_TYPE[loc.type]
  IN  /\ pc = "callback"
      /\ loc.cur = Default => \A s \in Slaves : "SLCRR" \notin reg[s]["LNKERR"]
      /\ \/ /\ loc.next # None
            /\ loc' = [loc EXCEPT !.cur = loc.next, !.next = NextNode(db[t], loc.next)]
            /\ UNCHANGED <<pc, reg>>
         \/ /\ loc.next = None
            /\ reg' = EspiSmiClearStatus(reg, t)
            /\ loc' = [loc EXCEPT !.type = @ + 1, !.cur = None]
            /\ pc' = "scan"
      /\ UNCHANGED owed /\ WalkUnchanged

-----------------------------------------------------------------------------
Walk ==
  \/ \E top \in TopLevel : EspiSmiCallback(top)
  \/ Scan
  \/ \E s \in Slaves : Recover(s)
  \/ CallbackReturn

Children ==
  \/ \E t \in Types : RegisterFails(t) \/ \E h \in Handle : Register(t, h)
  \/ \E h \in Handle : EspiSmiUnRegister(h)
  \/ EspiSlaveSmiRegister
  \/ SmmReadyToLock

Next ==
  \/ Walk
  \/ Children
  \/ \E s \in Slaves : \E t \in Types \cup {"LnkType1Err"} : Event(s, t)

Spec == Init /\ [][Next]_vars

(* Callbacks return and SMIs are taken, of both parents.                   *)
FairSpec ==
  /\ Spec /\ WF_vars(Scan \/ CallbackReturn \/ \E s \in Slaves : Recover(s))
  /\ \A top \in TopLevel : SF_vars(EspiSmiCallback(top))

-----------------------------------------------------------------------------
(* A registered child can be reached: its event is enabled at every slave  *)
(* and the parent's record is in the PCH dispatcher's database; the        *)
(* counter EspiSmiUnRegister decides by is the number of children.         *)
ChildrenReachable ==
  \A t \in AllTypes :
    /\ counter[t] = Len(db[t])
    /\ db[t] # <<>> =>
         /\ TopOf(t) \in handle
         /\ \A s \in Slaves : HasRegister(s, mEspiDescriptor[t].reg) => mEspiDescriptor[t].en \in Bits(s, t)

(* An event that the children of its type have not seen is still shown by  *)
(* its status bit: the write-one-to-clear registers are shared by two      *)
(* events each, and enabling, disabling or clearing one event keeps the    *)
(* other (the masks of mEspiDescriptor, EspiSmiEnableSource and            *)
(* EspiSmiDisableSource).  Fatal flash errors are the exception:           *)
(* EspiRecoverFromFatalError writes their register back unmasked.          *)
NoEventLost == \A t \in owed \ {"FlashFatalErr"} : mEspiDescriptor[t].sts \in Bits(0, t)

(* Every event of slave 0 reaches the children registered for it, whatever *)
(* else is pending, registered or unregistered, fatal flash errors apart   *)
(* (EspiSmiCallback walks all events of its parent).  The instances bound  *)
(* the events, so: from some point on none is outstanding.                 *)
EventsServiced == <>[](owed \subseteq {"FlashFatalErr"})

(* Once the lock is set the slave handler stays registered:                *)
(* EspiSlaveSmiRegister promises to "lock down ESPI_SMI_LOCK bit after     *)
(* registration and prevent this handler from unregistration".  This does  *)
(* not hold: EspiSmiEventCounter of the slave event is never incremented,  *)
(* so that the next EspiSmiUnRegister of any child removes the handler.    *)
SlaveHandlerStays == smiLock => "EspiPmc" \in handle

=============================================================================
