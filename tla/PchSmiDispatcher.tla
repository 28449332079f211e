-------------------------- MODULE PchSmiDispatcher --------------------------
(***************************************************************************)
(* The PCH SMI dispatcher (PchSmiDispatcher/Smm): the database of child    *)
(* records, registration and unregistration, the enable and status bits of *)
(* the chipset, the dispatch loop PchSmmCoreDispatcher that runs inside an *)
(* SMI, the sleep transition, and the SMM control driver of the OS side    *)
(* (SmmControl/RuntimeDxe), which raises software SMIs and shares the      *)
(* SMI_EN register with the dispatcher.                                    *)
(*                                                                         *)
(* A DATABASE_RECORD lives in a cell of the SMM pool.  The cell keeps its  *)
(* content after SmmFreePool until a later allocation reuses it, which is  *)
(* what a read through a stale pointer returns.                            *)
(***************************************************************************)
EXTENDS Naturals, Sequences, FiniteSets, SequencesExt

CONSTANTS
  Slot,       \* pool cells large enough for a DATABASE_RECORD
  Sources,    \* the sources that children register for
  SwValues,   \* the values written to APM_CNT, 1 .. n
  EscapeCount, \* rounds of the dispatch loop in one SMI; 3 in the code
  SleepTypes, \* the sleep states the OS asks for: 1 for S1, 3 for S3 ...
  MaxEvents,  \* bound on hardware events, software SMIs and sleep requests
  MaxOps,     \* bound on operations of the children
  Freedoms    \* what the environment may do beyond the discipline below

(* The null pointer, and no source.                                        *)
None == 0
NoSource == "none"

ASSUME SlotAssumption == Slot \subseteq Nat \ {None} /\ Slot # {}
ASSUME BoundsAssumption == EscapeCount \in Nat \ {0} /\ MaxEvents \in Nat /\ MaxOps \in Nat
ASSUME ValuesAssumption == SwValues \subseteq Nat \ {0} /\ SleepTypes \subseteq 1..5

(***************************************************************************)
(* The discipline of the environment, each part of it given up by one      *)
(* element of Freedoms:                                                    *)
(*   "reuse"     the pool may hand out again, during the dispatch, the     *)
(*               cell of a record that was unregistered in its callback;   *)
(*   "interrupt" children change SMI_EN in an SMI that interrupted the     *)
(*               read-modify-write of the SMM control driver;              *)
(*   "loud"      children register, unregister, pause and resume while the *)
(*               status bit of their source is set;                        *)
(*   "orphans"   SMIs occur that no child is registered for;               *)
(*   "exhaust"   the pool runs out at a registration for one of Unchecked. *)
(***************************************************************************)
ASSUME FreedomsAssumption == Freedoms \subseteq {"reuse", "interrupt", "loud", "orphans", "exhaust"}

-----------------------------------------------------------------------------
(* Source descriptors: the enable bits, the status bit, whether the status *)
(* is reported through SMI_STS.TCO, whether SCI_EN masks the source, and   *)
(* the ClearSource function of the records that use the descriptor.        *)

SrcDesc(e, s, tco, sci, clear) == [en |-> e, sts |-> s, tco |-> tco, sci |-> sci, clear |-> clear]

SW_SOURCE_DESC == SrcDesc({"APMC"}, "APM", FALSE, FALSE, "default")
SX_SOURCE_DESC == SrcDesc({"ON_SLP_EN"}, "SLP", FALSE, FALSE, "default")
mTIMER_SOURCE_DESC_Periodic == SrcDesc({"PERIODIC"}, "PERIODIC", FALSE, FALSE, "timer")
mTIMER_SOURCE_DESC_Swsmi == SrcDesc({"SWSMI_TMR"}, "SWSMI_TMR", FALSE, FALSE, "timer")
mUSB1_LEGACY == SrcDesc({"LEGACY_USB"}, "LEGACY_USB", FALSE, FALSE, "default")
mUSB3_LEGACY == SrcDesc({"LEGACY_USB3"}, "LEGACY_USB3", FALSE, FALSE, "default")
(* For one pad of the GPIO.                                                *)
PCH_GPI_SOURCE_DESC_TEMPLATE == SrcDesc({"GPI_SMI_EN"}, "GPI_SMI_STS", FALSE, FALSE, "default")
mSrcDescMch == SrcDesc({"TCO"}, "DMISMI", TRUE, FALSE, "tco")
mSrcDescTcoTimeout == SrcDesc({"TCO"}, "TIMEOUT", TRUE, FALSE, "tco")
mSrcDescOsTco == SrcDesc({"TCO"}, "SW_TCO_SMI", TRUE, FALSE, "tco")
mSrcDescIntruderDet == SrcDesc({"TCO", "INTRD_SEL"}, "INTRD_DET", TRUE, FALSE, "tco")
mSrcDescSpiBiosWp == SrcDesc({"TCO", "BLE"}, "SYNC_SS", TRUE, FALSE, "spi")
mSrcDescLpcBiosWp == SrcDesc({"TCO", "LE"}, "BIOSWR", TRUE, FALSE, "tco")
mSrcDescNewCentury == SrcDesc({"TCO"}, "NEWCENTURY", TRUE, FALSE, "century")
PchPcieSmiRpHotPlugTemplate == SrcDesc({"HPME"}, "HPPDM", FALSE, FALSE, "default")
PchPcieSmiRpLinkActiveTemplate == SrcDesc({"HPME"}, "HPLAS", FALSE, FALSE, "default")
mSrcDescPme == SrcDesc({"PME"}, "PME", FALSE, TRUE, "default")
mSrcDescPmeB0 == SrcDesc({"PME_B0"}, "PME_B0", FALSE, TRUE, "default")
mSrcDescRtcAlarm == SrcDesc({"RTC"}, "RTC", FALSE, TRUE, "default")
mSrcDescTmrOverflow == SrcDesc({"TMROF"}, "TMROF", FALSE, TRUE, "default")
mSrcDescGpioUnlock == SrcDesc({"GPIO_UNLOCK"}, "GPIO_UNLOCK", FALSE, FALSE, "default")
mSrcDescSerialIrq == SrcDesc({}, "SERIRQ", FALSE, FALSE, "default")
mSrcDescMcSmi == SrcDesc({"MCSMI"}, "MCSMI", FALSE, FALSE, "default")
mSrcDescSmbus == SrcDesc({}, "SMBUS", FALSE, FALSE, "default")
(* Cleared by way of HSFSC.FDONE, which takes ASYNC_SS back.               *)
mSrcDescSpiAsyncSmi == SrcDesc({"ASE_BWP"}, "ASYNC_SS", FALSE, FALSE, "default")

(* The kind of register that holds an enable bit: the write protect bits   *)
(* BLE and LE are in the configuration space of the SPI and LPC devices.   *)
AddressType(b) ==
  CASE b \in {"BLE", "LE", "ASE_BWP", "HPME"} -> "PCIE"
    [] b = "INTRD_SEL"  -> "TCO"
    [] b = "GPI_SMI_EN" -> "GPIO"
    [] OTHER            -> "ACPI"

SourceNames ==
  {"Sw", "Sx", "Periodic", "Swsmi", "Usb1", "Usb3", "Gpi", "Mch",
   "TcoTimeout", "OsTco", "IntruderDet", "SpiWp", "LpcWp", "NewCentury",
   "HotPlug", "LinkActive", "Pme", "PmeB0", "RtcAlarm", "TmrOverflow",
   "GpioUnlock", "SerialIrq", "McSmi", "Smbus", "SpiAsync"}

Desc(k) ==
  CASE k = "Sw" -> SW_SOURCE_DESC
    [] k = "Sx" -> SX_SOURCE_DESC
    [] k = "Periodic" -> mTIMER_SOURCE_DESC_Periodic
    [] k = "Swsmi" -> mTIMER_SOURCE_DESC_Swsmi
    [] k = "Usb1" -> mUSB1_LEGACY
    [] k = "Usb3" -> mUSB3_LEGACY
    [] k = "Gpi" -> PCH_GPI_SOURCE_DESC_TEMPLATE
    [] k = "Mch" -> mSrcDescMch
    [] k = "TcoTimeout" -> mSrcDescTcoTimeout
    [] k = "OsTco" -> mSrcDescOsTco
    [] k = "IntruderDet" -> mSrcDescIntruderDet
    [] k = "SpiWp" -> mSrcDescSpiBiosWp
    [] k = "LpcWp" -> mSrcDescLpcBiosWp
    [] k = "NewCentury" -> mSrcDescNewCentury
    [] k = "HotPlug" -> PchPcieSmiRpHotPlugTemplate
    [] k = "LinkActive" -> PchPcieSmiRpLinkActiveTemplate
    [] k = "Pme" -> mSrcDescPme
    [] k = "PmeB0" -> mSrcDescPmeB0
    [] k = "RtcAlarm" -> mSrcDescRtcAlarm
    [] k = "TmrOverflow" -> mSrcDescTmrOverflow
    [] k = "GpioUnlock" -> mSrcDescGpioUnlock
    [] k = "SerialIrq" -> mSrcDescSerialIrq
    [] k = "McSmi" -> mSrcDescMcSmi
    [] k = "Smbus" -> mSrcDescSmbus
    [] k = "SpiAsync" -> mSrcDescSpiAsyncSmi

Timers == {"Periodic", "Swsmi"}
(* The sources of this instance: those of the children, and those that the *)
(* dispatcher deals with by itself.                                        *)
Source == Sources \cup Timers \cup {"Sw", "Sx", "NewCentury", "SerialIrq"}
(* Sources of the EFI protocols, registered with PchSmmCoreRegister; the   *)
(* others are of PchSmiDispatchType and closed by SmmReadyToLock.          *)
Standard == {"Sw", "Sx", "Usb1", "Usb3", "Gpi"} \cup Timers
(* The ones whose register functions clear and enable the source whatever  *)
(* PchSmiRecordInsert has returned.                                        *)
Unchecked == {"HotPlug", "LinkActive", "Pme", "PmeB0", "RtcAlarm", "TmrOverflow", "GpioUnlock",
              "SerialIrq", "McSmi", "Smbus"}
EnBits == UNION {Desc(k).en : k \in Source}
StsBits == {Desc(k).sts : k \in Source} \cup {"TCO"}
(* The enable bits that live in SMI_EN.                                    *)
SmiEnBits == {"APMC", "ON_SLP_EN", "TCO", "PERIODIC", "SWSMI_TMR", "LEGACY_USB", "LEGACY_USB3",
              "GPIO_UNLOCK", "MCSMI"}

ASSUME SourcesAssumption == Sources \subseteq SourceNames \ {"SerialIrq"}

(* A software SMI value, a sleep state, or 0 where a type has no context.  *)
Context == SwValues \cup SleepTypes \cup {0}
Record == [src : Source, ctx : Context]

(* The eSPI handler's record, also what an unused cell is taken to hold.   *)
Blank == [src |-> "SerialIrq", ctx |-> 0]

(* The local variables of PchSmmCoreDispatcher: EscapeCount, RecordInDb,   *)
(* RecordToExhaust, LinkToExhaust, ActiveSource, SmiStsValue (the sources  *)
(* that it reports, and its TCO bit) and SxChildWasDispatched.             *)
NoDispatch == [escape |-> 0, inDb |-> None, cur |-> None, next |-> None,
               active |-> NoSource, seen |-> {}, tco |-> FALSE, sx |-> FALSE]

VARIABLES
  db,     \* CallbackDataBase: the cells of the registered records, in order
  mem,    \* the content of every pool cell
  en,     \* the enable bits that are set
  sts,    \* the status bits that are set
  eos,    \* SMI_EN.EOS
  smi,    \* an SMI has been latched by the processors
  sci,    \* SCI_EN
  apm,    \* the value in APM_CNT
  slp,    \* SLP_TYP
  lock,   \* mReadyToLock
  pc,     \* where the SMI side is; "os" outside SMM
  loc,    \* the local variables of PchSmmCoreDispatcher
  os,     \* the SMM control driver: step of Activate and the value read from SMI_EN
  paused, \* the timers a child has paused and not resumed
  owed,   \* records whose event has occurred and whose callback has not run since
  late,   \* those of them that the search or the walk had passed when it occurred
  events, ops

hw == <<en, sts, eos, smi, sci, apm, slp>>
calls == <<owed, late>>
vars == <<db, mem, en, sts, eos, smi, sci, apm, slp, lock, pc, loc, os, paused, owed, late, events, ops>>

Registered(k) == \E i \in DOMAIN db : mem[db[i]].src = k
RecordsOf(k) == {c \in Range(db) : mem[c].src = k}

(* The children of the cells cs have been called, or wait for nothing.     *)
Settle(cs) == owed' = owed \ cs /\ late' = late \ cs

-----------------------------------------------------------------------------
(* The chipset.                                                            *)

(* SMI# is asserted while an enabled source has its status set.            *)
SmiAsserted(e, s) ==
  \/ {"TCO"} \subseteq e \cap s
  \/ \E k \in Source :
       Desc(k).sts \in s /\ ~Desc(k).tco /\ Desc(k).en \subseteq e /\ ~(Desc(k).sci /\ sci)

(* SMI_STS.TCO is latched: writing it clears it unless one of the TCO      *)
(* status registers still holds an event.                                  *)
ClearTcoSts(s) == IF \E k \in Source : Desc(k).sts \in s /\ Desc(k).tco THEN s ELSE s \ {"TCO"}

(* Faulty variants: every TCO status is cleared; SMI_STS.TCO is not.       *)
PchTcoSmiClearSource_ClearsAll(k, s) == s \ ({Desc(j).sts : j \in {i \in Source : Desc(i).tco}} \cup {"TCO"})
PchTcoSmiClearSource_KeepsSummary(k, s) == s \ {Desc(k).sts}

(* PchTcoSmiClearSource and PchTcoSpiWpClearSource: the status bit, then   *)
(* SMI_STS.TCO.                                                            *)
PchTcoSmiClearSource(k, s) == ClearTcoSts(s \ {Desc(k).sts})

PchSmmClearSource(k, s) == s \ {Desc(k).sts}

(* PchTcoClearNewCenturySts                                                *)
PchTcoClearNewCenturySts(s) ==
  IF Desc("NewCentury").sts \in s THEN PchTcoSmiClearSource("NewCentury", s) ELSE s

(* PchSmmPeriodicTimerProgramTimers, for the set ks of sources that the    *)
(* database holds: the SWSMI timer is disabled, cleared and enabled, the   *)
(* periodic timer cleared; a timer without children is disabled.           *)
ProgramTimersEn(ks, e) ==
  (e \ (UNION {Desc(k).en : k \in Timers \ ks})) \cup UNION {Desc(k).en : k \in {"Swsmi"} \cap ks}
ProgramTimersSts(ks, s) == s \ {Desc(k).sts : k \in Timers \cap ks}

-----------------------------------------------------------------------------
(* The state after InitializePchSmmDispatcher: SMIs cleared and EOS set    *)
(* (PchSmmInitHardware); InstallEspiSmi has registered the eSPI link error *)
(* handler under the SERIRQ source and dropped its handle.  The SMM core   *)
(* goes on, in SMM, to the entry points of other drivers.                  *)
Init ==
  /\ db = <<Min(Slot)>> /\ mem = [c \in Slot |-> Blank]
  /\ en = {"APMC"} /\ sts = {} /\ eos = TRUE /\ smi = FALSE /\ sci = FALSE
  /\ apm = 0 /\ slp = 0
  /\ lock = FALSE
  /\ pc = "rsm"
  /\ loc = NoDispatch
  /\ os = [pc |-> "idle", val |-> {}]
  /\ paused = {} /\ owed = {} /\ late = {} /\ events = 0 /\ ops = 0

-----------------------------------------------------------------------------
(* Hardware events and the SMM control driver.                             *)

(* The record of cell c is still ahead of the walk.                        *)
AheadOfWalk(c) ==
  /\ pc \in {"exhaust", "callback"} /\ loc.next # None
  /\ \E i, j \in DOMAIN db : db[i] = loc.next /\ db[j] = c /\ i <= j

(* The record of cell c has been found inactive in this round, although an *)
(* event of its source would still make a later record active.             *)
BehindSearch(c) ==
  /\ pc = "scan" /\ mem[c].src \in loc.seen
  /\ \E i, j \in DOMAIN db : db[i] = c /\ db[j] = loc.inDb /\ i < j

(* The walk over the records of c's source, whose status is cleared at its *)
(* end, has left c behind.                                                 *)
BehindWalk(c) ==
  pc \in {"exhaust", "callback", "clear"} /\ mem[c].src = loc.active /\ ~AheadOfWalk(c)

(* An event of source k sets its status bit, also when it is set already,  *)
(* and, for a TCO source, the summary bit; a timer ticks only while it is  *)
(* enabled.                                                                *)
Event(k) ==
  LET for == IF Desc(k).sci /\ sci THEN {} ELSE RecordsOf(k)
  IN  /\ pc # "asleep" /\ events < MaxEvents
      /\ "orphans" \in Freedoms \/ Registered(k) \/ k = "NewCentury"
      /\ k \in Timers => Desc(k).en \subseteq en
      /\ sts' = sts \cup {Desc(k).sts} \cup (IF Desc(k).tco THEN {"TCO"} ELSE {})
      /\ owed' = owed \cup for
      /\ late' = (late \ for) \cup {c \in for : BehindSearch(c) \/ BehindWalk(c)}
      /\ events' = events + 1
      /\ UNCHANGED <<db, mem, en, eos, smi, sci, apm, slp, lock, pc, loc, os, paused, ops>>

(* The OS side runs only outside SMM, and not past an SMI that is due.     *)
OsRuns == pc = "os" /\ ~smi /\ ~(eos /\ SmiAsserted(en, sts))

OsUnchanged == UNCHANGED <<db, mem, sci, slp, lock, pc, loc, paused, late, ops>>

(* A write of SMI_EN with the EOS bit set, outside SMM.                    *)
WriteSmiEn(v) == en' = (en \ SmiEnBits) \cup v

(* Activate -> SmmClear: drop a pending APM SMI.                           *)
ActivateClear ==
  /\ OsRuns /\ os.pc = "idle" /\ events < MaxEvents
  /\ sts' = sts \ {Desc("Sw").sts}
  /\ os' = [os EXCEPT !.pc = "readEos"]
  /\ events' = events + 1
  /\ UNCHANGED <<en, eos, smi, apm, owed>> /\ OsUnchanged

(* SmmClear and SmmTrigger both read SMI_EN into a local variable ...      *)
ActivateRead ==
  /\ OsRuns /\ os.pc \in {"readEos", "readApmc"}
  /\ os' = [pc |-> IF os.pc = "readEos" THEN "writeEos" ELSE "writeApmc", val |-> en \cap SmiEnBits]
  /\ UNCHANGED <<en, sts, eos, smi, apm, owed, events>> /\ OsUnchanged

(* ... SmmClear writes it back with EOS ...                                *)
ActivateWriteEos ==
  /\ OsRuns /\ os.pc = "writeEos"
  /\ WriteSmiEn(os.val) /\ eos' = TRUE
  /\ os' = [pc |-> "readApmc", val |-> {}]
  /\ UNCHANGED <<sts, smi, apm, owed, events>> /\ OsUnchanged

(* ... and SmmTrigger with APMC.                                           *)
ActivateWriteApmc ==
  /\ OsRuns /\ os.pc = "writeApmc"
  /\ WriteSmiEn(os.val \cup {"APMC"})
  /\ os' = [pc |-> "trigger", val |-> {}]
  /\ UNCHANGED <<sts, eos, smi, apm, owed, events>> /\ OsUnchanged

(* SmmTrigger writes the command to APM_CNT, which raises the SMI.         *)
ActivateTrigger(v) ==
  /\ OsRuns /\ os.pc = "trigger"
  /\ "orphans" \in Freedoms \/ Registered("Sw")
  /\ apm' = v /\ sts' = sts \cup {Desc("Sw").sts}
  /\ owed' = owed \cup {c \in RecordsOf("Sw") : mem[c].ctx = v}
  /\ os' = [os EXCEPT !.pc = "idle"]
  /\ UNCHANGED <<en, eos, smi, events>> /\ OsUnchanged

(* The OS writes SLP_TYP and SLP_EN with the sleep SMI enabled.            *)
OsSleep(t) ==
  /\ OsRuns /\ os.pc = "idle" /\ events < MaxEvents
  /\ Desc("Sx").en \subseteq en
  /\ "orphans" \in Freedoms \/ Registered("Sx")
  /\ slp' = t /\ sts' = sts \cup {Desc("Sx").sts}
  /\ owed' = owed \cup {c \in RecordsOf("Sx") : mem[c].ctx = t}
  /\ events' = events + 1
  /\ UNCHANGED <<db, mem, en, eos, smi, sci, apm, lock, pc, loc, os, paused, late, ops>>

-----------------------------------------------------------------------------
(* Operations of the children, in callbacks and in other SMI handlers.     *)

InHandler == pc \in {"smm", "callback", "rsm"} /\ ops < MaxOps

Quiet(k) == "loud" \in Freedoms \/ Desc(k).sts \notin sts

(* The SMI may have interrupted a read-modify-write of SMI_EN.             *)
MayWriteSmiEn == "interrupt" \in Freedoms \/ os.pc \notin {"writeEos", "writeApmc"}

(* SmmAllocatePool hands out the first of the cells without a live record. *)
FreeCells == {c \in Slot \ Range(db) :
                "reuse" \in Freedoms \/ pc # "callback" \/ c \notin {loc.inDb, loc.cur}}

(* SmiInputValueDuplicateCheck                                             *)
SmiInputValueDuplicateCheck(v) == \A c \in RecordsOf("Sw") : mem[c].ctx # v

(* The value a child gets when it leaves the choice to the dispatcher: the *)
(* first free one below MAXIMUM_SWI_VALUE, or none.                        *)
FreeSwValues == {v \in SwValues : SmiInputValueDuplicateCheck(v) /\ \E w \in SwValues : v < w}
FirstFreeSwValue == CHOOSE v \in FreeSwValues : \A w \in FreeSwValues : v <= w

(* The contexts that a registration for source k can end up with.          *)
Contexts(k) ==
  CASE k = "Sw" -> {v \in SwValues : SmiInputValueDuplicateCheck(v)}
                     \cup (IF FreeSwValues = {} THEN {} ELSE {FirstFreeSwValue})
    [] k = "Sx" -> SleepTypes
    [] OTHER    -> {0}

(* PchSmmCoreRegister and the register functions of PchSmiDispatch.c: the  *)
(* record is appended, its status cleared and its enable bits set.         *)
Register(k, x) ==
  LET c  == Min(FreeCells)
      ks == {k} \cup {mem[d].src : d \in Range(db)}
      s  == CASE Desc(k).clear = "timer"   -> ProgramTimersSts(ks, sts)
              [] Desc(k).clear = "century" -> PchTcoClearNewCenturySts(sts)
              [] Desc(k).clear = "spi"     -> PchTcoSmiClearSource(k, sts)
              [] OTHER                     -> PchSmmClearSource(k, sts)
      e  == IF Desc(k).clear = "timer" THEN ProgramTimersEn(ks, en) ELSE en
  IN  /\ InHandler /\ MayWriteSmiEn /\ Quiet(k)
      /\ k \notin Standard => ~lock
      /\ FreeCells # {} /\ x \in Contexts(k)
      /\ mem' = [mem EXCEPT ![c] = [src |-> k, ctx |-> x]]
      /\ db' = Append(db, c)
      /\ en' = e \cup Desc(k).en
      /\ sts' = PchSmmClearSource(k, s)
      /\ paused' = paused \ {k}
      /\ ops' = ops + 1
      /\ UNCHANGED <<eos, smi, sci, apm, slp, lock, pc, loc, os, owed, late, events>>

(* SmmAllocatePool fails: the record is not made.                          *)
RegisterFails(k) ==
  /\ InHandler /\ MayWriteSmiEn /\ Quiet(k)
  /\ k \notin Standard => ~lock
  /\ k \in Unchecked => "exhaust" \in Freedoms
  /\ FreeCells = {}
  /\ sts' = IF k \in Unchecked THEN PchSmmClearSource(k, sts) ELSE sts
  /\ en' = IF k \in Unchecked THEN en \cup Desc(k).en ELSE en
  /\ UNCHANGED <<db, mem, eos, smi, sci, apm, slp, lock, pc, loc, os, paused, owed, late, events, ops>>

(* PchTcoSmiUnRegister denies the request for a descriptor whose second    *)
(* enable bit is the write protect bit of SPI or LPC, in a register of     *)
(* type ACPI_ADDR_TYPE.  SmmReadyToLock is not looked at.                  *)
AccessDenied(k) == \E b \in Desc(k).en \cap {"BLE", "LE"} : AddressType(b) = "ACPI"

(* A faulty variant: shared enable bits are cleared.                       *)
UnRegister_ClearsShared(c) ==
  LET k    == mem[c].src
  IN  /\ InHandler /\ MayWriteSmiEn
      /\ k # "SerialIrq" /\ ~AccessDenied(k)
      /\ pc = "callback" => c # loc.next
      /\ Quiet(k) \/ (pc = "callback" /\ k = loc.active)
      /\ \E i \in DOMAIN db : db[i] = c /\ db' = RemoveAt(db, i)
      /\ en' = en \ Desc(k).en
      /\ Settle({c})
      /\ ops' = ops + 1
      /\ UNCHANGED <<mem, sts, eos, smi, sci, apm, slp, lock, pc, loc, os, paused, events>>

(* PchSmmCoreUnRegister, by way of the Unregister function of the child's  *)
(* protocol: the record leaves the list, and the enable bits that no       *)
(* remaining record uses are cleared; the cell is freed.  PchSmiUnRegister *)
(* does nothing for SpiAsync while BILD is set.  A callback that           *)
(* unregisters the record after its own leaves the walk undefined, and is  *)
(* left out.                                                               *)
UnRegister(c) ==
  LET k    == mem[c].src
      rest == Range(db) \ {c}
      used == UNION {Desc(mem[d].src).en : d \in rest}
  IN  /\ InHandler /\ MayWriteSmiEn
      /\ k # "SerialIrq" /\ ~AccessDenied(k)
      /\ pc = "callback" => c # loc.next
      /\ Quiet(k) \/ (pc = "callback" /\ k = loc.active)
      /\ \E i \in DOMAIN db : db[i] = c /\ db' = RemoveAt(db, i)
      /\ en' = en \ (Desc(k).en \ used)
      /\ Settle({c})
      /\ ops' = ops + 1
      /\ UNCHANGED <<mem, sts, eos, smi, sci, apm, slp, lock, pc, loc, os, paused, events>>

(* PchSmmPeriodicTimerControlPause disables the timer of the child ...     *)
Pause(k) ==
  /\ InHandler /\ MayWriteSmiEn
  /\ k \in Timers /\ Registered(k)
  /\ en' = en \ Desc(k).en
  /\ paused' = paused \cup {k}
  /\ Settle(RecordsOf(k))
  /\ ops' = ops + 1
  /\ UNCHANGED <<db, mem, sts, eos, smi, sci, apm, slp, lock, pc, loc, os, events>>

(* ... and PchSmmPeriodicTimerControlResume enables it and clears a tick.  *)
Resume(k) ==
  /\ InHandler /\ MayWriteSmiEn
  /\ k \in Timers /\ Registered(k)
  /\ Quiet(k) \/ (~(Desc(k).en \subseteq en) /\ ~(pc = "callback" /\ loc.active = k))
  /\ en' = en \cup Desc(k).en
  /\ sts' = PchSmmClearSource(k, sts)
  /\ paused' = paused \ {k}
  /\ ops' = ops + 1
  /\ UNCHANGED <<db, mem, eos, smi, sci, apm, slp, lock, pc, loc, os, owed, late, events>>

(* A software SMI handler switches the platform to or from ACPI mode.      *)
SwitchSci ==
  /\ pc = "callback" /\ loc.active = "Sw" /\ ops < MaxOps
  /\ sci' = ~sci
  /\ Settle({c \in owed : Desc(mem[c].src).sci})
  /\ ops' = ops + 1
  /\ UNCHANGED <<db, mem, en, sts, eos, smi, apm, slp, lock, pc, loc, os, paused, events>>

(* SmmReadyToLockCallback                                                  *)
SmmReadyToLock ==
  /\ pc = "smm" /\ ~lock
  /\ lock' = TRUE
  /\ UNCHANGED <<db, mem, hw, pc, loc, os, paused, calls, events, ops>>

-----------------------------------------------------------------------------
(* PchSmmCoreDispatcher.                                                   *)

DispatcherUnchanged == UNCHANGED <<db, mem, sci, apm, lock, os, paused, events, ops>>

(* The processors enter SMM: the PCH clears EOS as it asserts SMI#.        *)
SmiEntry ==
  /\ pc = "os"
  /\ smi \/ (eos /\ SmiAsserted(en, sts))
  /\ smi' = FALSE /\ eos' = FALSE
  /\ pc' = "smm"
  /\ UNCHANGED <<en, sts, slp, loc, calls>> /\ DispatcherUnchanged

(* The SMM core calls the dispatcher.                                      *)
Dispatch ==
  /\ pc = "smm"
  /\ loc' = [loc EXCEPT !.escape = EscapeCount, !.sx = FALSE]
  /\ pc' = IF db = <<>> THEN "rsm" ELSE "search"
  /\ UNCHANGED <<en, sts, eos, smi, slp, calls>> /\ DispatcherUnchanged

(* The status registers that SMI_STS reports with one bit for all of their *)
(* sources, next to the TCO status: GPE0_STS, PM1_STS and the root ports.  *)
StatusRegisters == {{"Pme", "PmeB0"}, {"RtcAlarm", "TmrOverflow"}, {"HotPlug", "LinkActive"}}

(* The bit of SMI_STS that stands for source k is set.                     *)
PmcSmiSts(k) ==
  IF Desc(k).tco THEN "TCO" \in sts
  ELSE \E j \in Source : Desc(j).sts \in sts /\ (j = k \/ {j, k} \in StatusRegisters)

(* A round of the loop begins: SMI_STS is cached.  What the search of the  *)
(* last round has passed is not late if its status is still set.           *)
Search ==
  /\ pc = "search"
  /\ loc' = [loc EXCEPT !.escape = @ - 1, !.inDb = db[1],
                        !.seen = {k \in Source : PmcSmiSts(k)}, !.tco = "TCO" \in sts]
  /\ pc' = "scan"
  /\ late' = {c \in late : Desc(mem[c].src).sts \notin sts}
  /\ UNCHANGED <<en, sts, eos, smi, slp, owed>> /\ DispatcherUnchanged

(* SourceIsActive: with the cached SMI_STS, and the status bit itself read *)
(* at each record.                                                         *)
SourceIsActive(k) ==
  /\ ~(Desc(k).sci /\ sci)
  /\ k \in loc.seen
  /\ Desc(k).en \subseteq en
  /\ Desc(k).sts \in sts

(* The record after cell c, or None at the end of the list.                *)
NextNode(c) ==
  LET after == {i \in DOMAIN db : i > 1 /\ db[i - 1] = c}
  IN  IF after = {} THEN None ELSE db[CHOOSE i \in after : TRUE]

(* Look at the next record; the first one whose source is active begins    *)
(* the walk.                                                               *)
Scan ==
  LET c == loc.inDb
      k == mem[c].src
      n == NextNode(c)
  IN  /\ pc = "scan"
      /\ \/ /\ SourceIsActive(k)
            /\ loc' = [loc EXCEPT !.next = c, !.cur = None, !.active = k, !.sx = @ \/ k = "Sx",
                                  !.seen = {}]
            /\ pc' = "exhaust"
         \/ /\ ~SourceIsActive(k) /\ n # None
            /\ loc' = [loc EXCEPT !.inDb = n]
            /\ pc' = "scan"
         \/ /\ ~SourceIsActive(k) /\ n = None
            /\ loc' = [loc EXCEPT !.inDb = None, !.seen = {}]
            /\ pc' = "eos"
      /\ UNCHANGED <<en, sts, eos, smi, slp, calls>> /\ DispatcherUnchanged

(* GetContext and CmpContext of the record's type.                         *)
ContextsMatch(r) == CASE r.src = "Sw" -> r.ctx = apm [] r.src = "Sx" -> r.ctx = slp [] OTHER -> TRUE

AfterRecord(n) == IF n = None THEN "clear" ELSE "exhaust"

(* Take the next record of the walk; its successor is fetched first.       *)
Exhaust ==
  LET c == loc.next
      n == NextNode(c)
      r == mem[c]
      call == r.src = loc.active /\ ContextsMatch(r)
  IN  /\ pc = "exhaust"
      /\ loc' = [loc EXCEPT !.cur = c, !.next = n]
      /\ pc' = IF call THEN "callback" ELSE AfterRecord(n)
      /\ Settle(IF call THEN {c} ELSE {})
      /\ UNCHANGED <<en, sts, eos, smi, slp>> /\ DispatcherUnchanged

(* A faulty variant: the first child called ends the walk.                 *)
CallbackReturn_First ==
  /\ pc = "callback"
  /\ loc' = [loc EXCEPT !.sx = @ \/ (loc.active \in Standard /\ mem[loc.cur].src = "Sx")]
  /\ pc' = "clear"
  /\ UNCHANGED <<en, sts, eos, smi, slp, calls>> /\ DispatcherUnchanged

(* The callback returns, and the type of its record is read once more.     *)
CallbackReturn ==
  /\ pc = "callback"
  /\ loc' = [loc EXCEPT !.sx = @ \/ (loc.active \in Standard /\ mem[loc.cur].src = "Sx")]
  /\ pc' = AfterRecord(loc.next)
  /\ UNCHANGED <<en, sts, eos, smi, slp, calls>> /\ DispatcherUnchanged

(* The source is cleared with the function of the record found first.      *)
ClearSource ==
  LET k  == loc.active
      f  == Desc(mem[loc.inDb].src).clear
      ks == {mem[d].src : d \in Range(db)}
  IN  /\ pc = "clear"
      /\ sts' = CASE f = "default" -> PchSmmClearSource(k, sts)
                  [] f \in {"tco", "spi"} -> PchTcoSmiClearSource(k, sts)
                  [] f = "century" -> PchTcoClearNewCenturySts(sts)
                  [] f = "timer"   -> ProgramTimersSts(ks, sts)
      /\ en' = IF f = "timer" THEN ProgramTimersEn(ks, en) ELSE en
      /\ pc' = "eos"
      /\ loc' = [NoDispatch EXCEPT !.escape = loc.escape, !.tco = loc.tco, !.sx = loc.sx]
      /\ UNCHANGED <<db, mem, eos, smi, sci, apm, slp, lock, os, paused, calls, events, ops>>

(* NEWCENTURY is dropped, and EOS set: it reads back as zero when the PCH  *)
(* has asserted SMI# again for a source that is still pending.             *)
PchSmmSetAndCheckEos ==
  /\ pc = "eos"
  /\ sts' = IF loc.tco THEN PchTcoClearNewCenturySts(sts) ELSE sts
  /\ eos' = ~SmiAsserted(en, sts') /\ smi' = (smi \/ ~eos')
  /\ \/ /\ ~eos' /\ loc.escape > 0
        /\ pc' = "search" /\ loc' = [loc EXCEPT !.tco = FALSE]
     \/ /\ eos' \/ loc.escape = 0
        /\ pc' = IF loc.sx THEN "sleep" ELSE "rsm"
        /\ loc' = NoDispatch
  /\ UNCHANGED <<en, slp, calls>> /\ DispatcherUnchanged

(* PchSmmSxGoToSleep: from S1 execution resumes with the sleep SMI cleared *)
(* and enabled again; from the other states it does not.                   *)
PchSmmSxGoToSleep ==
  /\ pc = "sleep"
  /\ sts' = PchSmmClearSource("Sx", sts)
  /\ en' = IF slp = 1 THEN en \cup Desc("Sx").en ELSE en \ Desc("Sx").en
  /\ slp' = IF slp = 1 /\ ~sci THEN 0 ELSE slp
  /\ pc' = IF slp = 1 THEN "rsm" ELSE "asleep"
  /\ Settle(IF slp = 1 THEN {} ELSE owed)
  /\ UNCHANGED <<eos, smi, loc>> /\ DispatcherUnchanged

(* The processors leave SMM.  Nothing points into freed cells any more.    *)
Rsm ==
  /\ pc = "rsm"
  /\ pc' = "os"
  /\ mem' = [c \in Slot |-> IF c \in Range(db) THEN mem[c] ELSE Blank]
  /\ UNCHANGED <<db, hw, lock, loc, os, paused, calls, events, ops>>

-----------------------------------------------------------------------------
Dispatcher == SmiEntry \/ Dispatch \/ Search \/ Scan \/ Exhaust \/ CallbackReturn \/ ClearSource
                \/ PchSmmSetAndCheckEos \/ PchSmmSxGoToSleep \/ Rsm

Children ==
  \/ \E k \in Sources : RegisterFails(k) \/ \E x \in Context : Register(k, x)
  \/ \E c \in Slot : UnRegister(c)
  \/ \E k \in Timers : Pause(k) \/ Resume(k)
  \/ SwitchSci
  \/ SmmReadyToLock

Environment ==
  \/ \E k \in (Sources \ {"Sw", "Sx"}) \cup {"NewCentury"} : Event(k)
  \/ ActivateClear \/ ActivateRead \/ ActivateWriteEos \/ ActivateWriteApmc
  \/ \E v \in SwValues : ActivateTrigger(v)
  \/ \E t \in SleepTypes : OsSleep(t)

Next == Dispatcher \/ Children \/ Environment

Spec == Init /\ [][Next]_vars

(* SMIs are taken and handlers return.                                     *)
FairSpec == Spec /\ WF_vars(Dispatcher)

-----------------------------------------------------------------------------
(* A registered child's enable bits are set unless its timer was paused,   *)
(* and an enable bit that no registered child needs is clear: SMI_EN.APMC, *)
(* which the SMM control driver sets, and the sleep SMI, which a wake from *)
(* S1 sets, apart ("the SMI source has been disabled if there are no other *)
(* registered child dispatch functions", PchSmmCore.c).                    *)
EnablesMatch ==
  /\ \A c \in Range(db) : mem[c].src \notin paused /\ pc # "asleep" => Desc(mem[c].src).en \subseteq en
  /\ \A b \in en \ {"APMC", "ON_SLP_EN"} : \E c \in Range(db) : b \in Desc(mem[c].src).en

(* An event is not lost: as long as a child's callback is owed, either the *)
(* status bit that reports the event is still set, or the dispatcher is on *)
(* its way to that child (PchSmmCoreDispatcher clears the source only      *)
(* after it has exhausted the list).  An event that comes when the search  *)
(* or the walk of its source has already passed the child is cleared with  *)
(* the one before.                                                         *)
NoEventLost ==
  \A c \in owed : \/ Desc(mem[c].src).sts \in sts
                  \/ mem[c].src = loc.active /\ AheadOfWalk(c)
                  \/ c \in late

(* The machine is put to sleep only after every child registered for that  *)
(* sleep has run (PchSmmCoreDispatcher sets SxChildWasDispatched before    *)
(* the walk and calls PchSmmSxGoToSleep at the very end).                  *)
SleepAfterChildren ==
  pc = "sleep" => slp # 0 /\ \A c \in owed : mem[c].src # "Sx"

(* A write protect handler stays registered ("SPI Write Protect cannot be  *)
(* disabled" and "eSPI/LPC Write Protect cannot be disabled", where        *)
(* PchTcoSmiUnRegister returns EFI_ACCESS_DENIED).                         *)
WriteProtectStays ==
  [][\A c \in Range(db) : mem[c].src \in {"SpiWp", "LpcWp"} => c \in Range(db')]_vars

(* Every event of a registered child is answered by its callback and the   *)
(* SMI handlers come to rest, whatever other sources are pending: after    *)
(* three rounds the dispatcher leaves SMM, and an EOS that did not stick   *)
(* brings the processors back (PchSmmCoreDispatcher).  The instances bound *)
(* the events, so this is the same as: for good, from some point on.       *)
SmisSettle == <>[](owed \subseteq late /\ pc \in {"os", "asleep"})

=============================================================================
