----------------------- MODULE PchSmiDispatcher_proof -----------------------
(***************************************************************************)
(* The PCH SMI dispatcher, for any number of records, any set of sources   *)
(* and any interleaving of the children, the hardware and the SMM control  *)
(* driver.  First, the enable bits of the chipset match the registered     *)
(* children, as long as no child changes SMI_EN between the two halves of  *)
(* a read-modify-write of the control driver, and the pool does not run    *)
(* out at a registration whose caller does not look at the result.  Then,  *)
(* under the whole discipline but for SMIs that no child is registered     *)
(* for, no event is lost but one that the search or the walk has passed    *)
(* when it comes, and the machine sleeps after the children.               *)
(***************************************************************************)
EXTENDS PchSmiDispatcher, ProofLemmas, TLAPS

Disciplined == Freedoms \cap {"interrupt", "exhaust"} = {}

\* The enable bits that the record in cell c needs.
Needs(c) == Desc(mem[c].src).en

OsType == os \in [pc : {"idle", "readEos", "writeEos", "readApmc", "writeApmc", "trigger"},
                  val : SUBSET SmiEnBits]

Typing ==
  /\ db \in Seq(Slot) /\ Distinct(db)
  /\ mem \in [Slot -> Record]
  /\ OsType

\* What EnablesMatch says of the set e of enable bits; the whole register is
\* not looked at after the machine has been put to sleep.
Enough(e) == \A c \in Range(db) : mem[c].src \notin paused => Needs(c) \subseteq e
NoMore(e) == \A b \in e \ {"APMC", "ON_SLP_EN"} : \E c \in Range(db) : b \in Needs(c)

\* The value of SMI_EN that the SMM control driver has read and is about to
\* write back still is one that matches the children: no child has changed
\* the register in between.
CopyMatches ==
  os.pc \in {"writeEos", "writeApmc"} =>
    /\ \A c \in Range(db) : mem[c].src \notin paused => Needs(c) \cap SmiEnBits \subseteq os.val
    /\ NoMore(os.val)

Inv == Typing /\ EnablesMatch /\ CopyMatches

-----------------------------------------------------------------------------
(* The operators that the enable bits go through.                          *)

\* The bit of a timer belongs to no other source.
LEMMA TimerBits ==
  ASSUME NEW k \in SourceNames, NEW t \in Timers, k # t
  PROVE  Desc(k).en \cap Desc(t).en = {}
<1>1. /\ Desc("Sw") = SW_SOURCE_DESC /\ Desc("Sx") = SX_SOURCE_DESC
      /\ Desc("Periodic") = mTIMER_SOURCE_DESC_Periodic /\ Desc("Swsmi") = mTIMER_SOURCE_DESC_Swsmi
      /\ Desc("Usb1") = mUSB1_LEGACY /\ Desc("Usb3") = mUSB3_LEGACY
      /\ Desc("Gpi") = PCH_GPI_SOURCE_DESC_TEMPLATE /\ Desc("Mch") = mSrcDescMch
      /\ Desc("TcoTimeout") = mSrcDescTcoTimeout /\ Desc("OsTco") = mSrcDescOsTco
      /\ Desc("IntruderDet") = mSrcDescIntruderDet /\ Desc("SpiWp") = mSrcDescSpiBiosWp
      /\ Desc("LpcWp") = mSrcDescLpcBiosWp /\ Desc("NewCentury") = mSrcDescNewCentury
      /\ Desc("HotPlug") = PchPcieSmiRpHotPlugTemplate /\ Desc("LinkActive") = PchPcieSmiRpLinkActiveTemplate
      /\ Desc("Pme") = mSrcDescPme /\ Desc("PmeB0") = mSrcDescPmeB0
      /\ Desc("RtcAlarm") = mSrcDescRtcAlarm /\ Desc("TmrOverflow") = mSrcDescTmrOverflow
      /\ Desc("GpioUnlock") = mSrcDescGpioUnlock /\ Desc("SerialIrq") = mSrcDescSerialIrq
      /\ Desc("McSmi") = mSrcDescMcSmi /\ Desc("Smbus") = mSrcDescSmbus
      /\ Desc("SpiAsync") = mSrcDescSpiAsyncSmi
  BY DEF Desc
<1>2. \A s \in SourceNames \ Timers : "PERIODIC" \notin Desc(s).en /\ "SWSMI_TMR" \notin Desc(s).en
  BY <1>1 DEF SourceNames, Timers, SrcDesc, SW_SOURCE_DESC, SX_SOURCE_DESC, mUSB1_LEGACY, mUSB3_LEGACY,
         PCH_GPI_SOURCE_DESC_TEMPLATE, mSrcDescMch, mSrcDescTcoTimeout, mSrcDescOsTco,
         mSrcDescIntruderDet, mSrcDescSpiBiosWp, mSrcDescLpcBiosWp, mSrcDescNewCentury,
         PchPcieSmiRpHotPlugTemplate, PchPcieSmiRpLinkActiveTemplate, mSrcDescPme, mSrcDescPmeB0,
         mSrcDescRtcAlarm, mSrcDescTmrOverflow, mSrcDescGpioUnlock, mSrcDescSerialIrq,
         mSrcDescMcSmi, mSrcDescSmbus, mSrcDescSpiAsyncSmi
<1>3. Desc("Periodic").en = {"PERIODIC"} /\ Desc("Swsmi").en = {"SWSMI_TMR"}
  BY DEF Desc, SrcDesc, mTIMER_SOURCE_DESC_Periodic, mTIMER_SOURCE_DESC_Swsmi
<1> QED BY <1>2, <1>3 DEF Timers

\* Every source of the instance has a descriptor.
LEMMA SourceNamed == Source \subseteq SourceNames
BY SourcesAssumption DEF Source, Timers, SourceNames

\* The sleep SMI and the register of the SMM control driver.
LEMMA SleepBit == Desc("Sx").en = {"ON_SLP_EN"} /\ "APMC" \in SmiEnBits
BY DEF Desc, SrcDesc, SX_SOURCE_DESC, SmiEnBits

\* PchSmmPeriodicTimerProgramTimers leaves the bits of other sources alone,
\* takes away only bits of timers without children, and enables only the
\* SWSMI timer.
LEMMA ProgramTimersFacts ==
  ASSUME NEW ks \in SUBSET SourceNames, NEW e
  PROVE  /\ \A k \in ks : Desc(k).en \subseteq e => Desc(k).en \subseteq ProgramTimersEn(ks, e)
         /\ \A b \in ProgramTimersEn(ks, e) : b \in e \/ \E k \in ks : b \in Desc(k).en
<1>1. ASSUME NEW k \in ks, Desc(k).en \subseteq e
      PROVE  Desc(k).en \subseteq ProgramTimersEn(ks, e)
  <2>1. \A t \in Timers \ ks : Desc(k).en \cap Desc(t).en = {}
    BY TimerBits
  <2> QED BY <1>1, <2>1 DEF ProgramTimersEn
<1>2. \A b \in ProgramTimersEn(ks, e) : b \in e \/ \E k \in ks : b \in Desc(k).en
  BY DEF ProgramTimersEn
<1> QED BY <1>1, <1>2

\* EnablesMatch in terms of the two parts.
LEMMA EnablesParts ==
  EnablesMatch <=> (pc # "asleep" => Enough(en)) /\ NoMore(en)
BY DEF EnablesMatch, Enough, NoMore, Needs

\* The records of the list have a source.
LEMMA SourcesOfRecords ==
  ASSUME Typing
  PROVE  \A c \in Range(db) : c \in Slot /\ mem[c].src \in Source /\ mem[c].src \in SourceNames
<1>1. Range(db) \subseteq Slot
  BY RangeOfList DEF Typing
<1> QED BY <1>1, SourceNamed DEF Typing, Record

-----------------------------------------------------------------------------
(* One lemma for each operation that changes the records or the register.  *)

\* The list, the records and the register are what they were: most steps.
LEMMA OthersKeep ==
  ASSUME Inv, UNCHANGED <<db, mem, en, paused>>, pc = "asleep" => pc' = "asleep", OsType',
         os'.pc \in {"writeEos", "writeApmc"} => UNCHANGED os
  PROVE  Inv'
<1>1. Typing'
  BY DEF Inv, Typing
<1>2. EnablesMatch'
  BY DEF Inv, EnablesMatch
<1>3. CopyMatches'
  BY DEF Inv, CopyMatches, NoMore, Needs
<1> QED BY <1>1, <1>2, <1>3 DEF Inv

LEMMA Initially == Init => Inv
<1> SUFFICES ASSUME Init PROVE Inv
  OBVIOUS
<1> DEFINE m == Min(Slot)
<1>1. /\ db = <<m>> /\ mem = [c \in Slot |-> Blank]
      /\ en = {"APMC"} /\ os = [pc |-> "idle", val |-> {}]
  BY DEF Init
<1>2. m \in Slot
  <2>1. Slot \in SUBSET Nat /\ Slot # {}
    BY SlotAssumption
  <2> QED BY <2>1, Minimum, Zenon DEF Min
<1> HIDE DEF m
<1>3. Range(db) = {m} /\ Distinct(db) /\ db \in Seq(Slot)
  BY <1>1, <1>2 DEF Range, Distinct
<1>4. Blank \in Record
  BY DEF Blank, Record, Context, Source
<1>5. Desc("SerialIrq").en = {}
  BY DEF Desc, SrcDesc, mSrcDescSerialIrq
<1>6. mem[m].src = "SerialIrq"
  BY <1>1, <1>2 DEF Blank
<1>7. EnablesMatch
  BY <1>1, <1>3, <1>5, <1>6 DEF EnablesMatch
<1> QED BY <1>1, <1>3, <1>4, <1>7 DEF Inv, Typing, OsType, CopyMatches

\* A registration: the new record's bits are set, those of the others stay.
LEMMA RegisterKeeps ==
  ASSUME Disciplined, Inv, NEW k \in Sources, NEW x \in Context, Register(k, x)
  PROVE  Inv'
<1> DEFINE c == Min(FreeCells)
           ks == {k} \cup {mem[d].src : d \in Range(db)}
           r == [src |-> k, ctx |-> x]
           e == IF Desc(k).clear = "timer" THEN ProgramTimersEn(ks, en) ELSE en
<1>1. /\ FreeCells # {} /\ MayWriteSmiEn /\ InHandler
      /\ mem' = [mem EXCEPT ![c] = r] /\ db' = Append(db, c)
      /\ en' = e \cup Desc(k).en /\ paused' = paused \ {k} /\ UNCHANGED <<os, pc>>
  BY DEF Register
<1>2. c \in FreeCells
  <2>1. FreeCells \in SUBSET Nat
    BY SlotAssumption DEF FreeCells
  <2> QED BY <1>1, <2>1, Minimum, Zenon DEF Min
<1>3. c \in Slot /\ c \notin Range(db)
  BY <1>2 DEF FreeCells
<1> HIDE DEF c
<1>4. db' \in Seq(Slot) /\ Distinct(db') /\ Range(db') = Range(db) \cup {c}
  BY <1>1, <1>3, AppendRange DEF Inv, Typing
<1>5. k \in Source /\ k \in SourceNames /\ r \in Record
  BY SourceNamed DEF Source, Record
<1>6. Typing'
  BY <1>1, <1>4, <1>5 DEF Inv, Typing, OsType
<1>7. mem'[c] = r /\ \A d \in Range(db) : mem'[d] = mem[d]
  BY <1>1, <1>3, SourcesOfRecords DEF Inv, Typing
<1>8. ks \subseteq SourceNames /\ k \in ks /\ \A d \in Range(db) : mem[d].src \in ks
  BY <1>5, SourcesOfRecords DEF Inv
<1>9. /\ \A j \in ks : Desc(j).en \subseteq en => Desc(j).en \subseteq e
      /\ \A b \in e : b \in en \/ \E j \in ks : b \in Desc(j).en
  BY <1>8, ProgramTimersFacts
<1>10. pc # "asleep" /\ pc' # "asleep" /\ os'.pc \notin {"writeEos", "writeApmc"}
  BY <1>1 DEF InHandler, MayWriteSmiEn, Disciplined
<1>11. \A j \in ks : \E d \in Range(db') : mem'[d].src = j
  BY <1>4, <1>7
<1> HIDE DEF e, ks
<1>12. Enough(en)'
  <2> SUFFICES ASSUME NEW d \in Range(db'), mem'[d].src \notin paused'
               PROVE  Desc(mem'[d].src).en \subseteq en'
    BY DEF Enough, Needs
  <2>1. CASE mem'[d].src = k
    BY <1>1, <2>1
  <2>2. CASE mem'[d].src # k
    <3>1. d \in Range(db) /\ mem'[d] = mem[d] /\ mem[d].src \notin paused
      BY <1>1, <1>4, <1>7, <2>2
    <3>2. Desc(mem[d].src).en \subseteq en
      BY <1>10, <3>1 DEF Inv, EnablesMatch
    <3> QED BY <1>1, <1>8, <1>9, <3>1, <3>2
  <2> QED BY <2>1, <2>2
<1>13. NoMore(en)'
  <2> SUFFICES ASSUME NEW b \in en', b \notin {"APMC", "ON_SLP_EN"}
               PROVE  \E d \in Range(db') : b \in Desc(mem'[d].src).en
    BY DEF NoMore, Needs
  <2>1. CASE b \in en
    <3>1. PICK d \in Range(db) : b \in Desc(mem[d].src).en
      BY <2>1 DEF Inv, EnablesMatch
    <3> QED BY <1>4, <1>7, <3>1
  <2>2. CASE b \notin en
    <3>1. \E j \in ks : b \in Desc(j).en
      BY <1>1, <1>8, <1>9, <2>2
    <3> QED BY <1>11, <3>1
  <2> QED BY <2>1, <2>2
<1>14. EnablesMatch'
  BY <1>12, <1>13 DEF EnablesMatch, Enough, NoMore, Needs
<1> QED BY <1>6, <1>10, <1>14 DEF Inv, CopyMatches

\* A registration without memory leaves the register as it was: with the
\* discipline it is one whose caller looks at the result.
LEMMA RegisterFailsKeeps ==
  ASSUME Disciplined, Inv, NEW k \in Sources, RegisterFails(k)
  PROVE  Inv'
<1>1. UNCHANGED <<db, mem, paused, pc, os>>
  BY DEF RegisterFails
<1>2. k \notin Unchecked
  BY DEF RegisterFails, Disciplined
<1>3. UNCHANGED en
  BY <1>2 DEF RegisterFails
<1> QED BY <1>1, <1>3, OthersKeep DEF Inv, Typing, OsType

\* An unregistration: the bits that another record uses stay set.
LEMMA UnRegisterKeeps ==
  ASSUME Disciplined, Inv, NEW c \in Slot, UnRegister(c)
  PROVE  Inv'
<1> DEFINE rest == Range(db) \ {c}
           used == UNION {Desc(mem[d].src).en : d \in rest}
<1>1. PICK i \in DOMAIN db : db[i] = c /\ db' = RemoveAt(db, i)
  BY DEF UnRegister
<1>2. /\ en' = en \ (Desc(mem[c].src).en \ used)
      /\ InHandler /\ MayWriteSmiEn /\ UNCHANGED <<mem, paused, os, pc>>
  BY DEF UnRegister
<1>3. db' \in Seq(Slot) /\ Distinct(db') /\ Range(db') = rest
  BY <1>1, RemoveAtFacts, RemoveAtRange DEF Inv, Typing
<1>4. Typing'
  BY <1>2, <1>3 DEF Inv, Typing, OsType
<1>5. pc # "asleep" /\ os'.pc \notin {"writeEos", "writeApmc"}
  BY <1>2 DEF InHandler, MayWriteSmiEn, Disciplined
<1>6. ASSUME NEW d \in Range(db'), mem[d].src \notin paused
      PROVE  Desc(mem[d].src).en \subseteq en'
  <2>1. d \in rest /\ Desc(mem[d].src).en \subseteq en
    BY <1>3, <1>5, <1>6 DEF Inv, EnablesMatch
  <2> QED BY <1>2, <2>1
<1>7. ASSUME NEW b \in en' \ {"APMC", "ON_SLP_EN"}
      PROVE  \E d \in Range(db') : b \in Desc(mem[d].src).en
  <2>1. PICK d \in Range(db) : b \in Desc(mem[d].src).en
    BY <1>2, <1>7 DEF Inv, EnablesMatch
  <2>2. CASE d # c
    BY <1>3, <2>1, <2>2
  <2>3. CASE d = c
    <3>1. b \in used
      BY <1>2, <1>7, <2>1, <2>3
    <3> QED BY <1>3, <3>1
  <2> QED BY <2>2, <2>3
<1>8. EnablesMatch'
  BY <1>2, <1>6, <1>7 DEF EnablesMatch
<1> QED BY <1>4, <1>5, <1>8 DEF Inv, CopyMatches

\* A timer is paused: the bit is no other source's.
LEMMA PauseKeeps ==
  ASSUME Disciplined, Inv, NEW k \in Timers, Pause(k)
  PROVE  Inv'
<1>1. /\ en' = en \ Desc(k).en /\ paused' = paused \cup {k}
      /\ InHandler /\ MayWriteSmiEn /\ UNCHANGED <<db, mem, os, pc>>
  BY DEF Pause
<1>2. pc # "asleep" /\ os'.pc \notin {"writeEos", "writeApmc"}
  BY <1>1 DEF InHandler, MayWriteSmiEn, Disciplined
<1>3. ASSUME NEW d \in Range(db), mem[d].src \notin paused'
      PROVE  Desc(mem[d].src).en \subseteq en'
  <2>1. mem[d].src # k /\ Desc(mem[d].src).en \subseteq en
    BY <1>1, <1>2, <1>3 DEF Inv, EnablesMatch
  <2>2. Desc(mem[d].src).en \cap Desc(k).en = {}
    BY <2>1, TimerBits, SourcesOfRecords DEF Inv
  <2> QED BY <1>1, <2>1, <2>2
<1>4. EnablesMatch'
  BY <1>1, <1>3 DEF Inv, EnablesMatch
<1> QED BY <1>1, <1>2, <1>4 DEF Inv, Typing, OsType, CopyMatches

\* A timer of a registered child is resumed.
LEMMA ResumeKeeps ==
  ASSUME Disciplined, Inv, NEW k \in Timers, Resume(k)
  PROVE  Inv'
<1>1. /\ en' = en \cup Desc(k).en /\ paused' = paused \ {k} /\ Registered(k)
      /\ InHandler /\ MayWriteSmiEn /\ UNCHANGED <<db, mem, os, pc>>
  BY DEF Resume
<1>2. pc # "asleep" /\ os'.pc \notin {"writeEos", "writeApmc"}
  BY <1>1 DEF InHandler, MayWriteSmiEn, Disciplined
<1>3. \E d \in Range(db) : mem[d].src = k
  BY <1>1 DEF Registered, Range
<1>4. EnablesMatch'
  BY <1>1, <1>2, <1>3 DEF Inv, EnablesMatch
<1> QED BY <1>1, <1>2, <1>4 DEF Inv, Typing, OsType, CopyMatches

\* Clearing a timer's source programs both timers.
LEMMA ClearSourceKeeps ==
  ASSUME Inv, ClearSource
  PROVE  Inv'
<1> DEFINE ks == {mem[d].src : d \in Range(db)}
<1>1. /\ pc = "clear" /\ UNCHANGED <<db, mem, os, paused>>
      /\ en' \in {en, ProgramTimersEn(ks, en)}
  BY DEF ClearSource
<1>2. /\ \A k \in ks : Desc(k).en \subseteq en => Desc(k).en \subseteq en'
      /\ \A b \in en' : b \in en \/ \E k \in ks : b \in Desc(k).en
  <2>1. ks \subseteq SourceNames
    BY SourcesOfRecords DEF Inv
  <2> HIDE DEF ks
  <2> QED BY <1>1, <2>1, ProgramTimersFacts
<1>3. EnablesMatch'
  BY <1>1, <1>2 DEF Inv, EnablesMatch
<1>4. CopyMatches'
  BY <1>1 DEF Inv, CopyMatches, NoMore, Needs
<1> QED BY <1>1, <1>3, <1>4 DEF Inv, Typing, OsType

\* The sleep SMI is no bit that EnablesMatch looks at, and nothing runs
\* after the machine has gone to sleep.
LEMMA GoToSleepKeeps ==
  ASSUME Inv, PchSmmSxGoToSleep
  PROVE  Inv'
<1>1. /\ pc = "sleep" /\ UNCHANGED <<db, mem, os, paused>>
      /\ slp = 1 => en' = en \cup {"ON_SLP_EN"}
      /\ slp # 1 => en' = en \ {"ON_SLP_EN"} /\ pc' = "asleep"
  BY SleepBit DEF PchSmmSxGoToSleep, DispatcherUnchanged
<1>2. EnablesMatch'
  BY <1>1 DEF Inv, EnablesMatch
<1>3. CopyMatches'
  BY <1>1 DEF Inv, CopyMatches, NoMore, Needs
<1> QED BY <1>1, <1>2, <1>3 DEF Inv, Typing, OsType

\* Leaving SMM, only freed cells are written.
LEMMA RsmKeeps ==
  ASSUME Inv, Rsm
  PROVE  Inv'
<1>1. /\ pc = "rsm" /\ pc' = "os" /\ UNCHANGED <<db, en, os, paused>>
      /\ mem' = [c \in Slot |-> IF c \in Range(db) THEN mem[c] ELSE Blank]
  BY DEF Rsm, hw
<1>2. \A c \in Range(db) : c \in Slot /\ mem'[c] = mem[c]
  BY <1>1, SourcesOfRecords DEF Inv
<1>3. Blank \in Record
  BY DEF Blank, Record, Context, Source
<1>4. Typing'
  BY <1>1, <1>3 DEF Inv, Typing, OsType
<1>5. EnablesMatch'
  BY <1>1, <1>2 DEF Inv, EnablesMatch
<1>6. CopyMatches'
  BY <1>1, <1>2 DEF Inv, CopyMatches, NoMore, Needs
<1> QED BY <1>4, <1>5, <1>6 DEF Inv

\* The SMM control driver reads SMI_EN ...
LEMMA ReadKeeps ==
  ASSUME Inv, ActivateRead
  PROVE  Inv'
<1>1. /\ pc = "os" /\ UNCHANGED <<db, mem, en, pc, paused>>
      /\ os'.val = en \cap SmiEnBits /\ OsType'
  BY DEF ActivateRead, OsRuns, OsUnchanged, OsType
<1>2. EnablesMatch'
  BY <1>1 DEF Inv, EnablesMatch
<1>3. CopyMatches'
  BY <1>1 DEF Inv, EnablesMatch, CopyMatches, NoMore, Needs
<1> QED BY <1>1, <1>2, <1>3 DEF Inv, Typing, OsType

\* ... and writes it back, with EOS or with APMC.
LEMMA WriteKeeps ==
  ASSUME Inv, ActivateWriteEos \/ ActivateWriteApmc
  PROVE  Inv'
<1>1. /\ pc = "os" /\ os.pc \in {"writeEos", "writeApmc"} /\ os'.pc \notin {"writeEos", "writeApmc"}
      /\ OsType'
      /\ en' \in {(en \ SmiEnBits) \cup os.val, (en \ SmiEnBits) \cup os.val \cup {"APMC"}}
      /\ UNCHANGED <<db, mem, pc, paused>>
  BY DEF ActivateWriteEos, ActivateWriteApmc, WriteSmiEn, OsRuns, OsUnchanged, OsType
<1>2. /\ \A c \in Range(db) : mem[c].src \notin paused => Needs(c) \cap SmiEnBits \subseteq os.val
      /\ NoMore(os.val)
  BY <1>1 DEF Inv, CopyMatches
<1>3. ASSUME NEW c \in Range(db), mem[c].src \notin paused
      PROVE  Needs(c) \subseteq en'
  <2>1. Needs(c) \subseteq en /\ Needs(c) \cap SmiEnBits \subseteq os.val
    BY <1>1, <1>2, <1>3 DEF Inv, EnablesMatch, Needs
  <2> QED BY <1>1, <2>1
<1>4. ASSUME NEW b \in en' \ {"APMC", "ON_SLP_EN"}
      PROVE  \E c \in Range(db) : b \in Needs(c)
  <2>1. CASE b \in os.val
    BY <1>2, <1>4, <2>1 DEF NoMore
  <2>2. CASE b \notin os.val
    <3>1. b \in en
      BY <1>1, <1>4, <2>2
    <3> QED BY <1>4, <3>1 DEF Inv, EnablesMatch, Needs
  <2> QED BY <2>1, <2>2
<1>5. EnablesMatch'
  BY <1>1, <1>3, <1>4 DEF EnablesMatch, Needs
<1> QED BY <1>1, <1>5 DEF Inv, Typing, OsType, CopyMatches

-----------------------------------------------------------------------------
LEMMA Step ==
  ASSUME Disciplined, Inv, [Next]_vars
  PROVE  Inv'
<1>1. CASE SmiEntry \/ Dispatch \/ Search \/ Scan \/ Exhaust \/ CallbackReturn \/ PchSmmSetAndCheckEos
  <2>1. UNCHANGED <<db, mem, en, paused, os>> /\ pc # "asleep"
    BY <1>1 DEF SmiEntry, Dispatch, Search, Scan, Exhaust, CallbackReturn, PchSmmSetAndCheckEos,
                DispatcherUnchanged
  <2> QED BY <2>1, OthersKeep DEF Inv, Typing, OsType
<1>2. CASE SwitchSci \/ SmmReadyToLock
  <2>1. UNCHANGED <<db, mem, en, paused, os, pc>>
    BY <1>2 DEF SwitchSci, SmmReadyToLock, hw
  <2> QED BY <2>1, OthersKeep DEF Inv, Typing, OsType
<1>3. CASE \/ \E k \in (Sources \ {"Sw", "Sx"}) \cup {"NewCentury"} : Event(k)
           \/ \E t \in SleepTypes : OsSleep(t)
  <2>1. UNCHANGED <<db, mem, en, paused, os, pc>>
    BY <1>3 DEF Event, OsSleep
  <2> QED BY <2>1, OthersKeep DEF Inv, Typing, OsType
<1>4. CASE ActivateClear \/ \E v \in SwValues : ActivateTrigger(v)
  <2>1. /\ UNCHANGED <<db, mem, en, paused, pc>>
        /\ os' \in {[os EXCEPT !.pc = "readEos"], [os EXCEPT !.pc = "idle"]}
    BY <1>4 DEF ActivateClear, ActivateTrigger, OsUnchanged
  <2>2. os'.pc \in {"readEos", "idle"} /\ OsType'
    BY <2>1 DEF Inv, Typing, OsType
  <2> QED BY <2>1, <2>2, OthersKeep
<1>5. CASE UNCHANGED vars
  <2>1. UNCHANGED <<db, mem, en, paused, pc, os>>
    BY <1>5 DEF vars
  <2> QED BY <2>1, OthersKeep DEF Inv, Typing, OsType
<1> QED
  BY <1>1, <1>2, <1>3, <1>4, <1>5, RegisterKeeps, RegisterFailsKeeps, UnRegisterKeeps, PauseKeeps,
     ResumeKeeps, ClearSourceKeeps, GoToSleepKeeps, RsmKeeps, ReadKeeps, WriteKeeps
  DEF Next, Dispatcher, Children, Environment

\* A registered child's enable bits are set unless its timer was paused, and
\* no other bit is: PchSmmCoreUnRegister, the timers' programming and the
\* read-modify-writes of the SMM control driver never lose or revive one.
THEOREM EnablesAlwaysMatch ==
  ASSUME Disciplined
  PROVE  Spec => []EnablesMatch
<1>1. Inv /\ [Next]_vars => Inv'
  BY Step
<1>2. Inv => EnablesMatch
  BY DEF Inv
<1> QED BY Initially, <1>1, <1>2, PTL DEF Spec
-----------------------------------------------------------------------------
(* No event is lost, and the machine sleeps after the children.            *)

\* The environment keeps to the discipline, except that SMIs may occur that
\* no child is registered for.
Orderly == Freedoms \subseteq {"orphans"}

\* The sources whose status the dispatcher clears while it handles another
\* one: NEWCENTURY whenever it has seen SMI_STS.TCO, and either timer with the
\* other one.
Shared == {"NewCentury"} \cup (IF Timers \subseteq Sources THEN Timers ELSE {})

Writing == os.pc \in {"writeEos", "writeApmc"}
Walking == pc \in {"exhaust", "callback", "clear"}
SourceOf(c) == mem[c].src

LocType == loc \in [escape : Int, inDb : Slot \cup {None}, cur : Slot \cup {None},
                    next : Slot \cup {None}, active : Source \cup {NoSource},
                    seen : SUBSET Source, tco : BOOLEAN, sx : BOOLEAN]

\* The records whose callback is owed for an event that came in time.
Due == owed \ late

\* The eSPI handler's record stays, and only timers are paused.
ListInv ==
  /\ paused \subseteq Timers
  /\ \A c \in Range(db) : SourceOf(c) \in Sources \cup {"SerialIrq"}
  /\ \E c \in Range(db) : SourceOf(c) = "SerialIrq"

\* What is owed is owed to registered children, for the value in APM_CNT and
\* the sleep state in SLP_TYP.
OwedInv ==
  /\ owed \subseteq Range(db)
  /\ \A c \in owed : ContextsMatch(mem[c])
  /\ Desc("Sx").sts \in sts => slp # 0

\* The events that come late are some of those that are owed, and neither a
\* software SMI nor a sleep.
LateInv == late \subseteq owed /\ \A c \in late : SourceOf(c) \notin {"Sw", "Sx"}

\* A timer whose child is owed a call is enabled, and stays enabled when the
\* SMM control driver writes SMI_EN back.
TimerInv ==
  /\ \A c \in owed : SourceOf(c) \in Timers \ Shared => Needs(c) \subseteq en
  /\ Writing => \A t \in Timers \ Shared : Desc(t).en \cap en \subseteq os.val

\* The walk: its source stays pending and no child that is owed a call for it
\* is behind.
WalkInv ==
  /\ Walking =>
       /\ loc.active \in Sources \cup {"SerialIrq"}
       /\ loc.inDb \in Slot /\ SourceOf(loc.inDb) = loc.active
       /\ loc.active = "Sx" => loc.sx
       /\ loc.active \notin Shared => Desc(loc.active).sts \in sts
       /\ Writing /\ loc.active \in Timers \ Shared => Desc(loc.active).en \subseteq en
       /\ \A c \in Due : SourceOf(c) = loc.active /\ loc.active \notin Shared => AheadOfWalk(c)
  /\ pc = "exhaust" => loc.next \in Range(db)
  /\ pc = "callback" => /\ loc.next \in Range(db) \cup {None}
                        /\ loc.cur \in Slot /\ SourceOf(loc.cur) = loc.active

\* The search: a record that it has passed is not one whose source would be
\* found active at a later record, unless the event came late.
Passed(c) == \E i, j \in DOMAIN db : db[i] = c /\ db[j] = loc.inDb /\ i < j
ScanInv ==
  pc = "scan" => /\ loc.inDb \in Range(db)
                 /\ \A c \in Due : Passed(c) => ~SourceIsActive(SourceOf(c))

\* The status that reports the event of an owed call is set, or the walk is
\* on its way to the child.
Pending ==
  \A c \in Due : SourceOf(c) \notin Shared =>
    \/ Desc(SourceOf(c)).sts \in sts
    \/ SourceOf(c) = loc.active /\ AheadOfWalk(c)

\* Outside the handler, an SMI that is due is latched or will be asserted.
EosInv == pc \in {"os", "rsm", "sleep"} => smi \/ eos

\* SxChildWasDispatched: a sleep was asked for, and every child for it has
\* been called, or is about to be in the walk.
SleepInv ==
  /\ loc.sx => /\ pc \in {"search", "scan", "exhaust", "callback", "clear", "eos"} /\ slp # 0
               /\ \A c \in owed : SourceOf(c) = "Sx" => Walking /\ loc.active = "Sx"
  /\ SleepAfterChildren

EventInv ==
  LocType /\ ListInv /\ OwedInv /\ LateInv /\ TimerInv /\ WalkInv /\ ScanInv /\ Pending /\ EosInv /\ SleepInv
-----------------------------------------------------------------------------
(* The status bits.                                                        *)

\* Each source has a status bit of its own, and none of them is the summary.
LEMMA StatusBits ==
  ASSUME NEW j \in SourceNames, NEW k \in SourceNames
  PROVE  Desc(k).sts # "TCO" /\ (Desc(j).sts = Desc(k).sts => j = k)
<1>1. /\ Desc("Sw").sts = "APM" /\ Desc("Sx").sts = "SLP"
      /\ Desc("Periodic").sts = "PERIODIC" /\ Desc("Swsmi").sts = "SWSMI_TMR"
      /\ Desc("Usb1").sts = "LEGACY_USB" /\ Desc("Usb3").sts = "LEGACY_USB3"
      /\ Desc("Gpi").sts = "GPI_SMI_STS" /\ Desc("Mch").sts = "DMISMI"
      /\ Desc("TcoTimeout").sts = "TIMEOUT" /\ Desc("OsTco").sts = "SW_TCO_SMI"
      /\ Desc("IntruderDet").sts = "INTRD_DET" /\ Desc("SpiWp").sts = "SYNC_SS"
      /\ Desc("LpcWp").sts = "BIOSWR" /\ Desc("NewCentury").sts = "NEWCENTURY"
      /\ Desc("HotPlug").sts = "HPPDM" /\ Desc("LinkActive").sts = "HPLAS"
      /\ Desc("Pme").sts = "PME" /\ Desc("PmeB0").sts = "PME_B0"
      /\ Desc("RtcAlarm").sts = "RTC" /\ Desc("TmrOverflow").sts = "TMROF"
      /\ Desc("GpioUnlock").sts = "GPIO_UNLOCK" /\ Desc("SerialIrq").sts = "SERIRQ"
      /\ Desc("McSmi").sts = "MCSMI" /\ Desc("Smbus").sts = "SMBUS"
      /\ Desc("SpiAsync").sts = "ASYNC_SS"
  BY DEF Desc, SrcDesc, SW_SOURCE_DESC, SX_SOURCE_DESC, mTIMER_SOURCE_DESC_Periodic,
         mTIMER_SOURCE_DESC_Swsmi, mUSB1_LEGACY, mUSB3_LEGACY,
         PCH_GPI_SOURCE_DESC_TEMPLATE, mSrcDescMch, mSrcDescTcoTimeout, mSrcDescOsTco,
         mSrcDescIntruderDet, mSrcDescSpiBiosWp, mSrcDescLpcBiosWp, mSrcDescNewCentury,
         PchPcieSmiRpHotPlugTemplate, PchPcieSmiRpLinkActiveTemplate, mSrcDescPme, mSrcDescPmeB0,
         mSrcDescRtcAlarm, mSrcDescTmrOverflow, mSrcDescGpioUnlock, mSrcDescSerialIrq,
         mSrcDescMcSmi, mSrcDescSmbus, mSrcDescSpiAsyncSmi
<1> QED BY <1>1 DEF SourceNames

\* The ClearSource functions: only the timers program both timers, and only
\* the century looks at NEWCENTURY.
LEMMA ClearFunctions ==
  ASSUME NEW k \in SourceNames
  PROVE  /\ Desc(k).clear \in {"default", "timer", "tco", "spi", "century"}
         /\ Desc(k).clear = "timer" <=> k \in Timers
         /\ Desc(k).clear = "century" <=> k = "NewCentury"
<1>1. /\ \A s \in {"Sw", "Sx", "Usb1", "Usb3", "Gpi", "HotPlug", "LinkActive", "Pme", "PmeB0", "RtcAlarm",
                   "TmrOverflow", "GpioUnlock", "SerialIrq", "McSmi", "Smbus", "SpiAsync"} :
           Desc(s).clear = "default"
      /\ \A s \in {"Mch", "TcoTimeout", "OsTco", "IntruderDet", "LpcWp"} : Desc(s).clear = "tco"
      /\ Desc("SpiWp").clear = "spi" /\ Desc("NewCentury").clear = "century"
      /\ Desc("Periodic").clear = "timer" /\ Desc("Swsmi").clear = "timer"
  BY DEF Desc, SrcDesc, SW_SOURCE_DESC, SX_SOURCE_DESC, mTIMER_SOURCE_DESC_Periodic,
         mTIMER_SOURCE_DESC_Swsmi, mUSB1_LEGACY, mUSB3_LEGACY,
         PCH_GPI_SOURCE_DESC_TEMPLATE, mSrcDescMch, mSrcDescTcoTimeout, mSrcDescOsTco,
         mSrcDescIntruderDet, mSrcDescSpiBiosWp, mSrcDescLpcBiosWp, mSrcDescNewCentury,
         PchPcieSmiRpHotPlugTemplate, PchPcieSmiRpLinkActiveTemplate, mSrcDescPme, mSrcDescPmeB0,
         mSrcDescRtcAlarm, mSrcDescTmrOverflow, mSrcDescGpioUnlock, mSrcDescSerialIrq,
         mSrcDescMcSmi, mSrcDescSmbus, mSrcDescSpiAsyncSmi
<1> QED BY <1>1 DEF SourceNames, Timers

\* Software and sleep SMIs do not go through the TCO status, nor does SCI_EN
\* mask them; the timers' bits are theirs alone.
LEMMA PlainSources ==
  /\ \A k \in {"Sw", "Sx"} : ~Desc(k).tco /\ ~Desc(k).sci
  /\ Desc("Sw").en = {"APMC"}
  /\ \A t \in Timers : Desc(t).en \subseteq SmiEnBits \ {"APMC", "ON_SLP_EN"}
BY DEF Desc, SrcDesc, SW_SOURCE_DESC, SX_SOURCE_DESC, mTIMER_SOURCE_DESC_Periodic,
       mTIMER_SOURCE_DESC_Swsmi, Timers, SmiEnBits

\* What the functions that clear a status leave alone.
LEMMA ClearKeeps ==
  ASSUME NEW k, NEW s, NEW b \in s, b # "TCO"
  PROVE  /\ b # Desc(k).sts => b \in PchSmmClearSource(k, s) /\ b \in PchTcoSmiClearSource(k, s)
         /\ b # Desc("NewCentury").sts => b \in PchTcoClearNewCenturySts(s)
BY DEF PchSmmClearSource, PchTcoSmiClearSource, PchTcoClearNewCenturySts, ClearTcoSts

\* Programming the timers clears nothing but the status of the registered ones.
LEMMA ProgramTimersKeeps ==
  ASSUME NEW ks, NEW s, NEW b \in s
  PROVE  b \in ProgramTimersSts(ks, s) \/ \E t \in Timers \cap ks : b = Desc(t).sts
BY DEF ProgramTimersSts

\* ... and they set no status.
LEMMA ClearOnly ==
  ASSUME NEW k, NEW s, NEW ks
  PROVE  /\ PchSmmClearSource(k, s) \subseteq s /\ PchTcoSmiClearSource(k, s) \subseteq s
         /\ PchTcoClearNewCenturySts(s) \subseteq s /\ ProgramTimersSts(ks, s) \subseteq s
BY DEF PchSmmClearSource, PchTcoSmiClearSource, PchTcoClearNewCenturySts, ClearTcoSts, ProgramTimersSts

-----------------------------------------------------------------------------
(* The walk through the list.                                              *)

\* No cell is the null link that ends the list.
LEMMA CellsNotNull == None \notin Slot /\ Slot \subseteq Nat
BY SlotAssumption DEF None

\* The positions of the list, and what follows each of them.
LEMMA NodeFacts ==
  ASSUME Typing
  PROVE  /\ Len(db) \in Nat /\ DOMAIN db = 1..Len(db)
         /\ \A i \in DOMAIN db : db[i] \in Slot /\ db[i] \in Range(db)
         /\ \A i \in DOMAIN db : i # Len(db) => NextNode(db[i]) = db[i + 1]
         /\ NextNode(db[Len(db)]) = None
<1>1. Len(db) \in Nat /\ DOMAIN db = 1..Len(db) /\ \A i \in DOMAIN db : db[i] \in Slot
  BY LenProperties, ElementOfSeq DEF Typing
<1>2. \A i \in DOMAIN db : db[i] \in Range(db)
  BY DEF Range
<1> DEFINE after(c) == {j \in DOMAIN db : j > 1 /\ db[j - 1] = c}
<1>3. ASSUME NEW i \in DOMAIN db, i # Len(db)
      PROVE  NextNode(db[i]) = db[i + 1]
  <2>1. after(db[i]) = {i + 1}
    <3>1. \A j \in DOMAIN db : j > 1 => j - 1 \in DOMAIN db
      BY <1>1
    <3>2. \A j \in DOMAIN db : j > 1 /\ db[j - 1] = db[i] => j = i + 1
      BY <1>1, <3>1 DEF Typing, Distinct
    <3>3. i + 1 \in DOMAIN db /\ i + 1 > 1 /\ (i + 1) - 1 = i
      BY <1>1, <1>3
    <3> QED BY <3>2, <3>3
  <2> HIDE DEF after
  <2>2. NextNode(db[i]) = IF after(db[i]) = {} THEN None ELSE db[CHOOSE j \in after(db[i]) : TRUE]
    BY DEF NextNode, after
  <2>3. (CHOOSE j \in after(db[i]) : TRUE) = i + 1
    BY <2>1
  <2> QED BY <2>1, <2>2, <2>3
<1>4. NextNode(db[Len(db)]) = None
  <2>1. ASSUME NEW j \in after(db[Len(db)]) PROVE FALSE
    <3>1. j \in 1..Len(db) /\ j - 1 \in DOMAIN db /\ Len(db) \in DOMAIN db /\ db[j - 1] = db[Len(db)]
      BY <1>1, <2>1
    <3>2. j - 1 = Len(db)
      BY <3>1 DEF Typing, Distinct
    <3> QED BY <1>1, <3>1, <3>2
  <2>2. after(db[Len(db)]) = {}
    BY <2>1
  <2> HIDE DEF after
  <2>3. NextNode(db[Len(db)]) = IF after(db[Len(db)]) = {} THEN None
                                ELSE db[CHOOSE j \in after(db[Len(db)]) : TRUE]
    BY DEF NextNode, after
  <2> QED BY <2>2, <2>3
<1> QED BY <1>1, <1>2, <1>3, <1>4

\* A record stays ahead of the walk when another one is appended ...
LEMMA AheadAppend ==
  ASSUME Typing, NEW d, AheadOfWalk(d), NEW c \in Slot, db' = Append(db, c), UNCHANGED <<pc, loc>>
  PROVE  AheadOfWalk(d)'
<1>1. PICK i, j \in DOMAIN db : db[i] = loc.next /\ db[j] = d /\ i <= j
  BY DEF AheadOfWalk
<1>2. Len(db) \in Nat /\ DOMAIN db = 1..Len(db)
  BY NodeFacts
<1>3. /\ db' \in Seq(Slot) /\ Len(db') = Len(db) + 1
      /\ \A n \in 1..Len(db) : db'[n] = db[n]
  BY AppendProperties DEF Typing
<1>4. DOMAIN db' = 1..(Len(db) + 1)
  BY <1>3, LenProperties
<1>5. i \in DOMAIN db' /\ j \in DOMAIN db' /\ db'[i] = loc.next /\ db'[j] = d
  BY <1>1, <1>2, <1>3, <1>4
<1> QED BY <1>1, <1>5 DEF AheadOfWalk

\* ... and when one is removed that is neither it nor the next one.
LEMMA AheadRemove ==
  ASSUME Typing, NEW d, AheadOfWalk(d), NEW r \in DOMAIN db, db[r] # d, db[r] # loc.next,
         db' = RemoveAt(db, r), UNCHANGED <<pc, loc>>
  PROVE  AheadOfWalk(d)'
<1>1. PICK i, j \in DOMAIN db : db[i] = loc.next /\ db[j] = d /\ i <= j
  BY DEF AheadOfWalk
<1>2. Len(db) \in Nat /\ DOMAIN db = 1..Len(db) /\ i # r /\ j # r
  BY <1>1, NodeFacts
<1>3. /\ db' \in Seq(Slot) /\ Len(db') = Len(db) - 1
      /\ \A n \in 1..(Len(db) - 1) : db'[n] = db[IF n < r THEN n ELSE n + 1]
  BY RemoveAtFacts DEF Typing
<1>4. DOMAIN db' = 1..(Len(db) - 1)
  BY <1>3, LenProperties
<1> DEFINE new(n) == IF n < r THEN n ELSE n - 1
<1>5. ASSUME NEW n \in DOMAIN db, n # r
      PROVE  new(n) \in DOMAIN db' /\ db'[new(n)] = db[n]
  <2>1. CASE n < r
    <3>1. new(n) = n /\ n \in 1..(Len(db) - 1)
      BY <1>2, <2>1
    <3> QED BY <1>3, <1>4, <2>1, <3>1
  <2>2. CASE n > r
    <3>1. new(n) = n - 1 /\ n - 1 \in 1..(Len(db) - 1) /\ ~(n - 1 < r) /\ (n - 1) + 1 = n
      BY <1>2, <2>2
    <3> QED BY <1>3, <1>4, <3>1
  <2> QED BY <1>2, <1>5, <2>1, <2>2
<1>6. new(i) <= new(j)
  BY <1>1, <1>2
<1>7. /\ new(i) \in DOMAIN db' /\ db'[new(i)] = loc.next
      /\ new(j) \in DOMAIN db' /\ db'[new(j)] = d
  BY <1>1, <1>2, <1>5
<1> HIDE DEF new
<1> QED BY <1>6, <1>7 DEF AheadOfWalk

\* Outside the walk, the status of every call that is owed is set.
LEMMA AtRest ==
  ASSUME Pending, pc \notin {"exhaust", "callback"}
  PROVE  \A c \in Due : SourceOf(c) \notin Shared => Desc(SourceOf(c)).sts \in sts
BY DEF Pending, AheadOfWalk

\* The sources of what is owed.
LEMMA OwedSources ==
  ASSUME Typing, ListInv, OwedInv
  PROVE  \A c \in owed : /\ c \in Range(db) /\ c \in Slot
                         /\ SourceOf(c) \in Sources \cup {"SerialIrq"}
                         /\ SourceOf(c) \in Source /\ SourceOf(c) \in SourceNames
BY SourcesOfRecords DEF ListInv, OwedInv, SourceOf

\* Software SMIs, sleep and the serial IRQ have a status bit that only they clear.
LEMMA Unshared == "Sw" \notin Shared /\ "Sx" \notin Shared /\ "SerialIrq" \notin Shared
BY DEF Shared, Timers

\* While the OS runs, no software SMI and no sleep is owed to anybody: it
\* would have been taken.
LEMMA OsOwesNone ==
  ASSUME Inv, EventInv, OsRuns, NEW k \in {"Sw", "Sx"}
  PROVE  \A c \in owed : SourceOf(c) # k
<1> SUFFICES ASSUME NEW c \in owed, SourceOf(c) = k PROVE FALSE
  OBVIOUS
<1>1. pc = "os" /\ ~smi /\ ~(eos /\ SmiAsserted(en, sts))
  BY DEF OsRuns
<1>2. c \in Range(db) /\ k \in Source
  BY OwedSources DEF Inv, EventInv
<1>3. Desc(k).sts \in sts
  BY <1>1, AtRest, Unshared DEF EventInv, LateInv, Due
<1>4. Desc(k).en \subseteq en
  BY <1>1, <1>2 DEF Inv, EnablesMatch, EventInv, ListInv, Timers, SourceOf
<1>5. SmiAsserted(en, sts)
  BY <1>2, <1>3, <1>4, PlainSources DEF SmiAsserted
<1> QED BY <1>1, <1>5 DEF EventInv, EosInv

-----------------------------------------------------------------------------
(* One lemma for each group of operations.                                 *)

\* At first no child is registered and nothing is owed.
LEMMA EventInitially == Init => EventInv
<1> SUFFICES ASSUME Init PROVE EventInv
  OBVIOUS
<1> DEFINE m == Min(Slot)
<1>1. /\ db = <<m>> /\ mem = [c \in Slot |-> Blank] /\ sts = {} /\ eos = TRUE
      /\ pc = "rsm" /\ loc = NoDispatch /\ os.pc = "idle" /\ paused = {} /\ owed = {} /\ late = {}
  BY DEF Init
<1>2. m \in Slot
  <2>1. Slot \in SUBSET Nat /\ Slot # {}
    BY SlotAssumption
  <2> QED BY <2>1, Minimum, Zenon DEF Min
<1> HIDE DEF m
<1>3. Range(db) = {m} /\ mem[m].src = "SerialIrq"
  BY <1>1, <1>2 DEF Range, Blank
<1>4. ListInv
  BY <1>1, <1>3 DEF ListInv, SourceOf
<1>5. LocType /\ ~loc.sx
  BY <1>1 DEF LocType, NoDispatch
<1>6. OwedInv /\ LateInv /\ TimerInv /\ Pending
  BY <1>1 DEF OwedInv, LateInv, TimerInv, Pending, Due, Writing
<1>7. WalkInv /\ ScanInv /\ EosInv /\ SleepInv
  BY <1>1, <1>5 DEF WalkInv, Walking, ScanInv, EosInv, SleepInv, SleepAfterChildren
<1> QED BY <1>4, <1>5, <1>6, <1>7 DEF EventInv

\* Nothing changes but what is owed, which becomes less.
LEMMA LessOwedKeeps ==
  ASSUME EventInv, NEW S, Settle(S), pc # "scan",
         UNCHANGED <<db, mem, en, sts, eos, smi, apm, slp, pc, loc, os, paused>>
  PROVE  EventInv'
<1>1. LocType' /\ ListInv' /\ EosInv'
  BY DEF EventInv, LocType, ListInv, SourceOf, EosInv
<1>2. OwedInv' /\ LateInv' /\ TimerInv'
  BY DEF EventInv, Settle, OwedInv, LateInv, ContextsMatch, TimerInv, SourceOf, Needs, Writing
<1>3. Due' \subseteq Due
  BY DEF Settle, Due
<1>4. WalkInv' /\ ScanInv' /\ Pending'
  BY <1>3 DEF EventInv, WalkInv, Walking, Writing, ScanInv, Pending, SourceOf, AheadOfWalk
<1>5. SleepInv'
  BY DEF EventInv, Settle, SleepInv, SleepAfterChildren, Walking, SourceOf
<1> QED BY <1>1, <1>2, <1>4, <1>5 DEF EventInv

\* Into the handler, and into its loop: the eSPI handler's record is there,
\* so that the loop runs.
LEMMA EntryKeeps ==
  ASSUME EventInv, SmiEntry \/ Dispatch
  PROVE  EventInv'
<1>1. /\ UNCHANGED <<db, mem, en, sts, slp, apm, os, paused, owed, late>>
      /\ pc \in {"os", "smm"} /\ pc' \in {"smm", "search"}
  <2>1. db # <<>>
    BY DEF EventInv, ListInv, Range
  <2> QED BY <2>1 DEF SmiEntry, Dispatch, DispatcherUnchanged, calls
<1>2. ~loc.sx
  BY <1>1 DEF EventInv, SleepInv
<1>3. LocType' /\ ~loc'.sx
  <2>1. CASE SmiEntry
    BY <1>2, <2>1 DEF SmiEntry, EventInv, LocType
  <2>2. CASE Dispatch
    <3>1. loc' = [loc EXCEPT !.escape = EscapeCount, !.sx = FALSE] /\ EscapeCount \in Int
      BY <2>2, BoundsAssumption DEF Dispatch
    <3> QED BY <3>1 DEF EventInv, LocType
  <2> QED BY <2>1, <2>2
<1>4. ListInv' /\ EosInv'
  BY <1>1 DEF EventInv, ListInv, SourceOf, EosInv
<1>5. OwedInv' /\ LateInv' /\ TimerInv'
  BY <1>1 DEF EventInv, OwedInv, LateInv, ContextsMatch, TimerInv, SourceOf, Needs, Writing
<1>6. Pending'
  BY <1>1, AtRest DEF EventInv, Pending, Due, SourceOf
<1>7. WalkInv' /\ ScanInv' /\ SleepInv'
  BY <1>1, <1>3 DEF WalkInv, Walking, ScanInv, SleepInv, SleepAfterChildren
<1> QED BY <1>3, <1>4, <1>5, <1>6, <1>7 DEF EventInv

\* A round begins: nothing has been passed yet.
LEMMA SearchKeeps ==
  ASSUME Inv, EventInv, Search
  PROVE  EventInv'
<1>1. /\ pc = "search" /\ pc' = "scan" /\ late' \subseteq late
      /\ UNCHANGED <<db, mem, en, sts, eos, smi, slp, apm, os, paused, owed>>
      /\ \A c \in late \ late' : Desc(SourceOf(c)).sts \in sts
  BY DEF Search, DispatcherUnchanged, SourceOf
<1>2. ListInv' /\ EosInv' /\ OwedInv' /\ LateInv' /\ TimerInv'
  BY <1>1 DEF EventInv, ListInv, SourceOf, EosInv, OwedInv, LateInv, ContextsMatch, TimerInv, Needs, Writing
<1>3. \A c \in Due' : SourceOf(c) \notin Shared => Desc(SourceOf(c)).sts \in sts
  BY <1>1, AtRest DEF EventInv, Due
<1>4. Pending'
  BY <1>1, <1>3 DEF Pending, SourceOf
<1>5. db[1] \in Slot /\ db[1] \in Range(db) /\ Len(db) \in Nat /\ DOMAIN db = 1..Len(db)
  <2>1. PICK i \in DOMAIN db : TRUE
    BY DEF EventInv, ListInv, Range
  <2>2. 1 \in DOMAIN db
    BY <2>1, NodeFacts DEF Inv
  <2> QED BY <2>2, NodeFacts DEF Inv
<1>6. LocType' /\ loc'.inDb = db[1] /\ loc'.sx = loc.sx
  <2>1. LocType /\ ("TCO" \in sts) \in BOOLEAN /\ {k \in Source : PmcSmiSts(k)} \in SUBSET Source
    BY DEF EventInv
  <2>2. loc.escape - 1 \in Int
    BY <2>1 DEF LocType
  <2> QED BY <1>5, <2>1, <2>2 DEF LocType, Search
<1>7. ScanInv'
  <2>1. \A c : ~Passed(c)'
    <3> SUFFICES ASSUME NEW i \in DOMAIN db, NEW j \in DOMAIN db, db[j] = db[1], i < j
                 PROVE  FALSE
      BY <1>1, <1>6 DEF Passed
    <3>1. 1 \in DOMAIN db
      BY <1>5
    <3>2. j = 1
      BY <3>1 DEF Inv, Typing, Distinct
    <3> QED BY <1>5, <3>2
  <2> QED BY <1>1, <1>5, <1>6, <2>1 DEF ScanInv
<1>8. WalkInv' /\ SleepInv'
  BY <1>1, <1>6 DEF EventInv, WalkInv, Walking, SleepInv, SleepAfterChildren, SourceOf
<1> QED BY <1>2, <1>4, <1>6, <1>7, <1>8 DEF EventInv

\* The next record is looked at.  If its source is active, the records before
\* it that are due are of other sources.
LEMMA ScanKeeps ==
  ASSUME Inv, EventInv, Scan
  PROVE  EventInv'
<1> DEFINE c == loc.inDb
           k == mem[c].src
           n == NextNode(c)
<1>1. /\ pc = "scan" /\ UNCHANGED <<db, mem, en, sts, eos, smi, sci, slp, apm, os, paused, owed, late>>
      /\ pc' \in {"exhaust", "scan", "eos"}
  BY DEF Scan, DispatcherUnchanged, calls
<1>2. ListInv' /\ EosInv' /\ OwedInv' /\ LateInv' /\ TimerInv'
  BY <1>1 DEF EventInv, ListInv, SourceOf, EosInv, OwedInv, LateInv, ContextsMatch, TimerInv, Needs, Writing
<1>3. Pending'
  BY <1>1, AtRest DEF EventInv, Pending, Due, SourceOf
<1>4. c \in Range(db) /\ c \in Slot /\ k \in Source /\ k \in Sources \cup {"SerialIrq"}
  BY <1>1, SourcesOfRecords DEF Inv, EventInv, ScanInv, ListInv, SourceOf
<1>5. PICK i \in DOMAIN db : db[i] = c
  BY <1>4 DEF Range
<1>6. /\ Len(db) \in Nat /\ DOMAIN db = 1..Len(db)
      /\ i # Len(db) => i + 1 \in DOMAIN db /\ n = db[i + 1] /\ n \in Range(db) /\ n \in Slot
      /\ i = Len(db) => n = None
  <2>1. /\ Len(db) \in Nat /\ DOMAIN db = 1..Len(db)
        /\ \A j \in DOMAIN db : db[j] \in Slot /\ db[j] \in Range(db)
        /\ i # Len(db) => n = db[i + 1]
        /\ i = Len(db) => n = None
    BY <1>5, NodeFacts DEF Inv
  <2>2. i # Len(db) => i + 1 \in DOMAIN db
    BY <2>1
  <2> QED BY <2>1, <2>2
<1>7. loc.sx => slp # 0 /\ \A d \in owed : SourceOf(d) # "Sx"
  BY <1>1 DEF EventInv, SleepInv, Walking
<1>8. CASE /\ SourceIsActive(k) /\ pc' = "exhaust"
           /\ loc' = [loc EXCEPT !.next = c, !.cur = None, !.active = k, !.sx = @ \/ k = "Sx", !.seen = {}]
  <2>1. /\ loc'.inDb = c /\ loc'.next = c /\ loc'.active = k /\ loc'.sx = (loc.sx \/ k = "Sx") /\ LocType'
    BY <1>4, <1>8 DEF EventInv, LocType
  <2>2. Desc(k).sts \in sts /\ Desc(k).en \subseteq en
    BY <1>8 DEF SourceIsActive
  <2> HIDE DEF c, k, n
  <2>3. ASSUME NEW d \in Due, SourceOf(d) = k
        PROVE  AheadOfWalk(d)'
    <3>1. PICK j \in DOMAIN db : db[j] = d
      BY <2>3 DEF EventInv, OwedInv, Due, Range
    <3>2. ~(j < i)
      <4>1. ~Passed(d)
        BY <1>1, <1>8, <2>3 DEF EventInv, ScanInv
      <4> QED BY <1>5, <3>1, <4>1 DEF Passed, c
    <3>3. i <= j
      BY <1>6, <3>2
    <3>4. pc' = "exhaust" /\ loc'.next # None
      BY <1>4, <1>8, <2>1, CellsNotNull
    <3> QED BY <1>1, <1>5, <2>1, <3>1, <3>3, <3>4 DEF AheadOfWalk
  <2>4. WalkInv'
    <3>1. \A d \in Due' : SourceOf(d)' = loc'.active => AheadOfWalk(d)'
      BY <1>1, <2>1, <2>3 DEF SourceOf, Due
    <3>2. SourceOf(loc.inDb)' = k /\ loc'.inDb \in Slot /\ loc'.next \in Range(db)'
      BY <1>1, <1>4, <2>1 DEF SourceOf, c, k
    <3>3. Desc(loc'.active).sts \in sts' /\ Desc(loc'.active).en \subseteq en'
      BY <1>1, <2>1, <2>2
    <3> QED BY <1>4, <1>8, <2>1, <3>1, <3>2, <3>3 DEF WalkInv
  <2>5. SleepInv'
    <3>1. k = "Sx" => slp # 0
      BY <2>2 DEF EventInv, OwedInv
    <3> QED BY <1>1, <1>7, <1>8, <2>1, <3>1 DEF SleepInv, SleepAfterChildren, Walking, SourceOf
  <2>6. ScanInv'
    BY <1>8 DEF ScanInv
  <2> QED BY <1>2, <1>3, <2>1, <2>4, <2>5, <2>6 DEF EventInv
<1>9. CASE ~SourceIsActive(k) /\ n # None /\ loc' = [loc EXCEPT !.inDb = n] /\ pc' = "scan"
  <2>1. i + 1 \in DOMAIN db /\ n = db[i + 1] /\ n \in Range(db) /\ n \in Slot
    BY <1>6, <1>9
  <2>2. loc'.inDb = n /\ loc'.sx = loc.sx /\ loc'.seen = loc.seen /\ LocType'
    BY <1>9, <2>1 DEF EventInv, LocType
  <2> HIDE DEF c, k, n
  <2>3. ASSUME NEW d \in Due, Passed(d)'
        PROVE  ~SourceIsActive(SourceOf(d))
    <3>1. PICK h, j \in DOMAIN db : db[h] = d /\ db[j] = n /\ h < j
      BY <1>1, <2>2, <2>3 DEF Passed
    <3>2. j = i + 1
      BY <2>1, <3>1 DEF Inv, Typing, Distinct
    <3>3. CASE h = i
      BY <1>5, <1>9, <3>1, <3>3 DEF SourceOf, k
    <3>4. CASE h # i
      <4>1. h < i
        BY <1>6, <3>1, <3>2, <3>4
      <4>2. Passed(d)
        BY <1>5, <3>1, <4>1 DEF Passed, c
      <4> QED BY <1>1, <4>2 DEF EventInv, ScanInv
    <3> QED BY <3>3, <3>4
  <2>4. ScanInv'
    BY <1>1, <2>1, <2>2, <2>3 DEF ScanInv, SourceIsActive, SourceOf, Due
  <2>5. WalkInv' /\ SleepInv'
    BY <1>1, <1>7, <1>9, <2>2 DEF WalkInv, Walking, SleepInv, SleepAfterChildren, SourceOf
  <2> QED BY <1>2, <1>3, <2>2, <2>4, <2>5 DEF EventInv
<1>10. CASE loc' = [loc EXCEPT !.inDb = None, !.seen = {}] /\ pc' = "eos"
  <2>1. loc'.sx = loc.sx /\ LocType'
    BY <1>10 DEF EventInv, LocType
  <2>2. WalkInv' /\ ScanInv' /\ SleepInv'
    BY <1>1, <1>7, <1>10, <2>1 DEF WalkInv, Walking, ScanInv, SleepInv, SleepAfterChildren, SourceOf
  <2> QED BY <1>2, <1>3, <2>1, <2>2 DEF EventInv
<1> QED BY <1>8, <1>9, <1>10 DEF Scan

\* A record is taken: if it is owed a call for the source, its context
\* matches and it is called; the others are still ahead.
LEMMA ExhaustKeeps ==
  ASSUME Inv, EventInv, Exhaust
  PROVE  EventInv'
<1> DEFINE c == loc.next
           n == NextNode(c)
           call == mem[c].src = loc.active /\ ContextsMatch(mem[c])
<1>1. /\ pc = "exhaust" /\ UNCHANGED <<db, mem, en, sts, eos, smi, slp, apm, os, paused>>
      /\ loc' = [loc EXCEPT !.cur = c, !.next = n]
      /\ pc' = IF call THEN "callback" ELSE AfterRecord(n)
      /\ owed' = (IF call THEN owed \ {c} ELSE owed) /\ late' = (IF call THEN late \ {c} ELSE late)
  BY DEF Exhaust, DispatcherUnchanged, Settle
<1>2. c \in Range(db) /\ c \in Slot
  BY <1>1, SourcesOfRecords DEF Inv, EventInv, WalkInv
<1>3. PICK i \in DOMAIN db : db[i] = c
  BY <1>2 DEF Range
<1>4. /\ Len(db) \in Nat /\ DOMAIN db = 1..Len(db)
      /\ i # Len(db) => i + 1 \in DOMAIN db /\ n = db[i + 1] /\ n \in Range(db) /\ n \in Slot /\ n # None
      /\ i = Len(db) => n = None
  <2>1. /\ Len(db) \in Nat /\ DOMAIN db = 1..Len(db)
        /\ \A j \in DOMAIN db : db[j] \in Slot /\ db[j] \in Range(db)
        /\ i # Len(db) => n = db[i + 1]
        /\ i = Len(db) => n = None
    BY <1>3, NodeFacts DEF Inv
  <2>2. i # Len(db) => i + 1 \in DOMAIN db
    BY <2>1
  <2> QED BY <2>1, <2>2, CellsNotNull
<1> HIDE DEF c, n
<1>5. /\ LocType' /\ loc'.cur = c /\ loc'.next = n
      /\ loc'.inDb = loc.inDb /\ loc'.active = loc.active /\ loc'.sx = loc.sx
  BY <1>1, <1>2, <1>4 DEF EventInv, LocType
<1>6. pc' \in {"callback", "exhaust", "clear"} /\ (pc' = "exhaust" => n # None)
  BY <1>1 DEF AfterRecord
<1>7. ListInv' /\ EosInv' /\ OwedInv' /\ LateInv' /\ TimerInv'
  BY <1>1, <1>6 DEF EventInv, ListInv, SourceOf, EosInv, OwedInv, LateInv, ContextsMatch, TimerInv,
                 Needs, Writing
<1>8. ASSUME NEW d \in Due', mem[d].src = loc.active, AheadOfWalk(d)
      PROVE  AheadOfWalk(d)'
  <2>1. d \in owed /\ d # c
    <3>1. d \in owed
      BY <1>1, <1>8 DEF Due
    <3>2. d = c => call
      BY <1>8, <3>1 DEF EventInv, OwedInv
    <3> QED BY <1>1, <1>8, <3>1, <3>2 DEF Due
  <2>2. PICK i0, j \in DOMAIN db : db[i0] = c /\ db[j] = d /\ i0 <= j
    BY <1>8 DEF AheadOfWalk, c
  <2>3. i0 = i
    BY <1>3, <2>2 DEF Inv, Typing, Distinct
  <2>4. i # Len(db) /\ i + 1 <= j
    BY <1>3, <1>4, <2>1, <2>2, <2>3
  <2>5. pc' \in {"exhaust", "callback"}
    BY <1>1, <1>4, <2>4 DEF AfterRecord
  <2> QED BY <1>1, <1>4, <1>5, <2>2, <2>4, <2>5 DEF AheadOfWalk
<1> DEFINE due == Due'
<1>9. Due' \subseteq Due /\ due = Due'
  BY <1>1 DEF Due
<1> HIDE DEF due
<1>10. Pending'
  BY <1>1, <1>5, <1>8, <1>9 DEF EventInv, Pending, SourceOf
<1>11. WalkInv' /\ ScanInv'
  <2>1. Walking /\ Walking' /\ pc' # "scan"
    BY <1>1, <1>6 DEF Walking
  <2>2. \A d \in due : mem[d].src = loc.active /\ loc.active \notin Shared => AheadOfWalk(d)'
    BY <1>1, <1>8, <1>9, <2>1 DEF EventInv, WalkInv, SourceOf
  <2>3. pc' = "exhaust" => n \in Range(db)
    BY <1>4, <1>6
  <2>4. pc' = "callback" => n \in Range(db) \cup {None} /\ mem[c].src = loc.active
    BY <1>1, <1>4 DEF AfterRecord
  <2> QED BY <1>1, <1>2, <1>5, <1>9, <2>1, <2>2, <2>3, <2>4
          DEF EventInv, WalkInv, ScanInv, SourceOf, Writing
<1>12. SleepInv'
  BY <1>1, <1>5, <1>6 DEF EventInv, SleepInv, SleepAfterChildren, Walking, SourceOf
<1> QED BY <1>5, <1>7, <1>11, <1>12, <1>10 DEF EventInv

\* A callback returns; the record it was called for has not been reused.
LEMMA CallbackReturnKeeps ==
  ASSUME EventInv, CallbackReturn
  PROVE  EventInv'
<1>1. /\ pc = "callback" /\ UNCHANGED <<db, mem, en, sts, eos, smi, slp, apm, os, paused, owed, late>>
      /\ loc' = [loc EXCEPT !.sx = @ \/ (loc.active \in Standard /\ mem[loc.cur].src = "Sx")]
      /\ pc' = AfterRecord(loc.next)
  BY DEF CallbackReturn, DispatcherUnchanged, calls
<1>2. UNCHANGED loc
  <2>1. mem[loc.cur].src = "Sx" => loc.sx
    BY <1>1 DEF EventInv, WalkInv, Walking, SourceOf
  <2>2. loc.sx \in BOOLEAN
    BY DEF EventInv, LocType
  <2> QED BY <1>1, <2>1, <2>2 DEF EventInv, LocType
<1>3. pc' = IF loc.next = None THEN "clear" ELSE "exhaust"
  BY <1>1 DEF AfterRecord
<1>4. LocType' /\ ListInv' /\ EosInv' /\ OwedInv' /\ LateInv' /\ TimerInv'
  BY <1>1, <1>2, <1>3 DEF EventInv, LocType, ListInv, SourceOf, EosInv, OwedInv, LateInv, ContextsMatch, TimerInv,
                 Needs, Writing
<1>5. \A c : AheadOfWalk(c) => AheadOfWalk(c)'
  BY <1>1, <1>2, <1>3 DEF AheadOfWalk
<1>6. Pending'
  BY <1>1, <1>2, <1>5 DEF EventInv, Pending, Due, SourceOf
<1>7. WalkInv' /\ ScanInv'
  <2>1. Walking /\ Walking' /\ pc' # "scan"
    BY <1>1, <1>3 DEF Walking
  <2> QED BY <1>1, <1>2, <1>3, <1>5, <2>1 DEF EventInv, WalkInv, ScanInv, Due, SourceOf, Writing
<1>8. SleepInv'
  BY <1>1, <1>2, <1>3 DEF EventInv, SleepInv, SleepAfterChildren, Walking, SourceOf
<1> QED BY <1>4, <1>6, <1>7, <1>8 DEF EventInv

\* Clearing the source of the walk clears no other one that is not shared.
LEMMA ClearedAlone ==
  ASSUME Inv, EventInv, ClearSource, NEW k \in SourceNames \ Shared, k # loc.active,
         Desc(k).sts \in sts
  PROVE  Desc(k).sts \in sts'
<1> DEFINE a == loc.active
           f == Desc(mem[loc.inDb].src).clear
           ks == {mem[d].src : d \in Range(db)}
           b == Desc(k).sts
<1>1. /\ pc = "clear"
      /\ sts' = CASE f = "default" -> PchSmmClearSource(a, sts)
                  [] f \in {"tco", "spi"} -> PchTcoSmiClearSource(a, sts)
                  [] f = "century" -> PchTcoClearNewCenturySts(sts)
                  [] f = "timer"   -> ProgramTimersSts(ks, sts)
  BY DEF ClearSource
<1>2. a \in Sources \cup {"SerialIrq"} /\ mem[loc.inDb].src = a /\ a \in SourceNames
  BY <1>1, SourceNamed DEF EventInv, WalkInv, Walking, SourceOf, Source
<1>3. /\ f \in {"default", "timer", "tco", "spi", "century"}
      /\ f = "timer" <=> a \in Timers
      /\ f = "century" <=> a = "NewCentury"
  BY <1>2, ClearFunctions
<1>4. b # "TCO" /\ b # Desc(a).sts /\ b # Desc("NewCentury").sts
  <2>1. k # "NewCentury" /\ "NewCentury" \in SourceNames
    BY DEF Shared, SourceNames
  <2> QED BY <1>2, <2>1, StatusBits
<1>5. ASSUME a \in Timers, NEW t \in Timers \cap ks, b = Desc(t).sts
      PROVE  FALSE
  <2>1. t \in SourceNames /\ t \in Sources /\ a \in Sources
    BY <1>2, <1>5, SourceNamed DEF EventInv, ListInv, SourceOf, Source, Timers
  <2>2. k = t
    BY <1>5, <2>1, StatusBits
  <2>3. Timers \subseteq Sources
    BY <1>5, <2>1, <2>2 DEF Timers
  <2> QED BY <1>5, <2>2, <2>3 DEF Shared
<1> HIDE DEF a, f, ks, b
<1>6. b \in sts
  BY DEF b
<1>7. CASE f = "default"
  BY <1>1, <1>4, <1>6, <1>7, ClearKeeps DEF b
<1>8. CASE f \in {"tco", "spi"}
  BY <1>1, <1>4, <1>6, <1>8, ClearKeeps DEF b
<1>9. CASE f = "century"
  BY <1>1, <1>4, <1>6, <1>9, ClearKeeps DEF b
<1>10. CASE f = "timer"
  <2>1. b \in ProgramTimersSts(ks, sts) \/ \E t \in Timers \cap ks : b = Desc(t).sts
    BY <1>6, ProgramTimersKeeps
  <2> QED BY <1>1, <1>3, <1>5, <1>10, <2>1 DEF b
<1> QED BY <1>3, <1>7, <1>8, <1>9, <1>10

\* The source is cleared when nobody is owed a call for it any more.
LEMMA ClearSourceEvents ==
  ASSUME Inv, EventInv, ClearSource
  PROVE  EventInv'
<1> DEFINE ks == {mem[d].src : d \in Range(db)}
           a == loc.active
<1>1. /\ pc = "clear" /\ pc' = "eos" /\ UNCHANGED <<db, mem, eos, smi, slp, apm, os, paused, owed, late>>
      /\ loc' = [NoDispatch EXCEPT !.escape = loc.escape, !.tco = loc.tco, !.sx = loc.sx]
      /\ en' = IF Desc(a).clear = "timer" THEN ProgramTimersEn(ks, en) ELSE en
  BY DEF ClearSource, calls, EventInv, WalkInv, Walking, SourceOf
<1>2. a \in Sources \cup {"SerialIrq"} /\ a \in SourceNames
  BY <1>1, SourceNamed DEF EventInv, WalkInv, Walking, Source
<1>3. sts' \subseteq sts
  <2>1. Desc(mem[loc.inDb].src).clear \in {"default", "timer", "tco", "spi", "century"}
    BY <1>1, <1>2, ClearFunctions DEF EventInv, WalkInv, Walking, SourceOf
  <2> QED BY <2>1, ClearOnly DEF ClearSource
<1>4. LocType' /\ loc'.sx = loc.sx
  BY <1>1 DEF EventInv, LocType, NoDispatch
<1>5. \A c \in Due : SourceOf(c) \notin Shared => SourceOf(c) # a /\ Desc(SourceOf(c)).sts \in sts'
  <2> SUFFICES ASSUME NEW c \in Due, SourceOf(c) \notin Shared
               PROVE  SourceOf(c) # a /\ Desc(SourceOf(c)).sts \in sts'
    OBVIOUS
  <2>1. SourceOf(c) # a
    BY <1>1 DEF EventInv, WalkInv, Walking, AheadOfWalk
  <2>2. Desc(SourceOf(c)).sts \in sts /\ SourceOf(c) \in SourceNames
    BY <1>1, AtRest, OwedSources DEF Inv, EventInv, Due
  <2> QED BY <2>1, <2>2, ClearedAlone
<1>6. ListInv' /\ EosInv' /\ OwedInv' /\ LateInv'
  BY <1>1, <1>3 DEF EventInv, ListInv, SourceOf, EosInv, OwedInv, LateInv, ContextsMatch
<1>7. Pending' /\ WalkInv' /\ ScanInv'
  BY <1>1, <1>5 DEF Pending, Due, SourceOf, WalkInv, Walking, ScanInv
<1>8. SleepInv'
  <2>1. loc.sx => slp # 0 /\ \A c \in owed : SourceOf(c) # "Sx"
    BY <1>1, <1>5, Unshared DEF EventInv, SleepInv, LateInv, Due
  <2> QED BY <1>1, <1>4, <2>1 DEF SleepInv, SleepAfterChildren, SourceOf
<1>9. ks \in SUBSET SourceNames
  BY SourcesOfRecords DEF Inv
<1>10. TimerInv'
  <2>1. ASSUME NEW c \in owed, SourceOf(c) \in Timers \ Shared
        PROVE  Desc(SourceOf(c)).en \subseteq en'
    <3>1. Desc(SourceOf(c)).en \subseteq en /\ SourceOf(c) \in ks
      BY <2>1 DEF EventInv, TimerInv, OwedInv, SourceOf, Needs
    <3> HIDE DEF ks, a
    <3> QED BY <1>1, <1>9, <3>1, ProgramTimersFacts
  <2>2. ASSUME Writing, NEW t \in Timers \ Shared, NEW x \in Desc(t).en, x \in en'
        PROVE  x \in os.val
    <3>1. x \in en => x \in os.val
      BY <2>2 DEF EventInv, TimerInv
    <3>2. ASSUME x \notin en PROVE FALSE
      <4>1. Desc(a).clear = "timer" /\ a \in Timers
        BY <1>1, <1>2, <2>2, <3>2, ClearFunctions
      <4>2. "Swsmi" \in ks /\ x \in Desc("Swsmi").en
        BY <1>1, <2>2, <3>2, <4>1 DEF ProgramTimersEn
      <4>3. t = "Swsmi"
        BY <2>2, <4>2, TimerBits DEF Timers, SourceNames
      <4>4. "Swsmi" \in Sources /\ a \in Sources
        BY <1>2, <4>1, <4>2 DEF EventInv, ListInv, SourceOf, Timers
      <4>5. a = t
        BY <2>2, <4>1, <4>3, <4>4 DEF Timers, Shared
      <4>6. Desc(a).en \subseteq en
        BY <1>1, <2>2, <4>5 DEF EventInv, WalkInv, Walking
      <4> QED BY <2>2, <3>2, <4>5, <4>6
    <3> QED BY <3>1, <3>2
  <2> QED BY <1>1, <2>1, <2>2 DEF TimerInv, SourceOf, Needs, Writing
<1> QED BY <1>4, <1>6, <1>7, <1>8, <1>10 DEF EventInv

\* EOS: what is left is looked at in the next round or the next SMI.
LEMMA EosKeeps ==
  ASSUME Inv, EventInv, PchSmmSetAndCheckEos
  PROVE  EventInv'
<1>1. /\ pc = "eos" /\ UNCHANGED <<db, mem, en, slp, apm, os, paused, owed, late>>
      /\ sts' = IF loc.tco THEN PchTcoClearNewCenturySts(sts) ELSE sts
      /\ smi' = (smi \/ ~eos')
      /\ \/ pc' = "search" /\ loc' = [loc EXCEPT !.tco = FALSE]
         \/ pc' = (IF loc.sx THEN "sleep" ELSE "rsm") /\ loc' = NoDispatch
  BY DEF PchSmmSetAndCheckEos, DispatcherUnchanged, calls
<1>2. sts' \subseteq sts
  BY <1>1, ClearOnly
<1>3. \A c \in Due : SourceOf(c) \notin Shared => Desc(SourceOf(c)).sts \in sts'
  <2> SUFFICES ASSUME NEW c \in Due, SourceOf(c) \notin Shared
               PROVE  Desc(SourceOf(c)).sts \in sts'
    OBVIOUS
  <2>1. Desc(SourceOf(c)).sts \in sts /\ SourceOf(c) \in SourceNames
    BY <1>1, AtRest, OwedSources DEF Inv, EventInv, Due
  <2>2. SourceOf(c) # "NewCentury" /\ "NewCentury" \in SourceNames
    BY DEF Shared, SourceNames
  <2>3. Desc(SourceOf(c)).sts # "TCO" /\ Desc(SourceOf(c)).sts # Desc("NewCentury").sts
    BY <2>1, <2>2, StatusBits
  <2> QED BY <1>1, <2>1, <2>3, ClearKeeps
<1>4. ListInv' /\ EosInv' /\ OwedInv' /\ LateInv' /\ TimerInv'
  BY <1>1, <1>2 DEF EventInv, ListInv, SourceOf, EosInv, OwedInv, LateInv, ContextsMatch, TimerInv, Needs, Writing
<1>5. Pending' /\ WalkInv' /\ ScanInv'
  BY <1>1, <1>3 DEF Pending, Due, SourceOf, WalkInv, Walking, ScanInv
<1>6. loc.sx => slp # 0 /\ \A c \in owed : SourceOf(c) # "Sx"
  BY <1>1 DEF EventInv, SleepInv, Walking
<1>7. LocType' /\ SleepInv'
  <2>1. CASE pc' = "search" /\ loc' = [loc EXCEPT !.tco = FALSE]
    <3>1. LocType' /\ loc'.sx = loc.sx
      BY <2>1 DEF EventInv, LocType
    <3> QED BY <1>1, <1>6, <2>1, <3>1 DEF SleepInv, SleepAfterChildren, SourceOf
  <2>2. CASE pc' = (IF loc.sx THEN "sleep" ELSE "rsm") /\ loc' = NoDispatch
    <3>1. LocType' /\ ~loc'.sx
      BY <2>2 DEF LocType, NoDispatch
    <3> QED BY <1>1, <1>6, <2>2, <3>1 DEF SleepInv, SleepAfterChildren, SourceOf
  <2> QED BY <1>1, <2>1, <2>2
<1> QED BY <1>4, <1>5, <1>7 DEF EventInv

\* The sleep, for which nobody is owed a call.
LEMMA SleepKeeps ==
  ASSUME Inv, EventInv, PchSmmSxGoToSleep
  PROVE  EventInv'
<1>1. /\ pc = "sleep" /\ UNCHANGED <<db, mem, eos, smi, apm, loc, os, paused>>
      /\ sts' = sts \ {Desc("Sx").sts}
      /\ en' = IF slp = 1 THEN en \cup Desc("Sx").en ELSE en \ Desc("Sx").en
      /\ pc' = IF slp = 1 THEN "rsm" ELSE "asleep"
      /\ owed' \subseteq owed /\ Due' \subseteq Due /\ LateInv'
  BY DEF PchSmmSxGoToSleep, DispatcherUnchanged, PchSmmClearSource, Settle, Due, EventInv, LateInv, SourceOf
<1>2. (\A c \in owed : SourceOf(c) # "Sx") /\ ~loc.sx
  BY <1>1 DEF EventInv, SleepInv, SleepAfterChildren, SourceOf
<1>3. LocType' /\ ListInv' /\ EosInv'
  BY <1>1 DEF EventInv, LocType, ListInv, SourceOf, EosInv
<1>4. OwedInv'
  BY <1>1, <1>2 DEF EventInv, OwedInv, ContextsMatch, SourceOf
<1>5. \A t \in Timers : Desc(t).en \cap en' = Desc(t).en \cap en
  BY <1>1, SleepBit, PlainSources
<1>6. TimerInv'
  BY <1>1, <1>5 DEF EventInv, TimerInv, SourceOf, Needs, Writing
<1>7. Pending'
  <2> SUFFICES ASSUME NEW c \in Due, SourceOf(c) \notin Shared
               PROVE  Desc(SourceOf(c)).sts \in sts'
    BY <1>1 DEF Pending, SourceOf
  <2>1. Desc(SourceOf(c)).sts \in sts /\ SourceOf(c) \in SourceNames /\ "Sx" \in SourceNames /\ c \in owed
    BY <1>1, AtRest, OwedSources DEF Inv, EventInv, SourceNames, Due
  <2> QED BY <1>1, <1>2, <2>1, StatusBits
<1>8. WalkInv' /\ ScanInv' /\ SleepInv'
  BY <1>1, <1>2 DEF WalkInv, Walking, ScanInv, SleepInv, SleepAfterChildren
<1> QED BY <1>1, <1>3, <1>4, <1>6, <1>7, <1>8 DEF EventInv

\* Leaving SMM, only freed cells are written.
LEMMA RsmEvents ==
  ASSUME Inv, EventInv, Rsm
  PROVE  EventInv'
<1>1. /\ pc = "rsm" /\ pc' = "os"
      /\ UNCHANGED <<db, en, sts, eos, smi, slp, apm, loc, os, paused, owed, late>>
      /\ mem' = [c \in Slot |-> IF c \in Range(db) THEN mem[c] ELSE Blank]
  BY DEF Rsm, hw, calls
<1>2. \A c \in Range(db) : c \in Slot /\ mem'[c] = mem[c]
  BY <1>1, SourcesOfRecords DEF Inv
<1>3. \A c \in owed : c \in Range(db) /\ mem'[c] = mem[c]
  BY <1>2 DEF EventInv, OwedInv
<1>4. LocType' /\ ListInv' /\ EosInv'
  BY <1>1, <1>2 DEF EventInv, LocType, ListInv, SourceOf, EosInv
<1>5. OwedInv' /\ LateInv' /\ TimerInv'
  BY <1>1, <1>3 DEF EventInv, OwedInv, LateInv, ContextsMatch, TimerInv, SourceOf, Needs, Writing
<1>6. Pending'
  BY <1>1, <1>3, AtRest DEF EventInv, Pending, Due, SourceOf
<1>7. WalkInv' /\ ScanInv' /\ SleepInv'
  BY <1>1, <1>3 DEF EventInv, WalkInv, Walking, ScanInv, SleepInv, SleepAfterChildren, SourceOf
<1> QED BY <1>4, <1>5, <1>6, <1>7 DEF EventInv

\* In a handler, no child changes SMI_EN under the SMM control driver.
LEMMA HandlerFacts ==
  ASSUME Orderly, InHandler, MayWriteSmiEn
  PROVE  pc \in {"smm", "callback", "rsm"} /\ ~Writing /\ Disciplined
BY DEF Orderly, InHandler, MayWriteSmiEn, Writing, Disciplined

\* A registration clears no status that is set, except a shared one.
LEMMA RegisterClears ==
  ASSUME Orderly, Inv, EventInv, NEW k \in Sources, NEW x \in Context, Register(k, x)
  PROVE  /\ sts' \subseteq sts
         /\ \A j \in SourceNames \ Shared : Desc(j).sts \in sts => Desc(j).sts \in sts'
<1> DEFINE ks == {k} \cup {mem[d].src : d \in Range(db)}
           f == Desc(k).clear
           s == CASE f = "timer"   -> ProgramTimersSts(ks, sts)
                  [] f = "century" -> PchTcoClearNewCenturySts(sts)
                  [] f = "spi"     -> PchTcoSmiClearSource(k, sts)
                  [] OTHER         -> PchSmmClearSource(k, sts)
<1>1. sts' = PchSmmClearSource(k, s) /\ Desc(k).sts \notin sts
  BY DEF Register, Quiet, Orderly
<1>2. k \in SourceNames
  BY SourceNamed DEF Source
<1>3. /\ f \in {"default", "timer", "tco", "spi", "century"}
      /\ f = "timer" <=> k \in Timers
  BY <1>2, ClearFunctions
<1>4. ASSUME k \in Timers, NEW t \in Timers \cap ks, NEW j \in SourceNames \ Shared,
             Desc(j).sts \in sts, Desc(j).sts = Desc(t).sts
      PROVE  FALSE
  <2>1. t \in SourceNames /\ (t # k => t \in Sources)
    BY <1>4, SourceNamed DEF EventInv, ListInv, SourceOf, Source, Timers
  <2>2. j = t /\ t # k
    BY <1>1, <1>4, <2>1, StatusBits
  <2>3. Timers \subseteq Sources
    BY <1>4, <2>1, <2>2 DEF Timers
  <2> QED BY <1>4, <2>2, <2>3 DEF Shared
<1> HIDE DEF ks, f
<1>5. s \subseteq sts
  BY <1>3, ClearOnly
<1>6. ASSUME NEW j \in SourceNames \ Shared, Desc(j).sts \in sts
      PROVE  Desc(j).sts \in s
  <2> DEFINE b == Desc(j).sts
  <2>1. j # "NewCentury" /\ "NewCentury" \in SourceNames
    BY DEF Shared, SourceNames
  <2>2. b # "TCO" /\ b # Desc(k).sts /\ b # Desc("NewCentury").sts
    BY <1>1, <1>2, <1>6, <2>1, StatusBits
  <2>3. b \in sts
    BY <1>6
  <2>4. b \in ProgramTimersSts(ks, sts) \/ \E t \in Timers \cap ks : b = Desc(t).sts
    BY <2>3, ProgramTimersKeeps
  <2>5. f = "timer" => b \in ProgramTimersSts(ks, sts)
    BY <1>3, <1>4, <1>6, <2>4
  <2> HIDE DEF b
  <2>6. /\ b \in PchSmmClearSource(k, sts) /\ b \in PchTcoSmiClearSource(k, sts)
        /\ b \in PchTcoClearNewCenturySts(sts)
    BY <2>2, <2>3, ClearKeeps
  <2>7. b \in s
    BY <1>3, <2>5, <2>6
  <2> QED BY <2>7 DEF b
<1> HIDE DEF s
<1> QED BY <1>1, <1>5, <1>6 DEF PchSmmClearSource

\* The new record is behind the others, in a cell of its own.
LEMMA RegisterEvents ==
  ASSUME Orderly, Inv, EventInv, NEW k \in Sources, NEW x \in Context, Register(k, x)
  PROVE  EventInv'
<1> DEFINE c == Min(FreeCells)
           ks == {k} \cup {mem[d].src : d \in Range(db)}
           r == [src |-> k, ctx |-> x]
           e == IF Desc(k).clear = "timer" THEN ProgramTimersEn(ks, en) ELSE en
<1>1. /\ FreeCells # {}
      /\ mem' = [mem EXCEPT ![c] = r] /\ db' = Append(db, c)
      /\ en' = e \cup Desc(k).en /\ paused' = paused \ {k}
      /\ UNCHANGED <<eos, smi, slp, apm, pc, loc, os, owed, late>>
  BY DEF Register
<1>2. pc \in {"smm", "callback", "rsm"} /\ ~Writing
  BY HandlerFacts DEF Register
<1>3. c \in FreeCells
  <2>1. FreeCells \in SUBSET Nat
    BY SlotAssumption DEF FreeCells
  <2> QED BY <1>1, <2>1, Minimum, Zenon DEF Min
<1>4. c \in Slot /\ c \notin Range(db) /\ (pc = "callback" => c # loc.inDb /\ c # loc.cur)
  BY <1>3 DEF FreeCells, Orderly
<1> HIDE DEF c
<1>5. Range(db') = Range(db) \cup {c}
  BY <1>1, <1>4, AppendRange DEF Inv, Typing
<1>6. mem'[c].src = k /\ \A d \in Slot \ {c} : mem'[d] = mem[d]
  BY <1>1, <1>4 DEF Inv, Typing
<1>7. \A d \in Range(db) : d \in Slot /\ d # c /\ mem'[d] = mem[d]
  BY <1>4, <1>6, SourcesOfRecords DEF Inv
<1>8. \A d \in owed : d \in Range(db) /\ mem'[d] = mem[d]
  BY <1>7 DEF EventInv, OwedInv
<1>9. sts' \subseteq sts /\ \A j \in SourceNames \ Shared : Desc(j).sts \in sts => Desc(j).sts \in sts'
  BY RegisterClears
<1>10. \A d : AheadOfWalk(d) => AheadOfWalk(d)'
  BY <1>1, <1>4, AheadAppend DEF Inv
<1>11. LocType' /\ EosInv'
  BY <1>1 DEF EventInv, LocType, EosInv
<1>12. ListInv'
  BY <1>1, <1>5, <1>6, <1>7 DEF EventInv, ListInv, SourceOf
<1>13. OwedInv' /\ LateInv'
  BY <1>1, <1>5, <1>8, <1>9 DEF EventInv, OwedInv, LateInv, ContextsMatch, SourceOf
<1>14. TimerInv'
  <2>1. ASSUME NEW d \in owed, SourceOf(d) \in Timers \ Shared
        PROVE  Desc(SourceOf(d)).en \subseteq en'
    <3>1. Desc(SourceOf(d)).en \subseteq en /\ SourceOf(d) \in ks
      BY <2>1, <1>8 DEF EventInv, TimerInv, SourceOf, Needs
    <3>2. ks \in SUBSET SourceNames
      BY SourceNamed, SourcesOfRecords DEF Inv, Source
    <3> HIDE DEF ks
    <3> QED BY <1>1, <3>1, <3>2, ProgramTimersFacts
  <2> HIDE DEF e
  <2> QED BY <1>1, <1>2, <1>8, <2>1 DEF TimerInv, SourceOf, Needs, Writing
<1> HIDE DEF e, r, ks
<1>15. Pending'
  <2> SUFFICES ASSUME NEW d \in Due, mem[d].src \notin Shared
               PROVE  \/ Desc(mem[d].src).sts \in sts'
                      \/ mem[d].src = loc.active /\ AheadOfWalk(d)'
    BY <1>1, <1>8 DEF Pending, Due, SourceOf
  <2>1. mem[d].src \in SourceNames
    BY OwedSources DEF Inv, EventInv, Due, SourceOf
  <2> QED BY <1>9, <1>10, <2>1 DEF EventInv, Pending, SourceOf
<1>16. WalkInv'
  <2>1. CASE pc = "callback"
    <3>1. /\ loc.inDb \in Slot /\ mem'[loc.inDb] = mem[loc.inDb]
          /\ loc.cur \in Slot /\ mem'[loc.cur] = mem[loc.cur]
          /\ loc.active \in Sources \cup {"SerialIrq"} /\ loc.active \in SourceNames
      BY <1>4, <1>6, <2>1, SourceNamed DEF EventInv, WalkInv, Walking, Source
    <3> QED BY <1>1, <1>2, <1>5, <1>8, <1>9, <1>10, <2>1, <3>1
            DEF EventInv, WalkInv, Walking, Due, SourceOf, Writing
  <2>2. CASE pc # "callback"
    BY <1>1, <1>2, <2>2 DEF WalkInv, Walking
  <2> QED BY <2>1, <2>2
<1>17. SleepInv' /\ ScanInv'
  BY <1>1, <1>2, <1>8 DEF EventInv, SleepInv, SleepAfterChildren, ScanInv, Walking, SourceOf
<1> QED BY <1>11, <1>12, <1>13, <1>14, <1>15, <1>16, <1>17 DEF EventInv

\* A registration without memory.
LEMMA RegisterFailsEvents ==
  ASSUME Orderly, EventInv, NEW k \in Sources, RegisterFails(k)
  PROVE  EventInv'
<1>1. UNCHANGED <<db, mem, en, sts, eos, smi, apm, slp, pc, loc, os, paused>> /\ Settle({}) /\ pc # "scan"
  BY DEF RegisterFails, Orderly, InHandler, Settle
<1> QED BY <1>1, LessOwedKeeps

\* A record that is removed is neither owed a call any more nor the next one
\* of the walk.
LEMMA UnRegisterEvents ==
  ASSUME Orderly, Inv, EventInv, NEW c \in Slot, UnRegister(c)
  PROVE  EventInv'
<1> DEFINE rest == Range(db) \ {c}
           used == UNION {Desc(mem[d].src).en : d \in rest}
<1>1. PICK i \in DOMAIN db : db[i] = c /\ db' = RemoveAt(db, i)
  BY DEF UnRegister
<1>2. /\ en' = en \ (Desc(mem[c].src).en \ used) /\ owed' = owed \ {c} /\ late' = late \ {c}
      /\ mem[c].src # "SerialIrq" /\ (pc = "callback" => c # loc.next)
      /\ UNCHANGED <<mem, sts, eos, smi, slp, apm, pc, loc, os, paused>>
  BY DEF UnRegister, Settle
<1>3. pc \in {"smm", "callback", "rsm"} /\ ~Writing
  BY HandlerFacts DEF UnRegister
<1>4. Range(db') = rest
  BY <1>1, RemoveAtRange DEF Inv, Typing
<1>5. \A d \in owed' : AheadOfWalk(d) => AheadOfWalk(d)'
  <2> SUFFICES ASSUME NEW d \in owed', AheadOfWalk(d) PROVE AheadOfWalk(d)'
    OBVIOUS
  <2>1. db[i] # d /\ db[i] # loc.next
    BY <1>1, <1>2, <1>3 DEF AheadOfWalk
  <2> QED BY <1>1, <1>2, <2>1, AheadRemove DEF Inv
<1>6. LocType' /\ EosInv'
  BY <1>2 DEF EventInv, LocType, EosInv
<1>7. ListInv' /\ OwedInv' /\ LateInv'
  BY <1>2, <1>4 DEF EventInv, ListInv, SourceOf, OwedInv, LateInv, ContextsMatch
<1>8. TimerInv'
  <2>1. ASSUME NEW d \in owed', SourceOf(d) \in Timers \ Shared
        PROVE  Desc(SourceOf(d)).en \subseteq en'
    <3>1. d \in rest /\ Desc(SourceOf(d)).en \subseteq en
      BY <1>2, <2>1 DEF EventInv, TimerInv, OwedInv, SourceOf, Needs
    <3> QED BY <1>2, <3>1 DEF SourceOf
  <2> QED BY <1>2, <1>3, <2>1 DEF TimerInv, SourceOf, Needs, Writing
<1>9. Pending'
  BY <1>2, <1>5 DEF EventInv, Pending, Due, SourceOf
<1>10. WalkInv'
  <2>1. \A d \in owed' \ late' : SourceOf(d) = loc.active /\ loc.active \notin Shared /\ Walking => AheadOfWalk(d)'
    BY <1>2, <1>5 DEF EventInv, WalkInv, Due
  <2>2. pc = "callback" => loc.next \in rest \cup {None}
    BY <1>2 DEF EventInv, WalkInv
  <2> HIDE DEF rest, used
  <2> QED BY <1>2, <1>3, <1>4, <2>1, <2>2 DEF EventInv, WalkInv, Walking, Due, SourceOf, Writing
<1>11. SleepInv' /\ ScanInv'
  BY <1>2, <1>3 DEF EventInv, SleepInv, SleepAfterChildren, ScanInv, Walking, SourceOf
<1> QED BY <1>6, <1>7, <1>8, <1>9, <1>10, <1>11 DEF EventInv

\* A timer is paused: its children are owed nothing.
LEMMA PauseEvents ==
  ASSUME Orderly, Inv, EventInv, NEW k \in Timers, Pause(k)
  PROVE  EventInv'
<1>1. /\ en' = en \ Desc(k).en /\ paused' = paused \cup {k}
      /\ owed' = owed \ RecordsOf(k) /\ late' = late \ RecordsOf(k)
      /\ UNCHANGED <<db, mem, sts, eos, smi, slp, apm, pc, loc, os>>
  BY DEF Pause, Settle
<1>2. ~Writing /\ pc # "scan" /\ Due' \subseteq Due
  BY <1>1, HandlerFacts DEF Pause, Due
<1>3. \A c \in owed' : c \in owed /\ SourceOf(c) # k /\ SourceOf(c) \in SourceNames
  BY <1>1, OwedSources DEF Inv, EventInv, RecordsOf, SourceOf
<1>4. LocType' /\ EosInv' /\ ListInv' /\ OwedInv' /\ LateInv'
  BY <1>1 DEF EventInv, LocType, EosInv, ListInv, SourceOf, OwedInv, LateInv, ContextsMatch
<1>5. TimerInv'
  <2>1. ASSUME NEW c \in owed', SourceOf(c) \in Timers \ Shared
        PROVE  Desc(SourceOf(c)).en \subseteq en'
    <3>1. Desc(SourceOf(c)).en \subseteq en
      BY <1>3, <2>1 DEF EventInv, TimerInv, SourceOf, Needs
    <3>2. Desc(SourceOf(c)).en \cap Desc(k).en = {}
      BY <1>3, <2>1, TimerBits
    <3> QED BY <1>1, <3>1, <3>2
  <2> QED BY <1>1, <1>2, <2>1 DEF TimerInv, SourceOf, Needs, Writing
<1>6. Pending' /\ WalkInv' /\ ScanInv'
  BY <1>1, <1>2 DEF EventInv, Pending, WalkInv, Walking, ScanInv, SourceOf, Writing, AheadOfWalk
<1>7. SleepInv'
  BY <1>1 DEF EventInv, SleepInv, SleepAfterChildren, Walking, SourceOf
<1> QED BY <1>4, <1>5, <1>6, <1>7 DEF EventInv

\* A timer is resumed: a tick that is cleared was owed to nobody, since the
\* timer was disabled.
LEMMA ResumeEvents ==
  ASSUME Orderly, Inv, EventInv, NEW k \in Timers, Resume(k)
  PROVE  EventInv'
<1>1. /\ en' = en \cup Desc(k).en /\ sts' = sts \ {Desc(k).sts} /\ paused' = paused \ {k}
      /\ \/ Desc(k).sts \notin sts
         \/ ~(Desc(k).en \subseteq en) /\ ~(pc = "callback" /\ loc.active = k)
      /\ UNCHANGED <<db, mem, eos, smi, slp, apm, pc, loc, os, owed, late>>
  BY DEF Resume, Quiet, Orderly, PchSmmClearSource
<1>2. pc \in {"smm", "callback", "rsm"} /\ ~Writing
  BY HandlerFacts DEF Resume
<1>3. k \in SourceNames
  BY DEF Timers, SourceNames
<1>4. LocType' /\ EosInv' /\ ListInv' /\ OwedInv' /\ LateInv' /\ ScanInv'
  BY <1>1, <1>2 DEF EventInv, LocType, EosInv, ListInv, SourceOf, OwedInv, LateInv, ScanInv, ContextsMatch
<1>5. TimerInv'
  BY <1>1, <1>2 DEF EventInv, TimerInv, SourceOf, Needs, Writing
<1>6. Pending'
  <2> SUFFICES ASSUME NEW c \in owed, SourceOf(c) \notin Shared, Desc(SourceOf(c)).sts \in sts
               PROVE  Desc(SourceOf(c)).sts \in sts'
    BY <1>1 DEF EventInv, Pending, Due, SourceOf, AheadOfWalk
  <2>1. CASE SourceOf(c) = k
    <3>1. Desc(k).en \subseteq en
      BY <2>1 DEF EventInv, TimerInv, Needs, SourceOf
    <3> QED BY <1>1, <2>1, <3>1
  <2>2. CASE SourceOf(c) # k
    <3>1. SourceOf(c) \in SourceNames
      BY OwedSources DEF Inv, EventInv
    <3> QED BY <1>1, <1>3, <2>2, <3>1, StatusBits
  <2> QED BY <2>1, <2>2
<1>7. WalkInv'
  <2>1. Walking /\ loc.active \notin Shared => Desc(loc.active).sts \in sts'
    <3> SUFFICES ASSUME Walking, loc.active \notin Shared PROVE Desc(loc.active).sts \in sts'
      OBVIOUS
    <3>1. pc = "callback" /\ Desc(loc.active).sts \in sts /\ loc.active \in SourceNames
      BY <1>2, SourceNamed DEF EventInv, WalkInv, Walking, Source
    <3>2. CASE loc.active = k
      BY <1>1, <3>1, <3>2
    <3>3. CASE loc.active # k
      BY <1>1, <1>3, <3>1, <3>3, StatusBits
    <3> QED BY <3>2, <3>3
  <2> QED BY <1>1, <1>2, <2>1 DEF EventInv, WalkInv, Walking, Due, SourceOf, Writing, AheadOfWalk
<1>8. SleepInv'
  BY <1>1 DEF EventInv, SleepInv, SleepAfterChildren, Walking, SourceOf
<1> QED BY <1>4, <1>5, <1>6, <1>7, <1>8 DEF EventInv

\* An event: the children that the search or the walk has passed get it late.
LEMMA EventKeeps ==
  ASSUME Inv, EventInv, NEW k \in (Sources \ {"Sw", "Sx"}) \cup {"NewCentury"}, Event(k)
  PROVE  EventInv'
<1> DEFINE for == IF Desc(k).sci /\ sci THEN {} ELSE RecordsOf(k)
<1>1. /\ k \in Timers => Desc(k).en \subseteq en
      /\ sts' = sts \cup {Desc(k).sts} \cup (IF Desc(k).tco THEN {"TCO"} ELSE {})
      /\ owed' = owed \cup for
      /\ late' = (late \ for) \cup {c \in for : BehindSearch(c) \/ BehindWalk(c)}
      /\ UNCHANGED <<db, mem, en, eos, smi, sci, slp, apm, pc, loc, os, paused>>
  BY DEF Event
<1>2. k \in SourceNames /\ k \notin {"Sw", "Sx"} /\ "Sx" \in SourceNames
  BY SourceNamed DEF Source, SourceNames
<1>3. for \subseteq RecordsOf(k) /\ \A c \in for : c \in Range(db) /\ SourceOf(c) = k
  BY DEF RecordsOf, SourceOf
<1>5. \A c \in Range(db) : SourceOf(c) = k => c \in for \/ (Desc(k).sci /\ sci)
  BY DEF RecordsOf, SourceOf
<1> HIDE DEF for
<1>6. \A c \in Due' : \/ c \in Due /\ c \notin for
                      \/ c \in for /\ ~BehindSearch(c) /\ ~BehindWalk(c)
  BY <1>1 DEF Due
<1>7. LocType' /\ EosInv' /\ ListInv'
  BY <1>1 DEF EventInv, LocType, EosInv, ListInv, SourceOf
<1>8. OwedInv' /\ LateInv'
  <2>1. Desc("Sx").sts \in sts' => Desc("Sx").sts \in sts
    BY <1>1, <1>2, StatusBits
  <2>2. \A c \in owed' : c \in Range(db) /\ ContextsMatch(mem[c])
    BY <1>1, <1>2, <1>3 DEF EventInv, OwedInv, ContextsMatch, SourceOf
  <2>3. LateInv'
    BY <1>1, <1>2, <1>3 DEF EventInv, LateInv, SourceOf
  <2> QED BY <1>1, <2>1, <2>2, <2>3 DEF EventInv, OwedInv, ContextsMatch
<1>9. TimerInv'
  BY <1>1, <1>3 DEF EventInv, TimerInv, SourceOf, Needs, Writing
<1>10. Pending'
  <2>1. \A c \in for : Desc(SourceOf(c)).sts \in sts'
    BY <1>1, <1>3
  <2> QED BY <1>1, <1>6, <2>1 DEF EventInv, Pending, SourceOf, AheadOfWalk
<1>11. WalkInv'
  <2>1. ASSUME NEW c \in Due', SourceOf(c) = loc.active, loc.active \notin Shared, Walking
        PROVE  AheadOfWalk(c)
    BY <1>6, <2>1 DEF EventInv, WalkInv, Walking, BehindWalk, SourceOf
  <2> DEFINE due == Due'
  <2> HIDE DEF due
  <2>2. due = Due'
    BY DEF due
  <2>3. \A c \in due : SourceOf(c) = loc.active /\ loc.active \notin Shared /\ Walking => AheadOfWalk(c)
    BY <2>1, <2>2
  <2> QED BY <1>1, <2>2, <2>3 DEF EventInv, WalkInv, Walking, SourceOf, Writing, AheadOfWalk
<1>12. ScanInv'
  <2> SUFFICES ASSUME pc = "scan", NEW c \in Due', Passed(c)
               PROVE  ~SourceIsActive(SourceOf(c))'
    BY <1>1 DEF EventInv, ScanInv, Passed, SourceOf
  <2>1. SourceOf(c)' = SourceOf(c) /\ SourceOf(c) \in SourceNames /\ c \in Range(db)
    <3>1. c \in Range(db)
      BY <1>3, <1>6 DEF EventInv, OwedInv, Due
    <3> QED BY <1>1, <3>1, SourcesOfRecords DEF Inv, SourceOf
  <2>2. CASE SourceOf(c) # k
    <3>1. c \in Due /\ Desc(SourceOf(c)).sts # "TCO" /\ Desc(SourceOf(c)).sts # Desc(k).sts
      BY <1>2, <1>3, <1>6, <2>1, <2>2, StatusBits
    <3>2. ~SourceIsActive(SourceOf(c))
      BY <3>1 DEF EventInv, ScanInv
    <3> QED BY <1>1, <2>1, <3>1, <3>2 DEF SourceIsActive
  <2>3. CASE SourceOf(c) = k /\ Desc(k).sci /\ sci
    BY <1>1, <2>1, <2>3 DEF SourceIsActive
  <2>4. CASE SourceOf(c) = k /\ c \in for
    <3>1. SourceOf(c) \notin loc.seen
      BY <1>6, <2>4 DEF BehindSearch, Passed, SourceOf
    <3> QED BY <1>1, <2>1, <3>1 DEF SourceIsActive
  <2> QED BY <1>5, <2>1, <2>2, <2>3, <2>4
<1>13. SleepInv'
  <2>1. \A c \in owed' : SourceOf(c) = "Sx" => c \in owed
    BY <1>1, <1>2, <1>3
  <2> QED BY <1>1, <2>1 DEF EventInv, SleepInv, SleepAfterChildren, Walking, SourceOf
<1> QED BY <1>7, <1>8, <1>9, <1>10, <1>11, <1>12, <1>13 DEF EventInv

\* What the OS side leaves alone when it does something of its own.
LEMMA OsKeeps ==
  ASSUME Inv, EventInv, OsRuns, owed \subseteq owed', UNCHANGED <<db, mem, eos, smi, pc, loc, paused, late>>
  PROVE  pc = "os" /\ LocType' /\ EosInv' /\ ListInv' /\ LateInv' /\ WalkInv' /\ ScanInv' /\ SleepInv'
<1>1. pc = "os" /\ ~loc.sx
  BY DEF OsRuns, EventInv, SleepInv
<1>2. LocType' /\ EosInv' /\ ListInv' /\ LateInv'
  BY DEF EventInv, LocType, EosInv, ListInv, LateInv, SourceOf
<1>3. WalkInv' /\ ScanInv' /\ SleepInv'
  BY <1>1 DEF WalkInv, Walking, ScanInv, SleepInv, SleepAfterChildren
<1> QED BY <1>1, <1>2, <1>3

\* SmmClear drops a software SMI that nobody is waiting for.
LEMMA ClearEvents ==
  ASSUME Inv, EventInv, ActivateClear
  PROVE  EventInv'
<1>1. /\ OsRuns /\ sts' = sts \ {Desc("Sw").sts} /\ os' = [os EXCEPT !.pc = "readEos"]
      /\ UNCHANGED <<db, mem, en, eos, smi, slp, apm, pc, loc, paused, owed, late>>
  BY DEF ActivateClear, OsUnchanged
<1>2. os'.pc = "readEos"
  BY <1>1 DEF Inv, Typing, OsType
<1>3. pc = "os" /\ LocType' /\ EosInv' /\ ListInv' /\ LateInv' /\ WalkInv' /\ ScanInv' /\ SleepInv'
  BY <1>1, OsKeeps
<1>4. OwedInv' /\ TimerInv'
  BY <1>1, <1>2 DEF EventInv, OwedInv, ContextsMatch, TimerInv, SourceOf, Needs, Writing
<1>5. Pending'
  <2> SUFFICES ASSUME NEW c \in Due, SourceOf(c) \notin Shared
               PROVE  Desc(SourceOf(c)).sts \in sts'
    BY <1>1 DEF Pending, Due, SourceOf
  <2>1. /\ Desc(SourceOf(c)).sts \in sts /\ SourceOf(c) # "Sw"
        /\ SourceOf(c) \in SourceNames /\ "Sw" \in SourceNames
    BY <1>1, <1>3, AtRest, OsOwesNone, OwedSources DEF Inv, EventInv, SourceNames, Due
  <2> QED BY <1>1, <2>1, StatusBits
<1> QED BY <1>3, <1>4, <1>5 DEF EventInv

\* The read-modify-writes of SMI_EN: the timers' bits survive.
LEMMA ReadWriteEvents ==
  ASSUME Inv, EventInv, ActivateRead \/ ActivateWriteEos \/ ActivateWriteApmc
  PROVE  EventInv'
<1>1. /\ OsRuns /\ UNCHANGED <<db, mem, sts, smi, slp, apm, pc, loc, paused, owed, late>>
      /\ eos' = eos \/ eos' = TRUE
  BY DEF ActivateRead, ActivateWriteEos, ActivateWriteApmc, OsUnchanged
<1>2. pc = "os" /\ ~loc.sx
  BY <1>1 DEF OsRuns, EventInv, SleepInv
<1>3. LocType' /\ EosInv' /\ ListInv' /\ OwedInv' /\ LateInv' /\ WalkInv' /\ ScanInv' /\ SleepInv'
  BY <1>1, <1>2 DEF EventInv, LocType, EosInv, ListInv, SourceOf, OwedInv, LateInv, ContextsMatch, WalkInv,
                    Walking, ScanInv, SleepInv, SleepAfterChildren
<1>4. Pending'
  BY <1>1, <1>2, AtRest DEF EventInv, Pending, Due, SourceOf
<1>5. TimerInv'
  <2>1. CASE ActivateRead
    <3>1. en' = en /\ os'.val = en \cap SmiEnBits
      BY <2>1 DEF ActivateRead
    <3> QED BY <1>1, <3>1, PlainSources DEF EventInv, TimerInv, SourceOf, Needs
  <2>2. CASE ActivateWriteEos \/ ActivateWriteApmc
    <3>1. /\ Writing /\ ~Writing'
          /\ (en \ SmiEnBits) \cup os.val \subseteq en'
      BY <2>2 DEF ActivateWriteEos, ActivateWriteApmc, WriteSmiEn, Writing
    <3>2. ASSUME NEW c \in owed, SourceOf(c) \in Timers \ Shared
          PROVE  Desc(SourceOf(c)).en \subseteq en'
      <4>1. Desc(SourceOf(c)).en \subseteq en /\ Desc(SourceOf(c)).en \cap en \subseteq os.val
        BY <3>1, <3>2 DEF EventInv, TimerInv, SourceOf, Needs
      <4> QED BY <3>1, <4>1
    <3> QED BY <1>1, <3>1, <3>2 DEF TimerInv, SourceOf, Needs
  <2> QED BY <2>1, <2>2
<1> QED BY <1>3, <1>4, <1>5 DEF EventInv

\* A software SMI or a sleep request: no earlier one of its kind is waiting,
\* so that all that is owed is owed for the new value.
LEMMA TriggerEvents ==
  ASSUME Inv, EventInv, NEW v \in SwValues, ActivateTrigger(v)
  PROVE  EventInv'
<1>1. /\ OsRuns /\ apm' = v /\ sts' = sts \cup {Desc("Sw").sts} /\ os' = [os EXCEPT !.pc = "idle"]
      /\ owed' = owed \cup {c \in RecordsOf("Sw") : mem[c].ctx = v}
      /\ UNCHANGED <<db, mem, en, eos, smi, slp, pc, loc, paused, late>>
  BY DEF ActivateTrigger, OsUnchanged
<1>2. os'.pc = "idle"
  BY <1>1 DEF Inv, Typing, OsType
<1>3. pc = "os" /\ LocType' /\ EosInv' /\ ListInv' /\ LateInv' /\ WalkInv' /\ ScanInv' /\ SleepInv'
  BY <1>1, OsKeeps
<1>4. /\ \A c \in owed : SourceOf(c) # "Sw"
      /\ \A c \in owed' : c \in owed \/ (c \in Range(db) /\ SourceOf(c) = "Sw" /\ mem[c].ctx = v)
  BY <1>1, OsOwesNone DEF RecordsOf, SourceOf
<1>5. OwedInv'
  <2>1. Desc("Sx").sts # Desc("Sw").sts
    <3>1. "Sx" \in SourceNames /\ "Sw" \in SourceNames
      BY DEF SourceNames
    <3> QED BY <3>1, StatusBits
  <2> QED BY <1>1, <1>4, <2>1 DEF EventInv, OwedInv, ContextsMatch, SourceOf
<1>6. TimerInv' /\ Pending'
  <2>1. "Sw" \notin Timers
    BY DEF Timers
  <2> QED BY <1>1, <1>2, <1>3, <1>4, <2>1, AtRest DEF EventInv, TimerInv, Needs, Writing, Pending, Due, SourceOf
<1> QED BY <1>3, <1>5, <1>6 DEF EventInv

\* The OS asks for sleep: every sleep child for that type is owed a call.
LEMMA OsSleepEvents ==
  ASSUME Inv, EventInv, NEW t \in SleepTypes, OsSleep(t)
  PROVE  EventInv'
<1>1. /\ OsRuns /\ slp' = t /\ t # 0 /\ sts' = sts \cup {Desc("Sx").sts}
      /\ owed' = owed \cup {c \in RecordsOf("Sx") : mem[c].ctx = t}
      /\ UNCHANGED <<db, mem, en, eos, smi, apm, os, pc, loc, paused, late>>
  BY ValuesAssumption DEF OsSleep
<1>2. pc = "os" /\ LocType' /\ EosInv' /\ ListInv' /\ LateInv' /\ WalkInv' /\ ScanInv' /\ SleepInv'
  BY <1>1, OsKeeps
<1>3. /\ \A c \in owed : SourceOf(c) # "Sx"
      /\ \A c \in owed' : c \in owed \/ (c \in Range(db) /\ SourceOf(c) = "Sx" /\ mem[c].ctx = t)
  BY <1>1, OsOwesNone DEF RecordsOf, SourceOf
<1>4. OwedInv'
  BY <1>1, <1>3 DEF EventInv, OwedInv, ContextsMatch, SourceOf
<1>5. TimerInv' /\ Pending'
  <2>1. "Sx" \notin Timers
    BY DEF Timers
  <2> QED BY <1>1, <1>2, <1>3, <2>1, AtRest DEF EventInv, TimerInv, Needs, Writing, Pending, Due, SourceOf
<1> QED BY <1>2, <1>4, <1>5 DEF EventInv

-----------------------------------------------------------------------------
\* Every operation of the dispatcher, the children and the OS.
LEMMA EventStep ==
  ASSUME Orderly, Inv, EventInv, [Next]_vars
  PROVE  EventInv'
<1>1. CASE SwitchSci \/ SmmReadyToLock
  <2>1. /\ \E S : Settle(S)
        /\ UNCHANGED <<db, mem, en, sts, eos, smi, apm, slp, pc, loc, os, paused>> /\ pc # "scan"
    <3>1. CASE SwitchSci
      BY <3>1 DEF SwitchSci
    <3>2. CASE SmmReadyToLock
      <4>1. Settle({})
        BY <3>2 DEF SmmReadyToLock, calls, Settle
      <4> QED BY <3>2, <4>1 DEF SmmReadyToLock, hw
    <3> QED BY <1>1, <3>1, <3>2
  <2> QED BY <2>1, LessOwedKeeps
<1>2. CASE UNCHANGED vars
  <2>1. LocType' /\ ListInv' /\ OwedInv' /\ LateInv' /\ TimerInv' /\ EosInv' /\ SleepInv'
    BY <1>2 DEF vars, EventInv, LocType, ListInv, OwedInv, LateInv, ContextsMatch, TimerInv, EosInv, SleepInv,
                SleepAfterChildren, Walking, SourceOf, Needs, Writing
  <2>2. WalkInv' /\ Pending'
    BY <1>2 DEF vars, EventInv, WalkInv, Pending, Due, Walking, SourceOf, Writing, AheadOfWalk
  <2>3. ScanInv'
    BY <1>2 DEF vars, EventInv, ScanInv, Passed, SourceIsActive, Due, SourceOf
  <2> QED BY <2>1, <2>2, <2>3 DEF EventInv
<1> QED
  BY <1>1, <1>2, EntryKeeps, SearchKeeps, ScanKeeps, ExhaustKeeps, CallbackReturnKeeps, ClearSourceEvents, EosKeeps,
     SleepKeeps, RsmEvents, RegisterEvents, RegisterFailsEvents, UnRegisterEvents, PauseEvents, ResumeEvents,
     EventKeeps, ClearEvents, ReadWriteEvents, TriggerEvents, OsSleepEvents
  DEF Next, Dispatcher, Children, Environment

\* The two invariants together are inductive.
LEMMA EventsAccounted ==
  ASSUME Orderly
  PROVE  Spec => [](Inv /\ EventInv)
<1>1. Disciplined
  BY DEF Orderly, Disciplined
<1>2. Inv /\ EventInv /\ [Next]_vars => (Inv /\ EventInv)'
  BY <1>1, Step, EventStep
<1> QED BY Initially, EventInitially, <1>2, PTL DEF Spec

\* The machine is put to sleep only for a sleep that was asked for, and after
\* every child registered for it has run: PchSmmCoreDispatcher sets
\* SxChildWasDispatched before the walk and sleeps at the very end.
THEOREM AlwaysSleepsLast ==
  ASSUME Orderly
  PROVE  Spec => []SleepAfterChildren
<1>1. EventInv => SleepAfterChildren
  BY DEF EventInv, SleepInv
<1> QED BY <1>1, EventsAccounted, PTL

\* No event of a registered child is lost between its status bit and its
\* callback, where no source is cleared along with another one and unless it
\* comes when the search or the walk has passed the child:
\* PchSmmCoreDispatcher clears a source only after it has exhausted the list.
THEOREM NoEventEverLost ==
  ASSUME Orderly, Sources \cap Shared = {}
  PROVE  Spec => []NoEventLost
<1>1. Inv /\ EventInv => NoEventLost
  <2> SUFFICES ASSUME Inv, EventInv, NEW c \in owed
               PROVE  \/ Desc(mem[c].src).sts \in sts
                      \/ mem[c].src = loc.active /\ AheadOfWalk(c)
                      \/ c \in late
    BY DEF NoEventLost
  <2>1. mem[c].src \notin Shared
    BY OwedSources, Unshared DEF Inv, EventInv, SourceOf
  <2> QED BY <2>1 DEF EventInv, Pending, Due, SourceOf
<1> QED BY <1>1, EventsAccounted, PTL
=============================================================================
